----------------------------- MODULE Operations -----------------------------
(***************************************************************************)
(* The operations centre: the registry of operations in one key-value row  *)
(* and its heartbeats (core/operations.py), the background jobs whose      *)
(* progress it shows (services/background_jobs.py and                      *)
(* background_job_registry.py), the recovery at startup (app_state.py) and *)
(* the order of the shutdown (runtime/bootstrap.py), over the processes    *)
(* that follow one another in a deployment of one worker.                  *)
(*                                                                         *)
(* Abstractions: an operation is its number; the age of a heartbeat is     *)
(* whether fifteen minutes have passed; texts, counts and results are left *)
(* out.  A write of the registry is atomic (update_key_value), and it may  *)
(* raise before or after it was committed.                                 *)
(***************************************************************************)
EXTENDS Naturals, FiniteSets

CONSTANTS
  JobKeys,      \* single-flight keys
  MaxRecent,    \* max_recent: ended operations that are kept
  MaxOps,       \* bound: operations ever started
  MaxOwners,    \* bound: processes, each with an owner_id of its own
  MaxLives,     \* bound: lifespans of all of them
  MaxOpFaults,  \* bound: faults
  OpEvents      \* the events this instance explores

ASSUME OperationBounds ==
  /\ JobKeys # {}
  /\ MaxRecent \in Nat \ {0} /\ MaxOps \in Nat /\ MaxOwners \in Nat \ {0}
  /\ MaxLives \in Nat \ {0} /\ MaxOpFaults \in Nat
ASSUME OpEventAssumption ==
  OpEvents \subseteq {"dbError", "threadFails", "outage", "crash", "shutdown", "clear"}

Ops == 1..MaxOps

VARIABLES
  registry,   \* the operations of the key-value row: status, owner, whether the heartbeat is old
  ended,      \* the ended ones among them, each with its place: the latest is the first
  serving,    \* the process that runs
  lifespan,   \* where its lifespan is
  recovered,  \* _OPERATION_TRACKER_RECOVERED, or that the last attempt failed
  jobsOpen,   \* _accepting_jobs of the job registry
  opJob,      \* _jobs and their threads, by operation
  tracker,    \* _accepting_operations, _heartbeat_operation_ids, _heartbeat_thread and _heartbeat_stop
  batch,      \* the ids the sweeper has copied
  lives,      \* lifespans so far
  opFaults    \* faults so far

rowVars == <<registry, ended>>
processVars == <<serving, lifespan, recovered, lives>>
opVars == <<rowVars, processVars, jobsOpen, opJob, tracker, batch, opFaults>>

NoOpJob == [at |-> "none", key |-> CHOOSE k \in JobKeys : TRUE, stop |-> FALSE]
NewTracker == [open |-> TRUE, tracked |-> {}, sweeper |-> "none", stop |-> FALSE]

ProcessUp == lifespan \notin {"new", "down"}
ThreadAlive(o) == opJob[o].at \in {"begins", "works", "finishes", "fails", "leaves"}
Started == {o \in Ops : opJob[o].at # "none"}
OpRuns(o) == o \in DOMAIN registry /\ registry[o].status = "running"
RunningOps == {o \in DOMAIN registry : registry[o].status = "running"}

OpRecords ==
  [status : {"running", "success", "error", "interrupted"}, owner : 1..MaxOwners, old : BOOLEAN]

\* The rows: of those that ended as many as may be kept, each in a place of its own.
RowsTypeOK ==
  /\ DOMAIN registry \subseteq Ops
  /\ \A o \in DOMAIN registry : registry[o] \in OpRecords
  /\ ended \in [DOMAIN registry \ RunningOps -> 1..MaxRecent]
  /\ \A o, n \in DOMAIN ended : ended[o] = ended[n] => o = n

OperationsTypeOK ==
  /\ RowsTypeOK
  /\ serving \in 0..MaxOwners /\ lives \in 0..MaxLives
  /\ lifespan \in {"new", "starts", "open", "closing", "fenced", "joins", "closed", "down"}
  /\ recovered \in {"no", "failed", "yes"} /\ jobsOpen \in BOOLEAN
  /\ opJob \in [Ops -> [at : {"none", "begins", "works", "finishes", "fails", "unstarted", "leaves", "gone"},
                      key : JobKeys, stop : BOOLEAN]]
  /\ tracker \in [open : BOOLEAN, tracked : SUBSET Ops, sweeper : {"none", "waits", "renews", "reaps"},
                  stop : BOOLEAN]
  /\ batch \subseteq Ops /\ opFaults \in 0..MaxOpFaults

OperationsInit ==
  /\ registry = <<>> /\ ended = <<>>
  /\ serving = 0 /\ lifespan = "new" /\ recovered = "no" /\ lives = 0
  /\ jobsOpen = TRUE /\ opJob = [o \in Ops |-> NoOpJob]
  /\ tracker = NewTracker /\ batch = {}
  /\ opFaults = 0

OpFault(event) ==
  /\ event \in OpEvents /\ opFaults < MaxOpFaults
  /\ opFaults' = opFaults + 1

-----------------------------------------------------------------------------
(* Writes of the registry *)

IsOwn(o) == registry[o].owner = serving
Mine == {o \in RunningOps : IsOwn(o)}

\* _mutate_registry: the operations of a set change as they are told, and _prune keeps the
\* latest of the ended ones.  Those that end now come first, in the order they were started,
\* and those that ended before follow as they were.
NewlyEnded(changed) == {o \in DOMAIN changed : changed[o].status # "running"}
EndedBefore(changed) == DOMAIN ended \ DOMAIN changed
Place(changed, o) ==
  IF o \in NewlyEnded(changed)
  THEN Cardinality({n \in NewlyEnded(changed) : n <= o})
  ELSE Cardinality(NewlyEnded(changed)) + Cardinality({n \in EndedBefore(changed) : ended[n] <= ended[o]})

KeptEnded(changed) == {o \in NewlyEnded(changed) \cup EndedBefore(changed) : Place(changed, o) <= MaxRecent}

Saved(changed) ==
  LET written == [o \in DOMAIN registry \cup DOMAIN changed |->
                    IF o \in DOMAIN changed THEN changed[o] ELSE registry[o]]
  IN  /\ ended' = [o \in KeptEnded(changed) |-> Place(changed, o)]
      /\ registry' = [o \in KeptEnded(changed) \cup {n \in DOMAIN written : written[n].status = "running"} |->
                        written[o]]

\* Operations of a set get a status.
Become(set, status) == Saved([o \in set |-> [registry[o] EXCEPT !.status = status]])
\* Operations of a set get a new heartbeat.
HeartbeatsRenewed(set) == Saved([o \in set |-> [registry[o] EXCEPT !.old = FALSE]])

\* A write that raises: it was committed or it was not.
Raises(write) == OpFault("dbError") /\ (write \/ UNCHANGED rowVars)

Untracked(set) == tracker' = [tracker EXCEPT !.tracked = @ \ set]

\* _complete: only an operation of this process that still runs.
Completed(o, status) == Become({o} \cap Mine, status)

-----------------------------------------------------------------------------
(* Jobs *)

\* start_tracked_background_job, with the lock of the job registry: a live job of the key is
\* joined, otherwise OperationTracker.start makes the operation and then the thread starts.
MayStartJob(k, o) ==
  /\ o \notin Started /\ \A n \in Ops : n < o => n \in Started
  /\ ProcessUp /\ recovered # "no" /\ jobsOpen /\ tracker.open
  /\ \A n \in Ops : opJob[n].key = k => ~ThreadAlive(n)

OpAdded(o) == Saved([n \in {o} |-> [status |-> "running", owner |-> serving, old |-> FALSE]])
Enters(o, k, place) == opJob' = [opJob EXCEPT ![o] = [at |-> place, key |-> k, stop |-> FALSE]]

\* start renews the operation from now on, and ensures that there is a sweeper.
Tracks(o) ==
  tracker' = [tracker EXCEPT !.tracked = @ \cup {o}, !.sweeper = IF @ = "none" THEN "waits" ELSE @]

StartJob(k, o) ==
  /\ MayStartJob(k, o)
  /\ OpAdded(o) /\ Tracks(o)
  /\ \/ Enters(o, k, "begins") /\ UNCHANGED opFaults
     \/ Enters(o, k, "unstarted") /\ OpFault("threadFails")
  /\ UNCHANGED <<processVars, jobsOpen, batch>>

\* The write raises: nothing was tracked, and no thread is made.
StartRaises(k, o) ==
  /\ MayStartJob(k, o)
  /\ Raises(OpAdded(o))
  /\ Enters(o, k, "gone")
  /\ UNCHANGED <<processVars, jobsOpen, tracker, batch>>

\* The sweeper does not start: the operation ends at once (_terminalize_operation_start_failure;
\* that this write fails too is left out).
SweeperFails(k, o) ==
  /\ MayStartJob(k, o) /\ tracker.sweeper = "none"
  /\ OpFault("threadFails")
  /\ Saved([n \in {o} |-> [status |-> "error", owner |-> serving, old |-> FALSE]])
  /\ Enters(o, k, "gone")
  /\ UNCHANGED <<processVars, jobsOpen, tracker, batch>>

JobGoes(o, place) == opJob' = [opJob EXCEPT ![o].at = place]

\* _run: it begins with an update of its operation, unless it was told to stop.
JobBegins(o) ==
  /\ opJob[o].at = "begins"
  /\ IF opJob[o].stop THEN JobGoes(o, "fails") /\ UNCHANGED <<rowVars, opFaults>>
     ELSE \/ JobGoes(o, "works") /\ HeartbeatsRenewed({o} \cap Mine) /\ UNCHANGED opFaults
          \/ JobGoes(o, "fails") /\ Raises(HeartbeatsRenewed({o} \cap Mine))
  /\ UNCHANGED <<processVars, jobsOpen, tracker, batch>>

\* The work tells of its progress.
JobUpdates(o) ==
  /\ opJob[o].at = "works"
  /\ o \in Mine /\ registry[o].old
  /\ HeartbeatsRenewed({o})
  /\ UNCHANGED <<processVars, jobsOpen, opJob, tracker, batch, opFaults>>

\* The work returns: complete and not told to stop, or not.
JobReturns(o) ==
  /\ opJob[o].at = "works"
  /\ \/ ~opJob[o].stop /\ JobGoes(o, "finishes")
     \/ JobGoes(o, "fails")
  /\ UNCHANGED <<rowVars, processVars, jobsOpen, tracker, batch, opFaults>>

\* tracker.finish; when it raises the job fails.
JobFinishes(o) ==
  /\ opJob[o].at = "finishes"
  /\ \/ Completed(o, "success") /\ Untracked({o}) /\ JobGoes(o, "leaves") /\ UNCHANGED opFaults
     \/ Raises(Completed(o, "success")) /\ JobGoes(o, "fails") /\ UNCHANGED tracker
  /\ UNCHANGED <<processVars, jobsOpen, batch>>

\* _fail_operation_safely, of the job or, when its thread did not start, of the caller:
\* an error is logged, and the operation is left to the sweeper.
JobFails(o) ==
  /\ opJob[o].at \in {"fails", "unstarted"}
  /\ JobGoes(o, IF opJob[o].at = "fails" THEN "leaves" ELSE "gone")
  /\ \/ Completed(o, "error") /\ Untracked({o}) /\ UNCHANGED opFaults
     \/ Raises(Completed(o, "error")) /\ UNCHANGED tracker
  /\ UNCHANGED <<processVars, jobsOpen, batch>>

\* run: the thread takes its job off the registry.
JobLeaves(o) ==
  /\ opJob[o].at = "leaves"
  /\ JobGoes(o, "gone")
  /\ UNCHANGED <<rowVars, processVars, jobsOpen, tracker, batch, opFaults>>

\* clear_completed
ClearCompleted ==
  /\ "clear" \in OpEvents /\ ProcessUp /\ ended # <<>>
  /\ ended' = <<>> /\ registry' = [o \in RunningOps |-> registry[o]]
  /\ UNCHANGED <<processVars, jobsOpen, opJob, tracker, batch, opFaults>>

-----------------------------------------------------------------------------
(* The heartbeat sweeper, every minute *)

SweeperAlive == tracker.sweeper # "none"

\* A heartbeat gets old when nobody renews it; a live sweeper renews in time what it tracks.
HeartbeatAges(o) ==
  /\ o \in RunningOps /\ ~registry[o].old
  /\ ~(IsOwn(o) /\ ProcessUp /\ SweeperAlive /\ o \in tracker.tracked)
  /\ registry' = [registry EXCEPT ![o].old = TRUE]
  /\ UNCHANGED <<ended, processVars, jobsOpen, opJob, tracker, batch, opFaults>>

\* _heartbeat_owned_operations copies the ids with its lock ...
SweepTakes ==
  /\ tracker.sweeper = "waits" /\ ~tracker.stop
  /\ batch' = tracker.tracked
  /\ tracker' = [tracker EXCEPT !.sweeper = "renews"]
  /\ UNCHANGED <<rowVars, processVars, jobsOpen, opJob, opFaults>>

\* Mutation of AfterFailedRenewal: it looks for stale operations all the same.
ReapsAnyway == "reaps"

\* "continue": what could not be renewed is not looked at.
AfterFailedRenewal == "waits"

\* ... and renews in one write those that still run; the others it tracks no longer.  In an
\* outage its writes fail until what it tracks is old.
SweepRenews ==
  /\ tracker.sweeper = "renews"
  /\ \/ /\ IF batch = {} THEN UNCHANGED rowVars ELSE HeartbeatsRenewed(batch \cap Mine)
        /\ tracker' = [tracker EXCEPT !.sweeper = "reaps", !.tracked = @ \ (batch \ Mine)]
        /\ UNCHANGED opFaults
     \/ /\ batch # {}
        /\ \/ Raises(HeartbeatsRenewed(batch \cap Mine))
           \/ /\ OpFault("outage")
              /\ Saved([o \in tracker.tracked \cap Mine |-> [registry[o] EXCEPT !.old = TRUE]])
        /\ tracker' = [tracker EXCEPT !.sweeper = AfterFailedRenewal]
  /\ batch' = {}
  /\ UNCHANGED <<processVars, jobsOpen, opJob>>

\* Mutation of Stale: its own operations are spared.
StaleStrangers == {o \in RunningOps : registry[o].old /\ ~IsOwn(o)}

\* Whoever owns them.
Stale == {o \in RunningOps : registry[o].old}

\* _has_stale_active_operations, interrupt_stale
SweepReaps ==
  LET stale == Stale
  IN  /\ tracker.sweeper = "reaps"
      /\ \/ /\ IF stale = {} THEN UNCHANGED rowVars ELSE Become(stale, "interrupted")
            /\ tracker' = [tracker EXCEPT !.sweeper = "waits", !.tracked = @ \ stale]
            /\ UNCHANGED opFaults
         \/ /\ stale # {} /\ Raises(Become(stale, "interrupted"))
            /\ tracker' = [tracker EXCEPT !.sweeper = "waits"]
      /\ UNCHANGED <<processVars, jobsOpen, opJob, batch>>

SweeperEnds ==
  /\ tracker.sweeper = "waits" /\ tracker.stop
  /\ tracker' = [tracker EXCEPT !.sweeper = "none"]
  /\ UNCHANGED <<rowVars, processVars, jobsOpen, opJob, batch, opFaults>>

-----------------------------------------------------------------------------
(* Processes and lifespans *)

\* A process starts when the one before it is gone.
Boots ==
  /\ lifespan \in {"new", "down"} /\ serving < MaxOwners /\ lives < MaxLives
  /\ serving' = serving + 1 /\ lives' = lives + 1
  /\ lifespan' = "starts" /\ recovered' = "no"
  /\ jobsOpen' = TRUE /\ tracker' = NewTracker /\ batch' = {}
  /\ UNCHANGED <<rowVars, opJob, opFaults>>

Strangers == RunningOps \ Mine

\* get_operation_tracker: what other processes have left is interrupted, once; after an
\* error the next caller tries again.
Recovers ==
  /\ ProcessUp /\ recovered # "yes"
  /\ \/ Become(Strangers, "interrupted") /\ recovered' = "yes" /\ UNCHANGED opFaults
     \/ Raises(Become(Strangers, "interrupted")) /\ recovered' = "failed"
  /\ UNCHANGED <<serving, lifespan, lives, jobsOpen, opJob, tracker, batch>>

\* initialize, once it was tried to recover: a tracker that was shut down is opened, and the
\* sweeper ensured; when either fails the startup goes on without it.
LifespanOpens ==
  /\ lifespan = "starts" /\ recovered # "no"
  /\ lifespan' = "open"
  /\ \/ /\ tracker.open \/ ~SweeperAlive
        /\ tracker' = [tracker EXCEPT !.open = TRUE, !.stop = FALSE, !.sweeper = IF @ = "none" THEN "waits" ELSE @,
                                      !.tracked = IF tracker.open THEN @ ELSE {}]
        /\ UNCHANGED opFaults
     \/ ~tracker.open /\ SweeperAlive /\ UNCHANGED <<tracker, opFaults>>
     \/ /\ ~SweeperAlive /\ OpFault("threadFails")
        /\ tracker' = [tracker EXCEPT !.open = TRUE, !.stop = FALSE, !.tracked = IF tracker.open THEN @ ELSE {}]
  /\ UNCHANGED <<rowVars, serving, recovered, lives, jobsOpen, opJob, batch>>

\* Another lifespan in the same process: initialize_background_jobs refuses while a thread of
\* the last one lives.
Reopens ==
  /\ lifespan = "closed" /\ lives < MaxLives
  /\ \A o \in Ops : ~ThreadAlive(o)
  /\ lives' = lives + 1 /\ lifespan' = "starts" /\ jobsOpen' = TRUE
  /\ UNCHANGED <<rowVars, serving, recovered, opJob, tracker, batch, opFaults>>

\* shutdown_runtime_services: the jobs are told to stop (the last lifespan stays open) ...
LifespanCloses ==
  /\ "shutdown" \in OpEvents /\ lifespan = "open" /\ lives < MaxLives
  /\ lifespan' = "closing" /\ jobsOpen' = FALSE
  /\ opJob' = [o \in Ops |-> IF ThreadAlive(o) THEN [opJob[o] EXCEPT !.stop = TRUE] ELSE opJob[o]]
  /\ UNCHANGED <<rowVars, serving, recovered, lives, tracker, batch, opFaults>>

JobsDrained == \A o \in Ops : ~ThreadAlive(o)

\* ... when all workers have stopped in time the tracker is fenced, otherwise it is left open.
Fences ==
  /\ lifespan = "closing"
  /\ \/ JobsDrained /\ lifespan' = "fenced" /\ tracker' = [tracker EXCEPT !.open = FALSE, !.stop = TRUE]
     \/ lifespan' = "closed" /\ UNCHANGED tracker
  /\ UNCHANGED <<rowVars, serving, recovered, lives, jobsOpen, opJob, batch, opFaults>>

\* interrupt_active; its error is logged.
InterruptsMine ==
  /\ lifespan = "fenced" /\ lifespan' = "joins"
  /\ \/ Become(Mine, "interrupted") /\ Untracked(Mine) /\ UNCHANGED opFaults
     \/ Raises(Become(Mine, "interrupted")) /\ UNCHANGED tracker
  /\ UNCHANGED <<serving, recovered, lives, jobsOpen, opJob, batch>>

\* The sweeper is joined in time, or not.
SweeperJoined ==
  /\ lifespan = "joins" /\ lifespan' = "closed"
  /\ tracker' = IF SweeperAlive THEN tracker ELSE [tracker EXCEPT !.tracked = {}]
  /\ UNCHANGED <<rowVars, serving, recovered, lives, jobsOpen, opJob, batch, opFaults>>

\* The process exits after its shutdown, or dies; the last process stays.
Exits ==
  /\ serving < MaxOwners /\ lives < MaxLives
  /\ lifespan = "closed" \/ (ProcessUp /\ "crash" \in OpEvents)
  /\ lifespan' = "down"
  /\ opJob' = [o \in Ops |-> IF opJob[o].at = "none" THEN opJob[o] ELSE [opJob[o] EXCEPT !.at = "gone"]]
  /\ tracker' = NewTracker /\ batch' = {}
  /\ UNCHANGED <<rowVars, serving, recovered, lives, jobsOpen, opFaults>>

JobStep(o) ==
  JobBegins(o) \/ JobUpdates(o) \/ JobReturns(o) \/ JobFinishes(o) \/ JobFails(o) \/ JobLeaves(o)

SweeperStep == SweepTakes \/ SweepRenews \/ SweepReaps \/ SweeperEnds
LifeStep == Boots \/ Recovers \/ LifespanOpens \/ Reopens \/ Fences \/ InterruptsMine \/ SweeperJoined

OperationsNext ==
  \/ \E k \in JobKeys, o \in Ops : StartJob(k, o) \/ StartRaises(k, o) \/ SweeperFails(k, o)
  \/ \E o \in Ops : JobStep(o) \/ HeartbeatAges(o)
  \/ SweeperStep \/ LifeStep
  \/ LifespanCloses \/ Exits \/ ClearCompleted

OperationsSpec == OperationsInit /\ [][OperationsNext]_opVars

\* Threads run and their calls return, time passes, and a deployment starts its process again
\* (restart: unless-stopped).
OperationsFairness ==
  /\ \A o \in Ops : WF_opVars(JobStep(o)) /\ WF_opVars(HeartbeatAges(o))
  /\ WF_opVars(SweeperStep) /\ WF_opVars(LifeStep)

OperationsFairSpec == OperationsSpec /\ OperationsFairness

-----------------------------------------------------------------------------
(* Properties *)

\* What the operations centre shows of a job that is at work: its operation runs, whatever
\* sweeps, recoveries, outages and shutdowns there were meanwhile.
LiveWorkIsShown ==
  \A o \in Ops : opJob[o].at \in {"begins", "works", "finishes"} => OpRuns(o)

\* An operation nobody renews does not run for ever: its process died, its start raised after
\* the write, or its lifespan is over.
AbandonedEnds == \A o \in Ops : (OpRuns(o) /\ ~(IsOwn(o) /\ o \in tracker.tracked)) ~> ~OpRuns(o)

=============================================================================
