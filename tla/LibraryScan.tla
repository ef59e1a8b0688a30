---------------------------- MODULE LibraryScan ----------------------------
(***************************************************************************)
(* Library scans of one Emby server: the jobs (emby_libraries/tracker.py,  *)
(* scan_manager.py) and the poller that watches RefreshProgress until each *)
(* library is over (emby_runtime/library_poller.py).                       *)
(*                                                                         *)
(* The poller is one asyncio task of the server, and every tracked library *)
(* gets a detection of its own beside it.  Both publish what they see in   *)
(* the same way: look at the state again, tell the tracker in a thread,    *)
(* copy the state and write it in a thread.  A cancelled task leaves its   *)
(* thread behind, and who cancels waits for those threads.                 *)
(*                                                                         *)
(* Abstractions: what Emby answers is a choice among three; the limits of  *)
(* a minute before the first progress and of an hour after it are one fact *)
(* that becomes true; the keys of a reset are deleted in one step.  A      *)
(* library that is over is dropped before it is due again, which is five   *)
(* minutes later.                                                          *)
(***************************************************************************)
EXTENDS Naturals, FiniteSets

CONSTANTS
  Libraries,
  NoScan,        \* a library that is not tracked, or has no record
  MaxJobs,       \* bound: scan jobs
  MaxErrors,     \* max_errors: failures in a row that stop the poller, 5 in the code
  MaxProgress,   \* bound: updates that report nothing but progress
  MaxFences,     \* bound: resets, stops and readmissions of the server
  ScanEvents     \* the external events this instance explores

ASSUME LibraryAssumption == NoScan \notin Libraries
ASSUME ScanBoundAssumption ==
  /\ MaxJobs \in Nat \ {0} /\ MaxErrors \in Nat \ {0}
  /\ MaxProgress \in Nat /\ MaxFences \in Nat
ASSUME ScanEventAssumption ==
  ScanEvents \subseteq {"pollError",      \* a poll fails
                        "refused",        \* Emby does not start the scan
                        "slowDetection",  \* a detection is not over when a poll is answered
                        "dbError",        \* a record is not written
                        "reset", "stop"}  \* by an administrator

VARIABLES
  jobs,      \* LibraryScanTracker._jobs
  jobCount,  \* jobs created so far
  asking,    \* libraries that the request in hand has yet to start
  handed,    \* starts handed to the event loop: _scheduled_starts
  tracking,  \* _library_states, _tracked_libraries
  aged,      \* of a tracked library: the limit of its state is over
  poller,    \* the task in _polling_tasks: where it is
  got,       \* what Emby answered it, for the libraries it asked about
  todo,      \* updates it has yet to publish
  errors,    \* its error_count
  doomed,    \* libraries it drops when it leaves: failed_updates
  flows,     \* updates being published, and detections under way
  orphans,   \* thread calls whose task was cancelled
  cleanups,  \* terminal libraries to be dropped
  revision,  \* _persistence_revisions
  saved,     \* library_scan_state:<server>:<library> in the database
  wiped,     \* history: the revision at the last reset
  gen,       \* _server_generations
  life,      \* _lifecycle_generation
  blocked,   \* _blocked_servers
  fencing,   \* the reset or the stop under way
  fences     \* how many there were

jobVars == <<jobs, jobCount, asking>>
pollVars == <<poller, got, todo, errors, doomed>>
recordVars == <<revision, saved, wiped>>
guardVars == <<gen, life, blocked, fencing, fences>>
scanVars == <<jobVars, handed, tracking, aged, pollVars, flows, orphans, cleanups,
              recordVars, guardVars>>

Over == {"idle", "timeout", "error"}
LibraryTracks == [job : Nat, state : {"waiting", "running"} \cup Over, seen : BOOLEAN]
ASSUME TrackAssumption == NoScan \notin LibraryTracks
LibraryStatus == {"none", "active", "completed", "error"}
FolderAnswers == {"quiet", "refreshing", "absent"}
Update == [job : 1..MaxJobs, lib : Libraries, status : LibraryStatus, cleanup : BOOLEAN]
Snapshot == [job : 1..MaxJobs, state : {"waiting", "running"} \cup Over, rev : Nat]

\* Every update, cleanup and thread call names the job it was made for.
ScanTypeOK ==
  /\ jobCount \in 0..MaxJobs /\ asking \subseteq Libraries
  /\ jobs \in [1..jobCount -> [status : {"open", "completed", "error", "gone"},
                           libs : SUBSET Libraries, lib : [Libraries -> LibraryStatus]]]
  /\ handed \subseteq [job : 1..jobCount, lib : Libraries, gen : 0..gen, life : 0..life]
  /\ \A l \in Libraries :
       \/ tracking[l] = NoScan
       \/ tracking[l] \in [job : 1..jobCount, state : {"waiting", "running"} \cup Over,
                           seen : BOOLEAN]
  /\ aged \in [Libraries -> BOOLEAN]
  /\ poller \in {"none", "sleep", "asked", "answered", "dispatch", "dying"}
  /\ \A l \in DOMAIN got : l \in Libraries /\ got[l] \in FolderAnswers \cup {"pending"}
  /\ todo \subseteq Update /\ errors \in 0..MaxErrors
  /\ cleanups \cup doomed \subseteq [job : 1..jobCount, lib : Libraries]
  /\ revision \in [Libraries -> Nat] /\ wiped \in [Libraries -> Nat]
  /\ \A l \in Libraries : saved[l] = NoScan \/ saved[l] \in Snapshot
  /\ blocked \in BOOLEAN /\ fencing \in {"none", "reset", "stop"}

ScanInit ==
  /\ jobs = <<>> /\ jobCount = 0 /\ asking = {} /\ handed = {}
  /\ tracking = [l \in Libraries |-> NoScan] /\ aged = [l \in Libraries |-> FALSE]
  /\ poller = "none" /\ got = <<>> /\ todo = {} /\ errors = 0 /\ doomed = {}
  /\ flows = {} /\ orphans = {} /\ cleanups = {}
  /\ revision = [l \in Libraries |-> 0] /\ wiped = [l \in Libraries |-> 0]
  /\ saved = [l \in Libraries |-> NoScan]
  /\ gen = 0 /\ life = 0 /\ blocked = FALSE /\ fencing = "none" /\ fences = 0

Tracked == {l \in Libraries : tracking[l] # NoScan}
TrackedFor(l, j) == l \in Tracked /\ tracking[l].job = j

-----------------------------------------------------------------------------
(* Jobs *)

JobEnded(job) == \A l \in job.libs : job.lib[l] \in {"completed", "error"}

\* update_library_status
JobsTold(j, l, status) ==
  LET job == [jobs[j] EXCEPT !.lib[l] = status]
  IN  IF jobs[j].status = "gone" THEN jobs
      ELSE [jobs EXCEPT ![j] =
              IF ~JobEnded(job) THEN job
              ELSE [job EXCEPT !.status = IF \E m \in job.libs : job.lib[m] = "error"
                                          THEN "error" ELSE "completed"]]

\* create_job_unless_active: the libraries are reserved, or the job that has them is reused.
RequestScan(L) ==
  /\ asking = {} /\ fencing = "none" /\ ~blocked /\ jobCount < MaxJobs
  /\ \A j \in 1..jobCount : jobs[j].status = "open" => jobs[j].libs \cap L = {}
  /\ jobCount' = jobCount + 1 /\ asking' = L
  /\ jobs' = [j \in 1..jobCount + 1 |->
                IF j <= jobCount THEN jobs[j]
                ELSE [status |-> "open", libs |-> L, lib |-> [l \in Libraries |-> "none"]]]
  /\ UNCHANGED <<handed, tracking, aged, pollVars, flows, orphans, cleanups,
                 recordVars, guardVars>>

\* _trigger_tracked_libraries: Emby takes the scan, schedule_tracking_library.
ScheduleTracking(l) ==
  /\ l \in asking
  /\ asking' = asking \ {l}
  /\ handed' = handed \cup {[job |-> jobCount, lib |-> l, gen |-> gen, life |-> life]}
  /\ UNCHANGED <<jobs, jobCount, tracking, aged, pollVars, flows, orphans, cleanups,
                 recordVars, guardVars>>

\* _trigger_tracked_libraries: Emby refuses it.
TriggerRefused(l) ==
  /\ "refused" \in ScanEvents /\ l \in asking
  /\ asking' = asking \ {l}
  /\ jobs' = JobsTold(jobCount, l, "error")
  /\ UNCHANGED <<jobCount, handed, tracking, aged, pollVars, flows, orphans, cleanups,
                 recordVars, guardVars>>

\* start_tracking_library: the reasons to ignore a start that waited too long.
AdmittedWhenOpen(s) == fencing # "reset" /\ s.life = life
Admitted(s) == fencing # "reset" /\ s.life = life /\ s.gen = gen /\ ~blocked

StartTracking(s) ==
  /\ s \in handed
  /\ handed' = handed \ {s}
  /\ IF Admitted(s)
     THEN /\ tracking' = [tracking EXCEPT ![s.lib] =
                            [job |-> s.job, state |-> "waiting", seen |-> FALSE]]
          /\ aged' = [aged EXCEPT ![s.lib] = FALSE]
          /\ poller' = IF poller = "none" THEN "sleep" ELSE poller
          /\ errors' = IF poller = "none" THEN 0 ELSE errors
          /\ flows' = flows \cup {[by |-> "detection", at |-> "asked", job |-> s.job, lib |-> s.lib,
                                   gen |-> s.gen, status |-> "active", cleanup |-> FALSE,
                                   snap |-> NoScan]}
          /\ UNCHANGED <<got, todo, doomed>>
     ELSE UNCHANGED <<tracking, aged, pollVars, flows>>
  /\ UNCHANGED <<jobVars, orphans, cleanups, recordVars, guardVars>>

-----------------------------------------------------------------------------
(* Publishing an update *)

InThread == {"asked", "telling", "writing"}
FlowAt(f, at) == flows' = (flows \ {f}) \cup {[f EXCEPT !.at = at]}

\* _dispatch_tracker_updates: a terminal library of the poller's is dropped afterwards.
Done(f) ==
  /\ flows' = flows \ {f}
  /\ cleanups' = IF f.cleanup /\ fencing # "reset"
                 THEN cleanups \cup {[job |-> f.job, lib |-> f.lib]} ELSE cleanups

\* _update_tracker_status: the state is looked at again.
LookAgain(f) ==
  /\ f \in flows /\ f.at = "seen"
  /\ IF TrackedFor(f.lib, f.job) THEN FlowAt(f, "telling") /\ UNCHANGED cleanups ELSE Done(f)
  /\ UNCHANGED <<jobVars, handed, tracking, aged, pollVars, orphans, recordVars,
                 guardVars>>

TellTracker(f) ==
  /\ f \in flows /\ f.at = "telling"
  /\ jobs' = JobsTold(f.job, f.lib, f.status)
  /\ FlowAt(f, "told")
  /\ UNCHANGED <<jobCount, asking, handed, tracking, aged, pollVars, orphans, cleanups,
                 recordVars, guardVars>>

\* _persistence_lock
LaneFree == \A g \in flows : g.at # "writing"

\* _persist_library_state: whatever the state is by now, under both locks.
TakeSnapshot(f) ==
  /\ f \in flows /\ f.at = "told" /\ LaneFree
  /\ IF f.lib \in Tracked
     THEN LET rev == revision[f.lib] + 1
          IN  /\ revision' = [revision EXCEPT ![f.lib] = rev]
              /\ flows' = (flows \ {f}) \cup
                   {[f EXCEPT !.at = "writing",
                              !.snap = [job |-> tracking[f.lib].job,
                                        state |-> tracking[f.lib].state, rev |-> rev]]}
              /\ UNCHANGED cleanups
     ELSE Done(f) /\ UNCHANGED revision
  /\ UNCHANGED <<jobVars, handed, tracking, aged, pollVars, orphans, saved, wiped,
                 guardVars>>

\* keep_newest
Kept(l, snap) ==
  IF saved[l] # NoScan /\ saved[l].job = snap.job /\ saved[l].rev > snap.rev
  THEN saved[l] ELSE snap

WriteRecord(f) ==
  /\ f \in flows /\ f.at = "writing"
  /\ \/ saved' = [saved EXCEPT ![f.lib] = Kept(f.lib, f.snap)]
     \/ "dbError" \in ScanEvents /\ UNCHANGED saved
  /\ Done(f)
  /\ UNCHANGED <<jobVars, handed, tracking, aged, pollVars, orphans, revision, wiped,
                 guardVars>>

\* _run_worker_thread: the thread of a cancelled task goes on.
OrphanEnds(f) ==
  /\ f \in orphans
  /\ orphans' = orphans \ {f}
  /\ jobs' = IF f.at = "telling" THEN JobsTold(f.job, f.lib, f.status) ELSE jobs
  /\ saved' = IF f.at = "writing" THEN [saved EXCEPT ![f.lib] = Kept(f.lib, f.snap)] ELSE saved
  /\ UNCHANGED <<jobCount, asking, handed, tracking, aged, pollVars, flows, cleanups,
                 revision, wiped, guardVars>>

-----------------------------------------------------------------------------
(* The initial detection of a library *)

\* _attempt_initial_detection: one of its three answers; another one is asked for, or
\* the last was this one.
DetectionAnswered(f) ==
  /\ f \in flows /\ f.at = "asked"
  /\ \/ FlowAt(f, "answered")
     \/ flows' = flows \ {f}
  /\ UNCHANGED <<jobVars, handed, tracking, aged, pollVars, orphans, cleanups,
                 recordVars, guardVars>>

\* _handle_detected_progress
Detected(f) ==
  /\ f \in flows /\ f.at = "answered"
  /\ IF f.gen = gen /\ TrackedFor(f.lib, f.job)
     THEN /\ tracking' = [tracking EXCEPT ![f.lib].state = "running", ![f.lib].seen = TRUE]
          /\ FlowAt(f, "seen")
     ELSE flows' = flows \ {f} /\ UNCHANGED tracking
  /\ UNCHANGED <<jobVars, handed, aged, pollVars, orphans, cleanups, recordVars,
                 guardVars>>

-----------------------------------------------------------------------------
(* The poller *)

Ages(l) ==
  /\ l \in Tracked /\ ~aged[l]
  /\ aged' = [aged EXCEPT ![l] = TRUE]
  /\ UNCHANGED <<jobVars, handed, tracking, pollVars, flows, orphans, cleanups,
                 recordVars, guardVars>>

\* _collect_due_libraries; the poller sleeps for a tenth of a second at least, a
\* cleanup only waits for its turn.
PollAsks(L) ==
  /\ poller = "sleep" /\ L # {} /\ L \subseteq {l \in Tracked : tracking[l].state \notin Over}
  /\ \A c \in cleanups : ~TrackedFor(c.lib, c.job)
  /\ poller' = "asked" /\ got' = [l \in L |-> "pending"]
  /\ UNCHANGED <<jobVars, handed, tracking, aged, todo, errors, doomed, flows, orphans,
                 cleanups, recordVars, guardVars>>

PollAnswered ==
  /\ poller = "asked"
  /\ "slowDetection" \in ScanEvents \/ \A f \in flows : f.by # "detection"
  /\ poller' = "answered" /\ got' \in [DOMAIN got -> FolderAnswers]
  /\ UNCHANGED <<jobVars, handed, tracking, aged, todo, errors, doomed, flows, orphans,
                 cleanups, recordVars, guardVars>>

\* _fetch_and_update_libraries, missing_target_update: the state an answer leads to.
StateAfter(l) ==
  LET t == tracking[l] IN
  CASE got[l] = "refreshing" -> IF t.state = "running" /\ aged[l] THEN "error" ELSE "running"
    [] got[l] = "quiet" -> IF t.seen THEN "idle" ELSE IF aged[l] THEN "timeout" ELSE "waiting"
    [] got[l] = "absent" -> IF t.state \in Over \/ ~aged[l] THEN t.state
                            ELSE IF t.seen THEN "error" ELSE "timeout"

Reported(state) == CASE state \in {"idle", "timeout"} -> "completed"
                     [] state = "error" -> "error"
                     [] OTHER -> "active"

UpdateOf(l, state) == [job |-> tracking[l].job, lib |-> l, status |-> Reported(state),
                       cleanup |-> state \in Over]

\* An update for every library whose state changes; some running ones report progress.
PollApplies(P) ==
  LET L == DOMAIN got \cap Tracked
      changed == {l \in L : StateAfter(l) # tracking[l].state}
  IN  /\ poller = "answered"
      /\ P \subseteq {l \in L \ changed : StateAfter(l) = "running" /\ revision[l] < MaxProgress}
      /\ tracking' = [l \in Libraries |->
           IF l \notin L THEN tracking[l]
           ELSE [tracking[l] EXCEPT !.state = StateAfter(l), !.seen = @ \/ got[l] = "refreshing"]]
      /\ aged' = [l \in Libraries |-> aged[l] /\ ~(l \in changed /\ StateAfter(l) = "running")]
      /\ todo' = {UpdateOf(l, StateAfter(l)) : l \in changed \cup P}
      /\ poller' = "dispatch" /\ got' = <<>> /\ errors' = 0
      /\ UNCHANGED <<jobVars, handed, doomed, flows, orphans, cleanups, recordVars,
                     guardVars>>

PollPublishes(u) ==
  /\ poller \in {"dispatch", "dying"} /\ u \in todo
  /\ \A f \in flows : f.by # "poller"
  /\ todo' = todo \ {u}
  /\ flows' = flows \cup {[by |-> "poller", at |-> "seen", job |-> u.job, lib |-> u.lib, gen |-> gen,
                           status |-> u.status, cleanup |-> u.cleanup, snap |-> NoScan]}
  /\ UNCHANGED <<jobVars, handed, tracking, aged, poller, got, errors, doomed, orphans,
                 cleanups, recordVars, guardVars>>

Published == todo = {} /\ \A f \in flows : f.by # "poller"

PollSleeps ==
  /\ poller = "dispatch" /\ Published
  /\ poller' = "sleep"
  /\ UNCHANGED <<jobVars, handed, tracking, aged, got, todo, errors, doomed, flows,
                 orphans, cleanups, recordVars, guardVars>>

\* _poll_server_libraries: an error; after too many _fail_tracked_libraries.
PollFails ==
  /\ "pollError" \in ScanEvents /\ poller = "asked"
  /\ got' = <<>>
  /\ IF errors + 1 < MaxErrors
     THEN poller' = "sleep" /\ errors' = errors + 1 /\ UNCHANGED <<tracking, todo,
                                                                   doomed>>
     ELSE LET failed == {l \in Tracked : tracking[l].state \notin Over}
          IN  /\ poller' = "dying" /\ errors' = MaxErrors
              /\ tracking' = [l \in Libraries |-> IF l \in failed
                                THEN [tracking[l] EXCEPT !.state = "error"] ELSE tracking[l]]
              /\ todo' = {[UpdateOf(l, "error") EXCEPT !.cleanup = FALSE] : l \in failed}
              /\ doomed' = {[job |-> tracking[l].job, lib |-> l] : l \in failed}
  /\ UNCHANGED <<jobVars, handed, aged, flows, orphans, cleanups, recordVars, guardVars>>

\* _poll_server_libraries, finally: the task takes itself out of the register, and
\* then drops the libraries it has failed.
PollerLeaves ==
  /\ poller = "dying" /\ Published
  /\ poller' = "none" /\ errors' = 0 /\ doomed' = {}
  /\ cleanups' = cleanups \cup doomed
  /\ UNCHANGED <<jobVars, handed, tracking, aged, got, todo, flows, orphans,
                 recordVars, guardVars>>

\* Cancelling tasks: those who are in a thread leave it behind.
CancelFlows(F) ==
  /\ flows' = flows \ F
  /\ orphans' = orphans \cup {f \in F : f.at \in InThread}
CancelPoller == poller' = "none" /\ got' = <<>> /\ todo' = {} /\ errors' = 0 /\ doomed' = {}
OfPoller == {f \in flows : f.by = "poller"}

\* stop_tracking_library: unless the library is tracked for another job by now.
DropLibrary(c) ==
  /\ c \in cleanups
  /\ cleanups' = cleanups \ {c}
  /\ IF TrackedFor(c.lib, c.job)
     THEN /\ tracking' = [tracking EXCEPT ![c.lib] = NoScan]
          /\ aged' = [aged EXCEPT ![c.lib] = FALSE]
          /\ IF Tracked = {c.lib} THEN CancelPoller /\ CancelFlows(OfPoller)
             ELSE UNCHANGED <<pollVars, flows, orphans>>
     ELSE UNCHANGED <<tracking, aged, pollVars, flows, orphans>>
  /\ UNCHANGED <<jobVars, handed, recordVars, guardVars>>

-----------------------------------------------------------------------------
(* Resets and stops *)

Fence(kind) ==
  /\ fencing = "none" /\ asking = {} /\ fences < MaxFences
  /\ kind \in ScanEvents
  /\ fences' = fences + 1
  /\ gen' = gen + 1
  /\ tracking' = [l \in Libraries |-> NoScan] /\ aged' = [l \in Libraries |-> FALSE]
  /\ CancelPoller

\* clear_states, _stop_all: every task is cancelled and no new one is taken.
BeginReset ==
  /\ Fence("reset")
  /\ fencing' = "reset" /\ life' = life + 1
  /\ CancelFlows(flows) /\ cleanups' = {}
  /\ UNCHANGED <<jobVars, handed, recordVars, blocked>>

DrainedAtOnce == TRUE
\* _drain_worker_thread_calls
Drained == orphans = {} /\ \A f \in flows : f.at \notin InThread

\* clear_states, clear_jobs: unless the database fails.
EndReset ==
  /\ fencing = "reset" /\ Drained
  /\ fencing' = "none"
  /\ \/ /\ saved' = [l \in Libraries |-> NoScan] /\ wiped' = revision
        /\ jobs' = [j \in 1..jobCount |-> [jobs[j] EXCEPT !.status = "gone"]]
     \/ "dbError" \in ScanEvents /\ UNCHANGED <<saved, wiped, jobs>>
  /\ UNCHANGED <<jobCount, asking, handed, tracking, aged, pollVars, flows, orphans,
                 cleanups,
                 revision, gen, life, blocked, fences>>

\* stop_server: the poller is cancelled, the detections are not.
BeginStop ==
  /\ Fence("stop")
  /\ fencing' = "stop" /\ blocked' = TRUE
  /\ CancelFlows(OfPoller)
  /\ UNCHANGED <<jobVars, handed, cleanups, recordVars, life>>

EndStop ==
  /\ fencing = "stop" /\ Drained
  /\ fencing' = "none"
  /\ UNCHANGED <<jobVars, handed, tracking, aged, pollVars, flows, orphans, cleanups,
                 recordVars,
                 gen, life, blocked, fences>>

\* allow_server: the server is saved again, or was not deleted after all.
AllowServer ==
  /\ fencing = "none" /\ blocked
  /\ blocked' = FALSE /\ gen' = gen + 1
  /\ UNCHANGED <<jobVars, handed, tracking, aged, pollVars, flows, orphans, cleanups,
                 recordVars,
                 life, fencing, fences>>

-----------------------------------------------------------------------------
EventLoop == (\E s \in handed : StartTracking(s)) \/ (\E c \in cleanups : DropLibrary(c))
Publishing ==
  \E f \in flows : \/ LookAgain(f) \/ TellTracker(f) \/ TakeSnapshot(f) \/ WriteRecord(f)
                   \/ DetectionAnswered(f) \/ Detected(f)
Polling ==
  \/ PollAnswered \/ PollFails \/ (\E P \in SUBSET Libraries : PollApplies(P))
  \/ (\E u \in todo : PollPublishes(u)) \/ PollSleeps \/ PollerLeaves

ScanNext ==
  \/ \E L \in (SUBSET Libraries) \ {{}} : RequestScan(L) \/ PollAsks(L)
  \/ \E l \in Libraries : ScheduleTracking(l) \/ TriggerRefused(l) \/ Ages(l)
  \/ EventLoop \/ Publishing \/ Polling
  \/ \E f \in orphans : OrphanEnds(f)
  \/ BeginReset \/ EndReset \/ BeginStop \/ EndStop \/ AllowServer

ScanSpec == ScanInit /\ [][ScanNext]_scanVars

\* The event loop runs every task and every thread call returns; a library is due again
\* and again while it is tracked, and its limit passes.
ScanFairness ==
  /\ \A l \in Libraries :
       /\ WF_scanVars(ScheduleTracking(l) \/ TriggerRefused(l)) /\ WF_scanVars(Ages(l))
       /\ SF_scanVars(\E L \in SUBSET Libraries : l \in L /\ PollAsks(L))
  /\ WF_scanVars(EventLoop) /\ WF_scanVars(Publishing) /\ WF_scanVars(Polling)

ScanFairSpec == ScanSpec /\ ScanFairness
-----------------------------------------------------------------------------
(* Properties *)

\* A write never takes a record back: not to what an earlier snapshot of the library
\* said, and not to what a reset wiped.  The comment at library_poller.py:1119 promises
\* this of blocked writes; cancelled tasks leave theirs behind without the lock.
RecordsOnlyAdvance ==
  [][\A l \in Libraries : saved'[l] \notin {saved[l], NoScan} =>
       /\ saved'[l].rev > wiped[l]
       /\ saved[l] # NoScan => saved'[l].rev > saved[l].rev]_scanVars

\* Once a server was stopped nothing of it is tracked or polled until it is admitted
\* again, whatever starts were under way (stop_server, start_tracking_library); the
\* same holds while a reset lasts.
QuietAfterStop ==
  blocked \/ fencing = "reset" => Tracked = {} /\ poller = "none"

\* Every scan that was asked for is over some day: Emby reports its end or the poller
\* gives it up: library_poller.py:97 calls max_scan_duration "timeout massimo scan (1 ora)".
Open(j) == j <= jobCount /\ jobs[j].status = "open"
ScanEnds == \A j \in 1..MaxJobs : Open(j) ~> ~Open(j)
=============================================================================
