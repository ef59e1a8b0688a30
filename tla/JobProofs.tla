------------------------------ MODULE JobProofs ------------------------------
(***************************************************************************)
(* Proofs about the operations centre, the background jobs it shows, and   *)
(* the library scans.                                                      *)
(*                                                                         *)
(* The inductive invariant says more than that a job at work is shown: its *)
(* row belongs to the process that serves (or the recovery would interrupt *)
(* it), its process renews it (or it would get old while the sweeper       *)
(* lives), and the sweeper that is about to look for stale rows has just   *)
(* renewed it.                                                             *)
(*                                                                         *)
(* A scan that is stopped stays stopped because every call that could      *)
(* restore it belongs to a round that the stop invalidates; a record only  *)
(* advances because one thread at a time holds the copy to be written, the *)
(* newest one, and no copy is ahead of what the jobs have said.            *)
(***************************************************************************)
EXTENDS Operations, LibraryScan, FiniteSetTheorems, TLAPS

JobPlaces == {"none", "begins", "works", "finishes", "fails", "unstarted", "leaves", "gone"}
OpJobRecords == [at : JobPlaces, key : JobKeys \cup {NoOpJob.key}, stop : BOOLEAN]
TrackerRecords ==
  [open : BOOLEAN, tracked : SUBSET Ops, sweeper : {"none", "waits", "renews", "reaps"},
   stop : BOOLEAN]
OpRows ==
  [status : {"running", "success", "error", "interrupted"}, owner : Nat, old : BOOLEAN]
AtWork(o) == opJob[o].at \in {"begins", "works", "finishes"}

OpTyped == opJob \in [Ops -> OpJobRecords] /\ tracker \in TrackerRecords /\ serving \in Nat

\* The operation of a job at work runs, it is of the process that serves, which renews it.
ShownAndTracked ==
  \A o \in Ops : AtWork(o) =>
    /\ o \in Mine /\ registry[o] \in OpRows
    /\ o \in tracker.tracked

\* When the sweeper looks for stale operations it has just renewed those at work.
RenewedFirst ==
  \A o \in Ops : AtWork(o) /\ registry[o].old =>
    tracker.sweeper # "reaps" /\ (tracker.sweeper = "renews" => o \in batch)

\* Nothing is at work when the tracker is fenced, nor when no process serves.
NothingAtWork ==
  /\ ~tracker.open => \A o \in Ops : ~AtWork(o)
  /\ lifespan \in {"fenced", "joins"} => ~tracker.open
  /\ lifespan \in {"new", "down"} => \A o \in Ops : ~AtWork(o)

OperationsInv == OpTyped /\ ShownAndTracked /\ RenewedFirst /\ NothingAtWork

\* What a write keeps of an operation: what runs after the change is never pruned.
LEMMA SavedKeeps ==
  ASSUME NEW changed, Saved(changed), NEW o
  PROVE  /\ o \in DOMAIN changed /\ changed[o].status = "running" =>
              o \in DOMAIN registry' /\ registry'[o] = changed[o]
         /\ o \in RunningOps /\ o \notin DOMAIN changed =>
              o \in DOMAIN registry' /\ registry'[o] = registry[o]
<1> DEFINE written == [n \in DOMAIN registry \cup DOMAIN changed |->
                         IF n \in DOMAIN changed THEN changed[n] ELSE registry[n]]
<1>1. registry' = [n \in KeptEnded(changed) \cup {m \in DOMAIN written : written[m].status = "running"} |->
                     written[n]]
  BY DEF Saved
<1>2. \A n \in DOMAIN written : written[n].status = "running" => n \in DOMAIN registry' /\ registry'[n] = written[n]
  BY <1>1
<1> QED
  BY <1>2 DEF RunningOps

\* The two kinds of write.
LEMMA BecomeKeeps ==
  ASSUME NEW set, NEW status, Become(set, status), NEW o, o \in RunningOps, o \notin set
  PROVE  o \in DOMAIN registry' /\ registry'[o] = registry[o]
  BY SavedKeeps DEF Become

LEMMA RenewedKeeps ==
  ASSUME NEW set, HeartbeatsRenewed(set), NEW o, o \in RunningOps, registry[o] \in OpRows
  PROVE  /\ o \in DOMAIN registry' /\ registry'[o] \in OpRows
         /\ registry'[o].status = "running" /\ registry'[o].owner = registry[o].owner
         /\ registry'[o].old => registry[o].old /\ o \notin set
<1> DEFINE changed == [n \in set |-> [registry[n] EXCEPT !.old = FALSE]]
<1>1. Saved(changed)
  BY DEF HeartbeatsRenewed
<1>2. CASE o \in set
  <2>1. changed[o] = [registry[o] EXCEPT !.old = FALSE]
    BY <1>2
  <2>2. /\ changed[o] \in OpRows /\ changed[o].status = "running" /\ ~changed[o].old
        /\ changed[o].owner = registry[o].owner
    BY <2>1 DEF OpRows, RunningOps
  <2>3. o \in DOMAIN registry' /\ registry'[o] = changed[o]
    <3>1. o \in DOMAIN changed
      BY <1>2
    <3> HIDE DEF changed
    <3> QED
      BY <1>1, <2>2, <3>1, SavedKeeps
  <2> QED
    BY <2>2, <2>3, <1>2
<1>3. CASE o \notin set
  <2>1. o \notin DOMAIN changed
    BY <1>3
  <2> HIDE DEF changed
  <2>2. o \in DOMAIN registry' /\ registry'[o] = registry[o]
    BY <1>1, <2>1, SavedKeeps
  <2> QED
    BY <1>3, <2>2 DEF RunningOps
<1> QED
  BY <1>2, <1>3

LEMMA InitOperationsInv == OperationsInit => OperationsInv
<1> SUFFICES ASSUME OperationsInit PROVE OperationsInv
  OBVIOUS
<1>1. NoOpJob \in OpJobRecords /\ NoOpJob.at = "none"
  BY DEF NoOpJob, OpJobRecords, JobPlaces
<1>2. NewTracker \in TrackerRecords /\ NewTracker.open
  BY DEF NewTracker, TrackerRecords
<1>3. \A o \in Ops : ~AtWork(o)
  BY <1>1 DEF OperationsInit, AtWork
<1>4. OpTyped
  BY <1>1, <1>2 DEF OpTyped, OperationsInit
<1> QED
  BY <1>2, <1>3, <1>4 DEF OperationsInv, ShownAndTracked, RenewedFirst, NothingAtWork,
     OperationsInit

\* One job goes from one place to another.
LEMMA OneJobGoes ==
  ASSUME OpTyped, NEW o \in Ops, NEW at \in JobPlaces, opJob' = [opJob EXCEPT ![o].at = at]
  PROVE  /\ opJob' \in [Ops -> OpJobRecords] /\ opJob'[o].at = at
         /\ \A n \in Ops \ {o} : opJob'[n] = opJob[n]
  BY DEF OpTyped, OpJobRecords

\* The tracker lets operations go.
LEMMA UntrackedIs ==
  ASSUME OpTyped, NEW set, Untracked(set)
  PROVE  /\ tracker' \in TrackerRecords /\ tracker'.tracked = tracker.tracked \ set
         /\ tracker'.sweeper = tracker.sweeper /\ tracker'.open = tracker.open
  BY DEF Untracked, OpTyped, TrackerRecords

\* What a step must keep of the jobs that are at work after it.
LEMMA StaysShown ==
  ASSUME OperationsInv, OpTyped', serving' = serving, batch' = batch,
         tracker'.sweeper = tracker.sweeper, tracker'.open = tracker.open,
         lifespan' = lifespan,
         \A o \in Ops : AtWork(o)' =>
           /\ AtWork(o) /\ o \in tracker'.tracked /\ o \in DOMAIN registry'
           /\ registry'[o] \in OpRows /\ registry'[o].status = "running"
           /\ registry'[o].owner = registry[o].owner /\ (registry'[o].old => registry[o].old)
  PROVE  OperationsInv'
<1> USE DEF OperationsInv
<1>1. ShownAndTracked'
  BY DEF ShownAndTracked, Mine, RunningOps, IsOwn
<1>2. RenewedFirst'
  BY DEF RenewedFirst
<1>3. NothingAtWork'
  BY DEF NothingAtWork
<1> QED
  BY <1>1, <1>2, <1>3

\* A row that is not written keeps everything.
LEMMA RowsStay ==
  ASSUME OperationsInv, UNCHANGED rowVars
  PROVE  \A o \in Ops : AtWork(o) =>
           /\ o \in DOMAIN registry' /\ registry'[o] \in OpRows /\ registry'[o].status = "running"
           /\ registry'[o].owner = registry[o].owner /\ (registry'[o].old => registry[o].old)
  BY DEF OperationsInv, ShownAndTracked, Mine, RunningOps, rowVars

LEMMA RowsRenewed ==
  ASSUME OperationsInv, NEW set, HeartbeatsRenewed(set) \/ UNCHANGED rowVars
  PROVE  \A o \in Ops : AtWork(o) =>
           /\ o \in DOMAIN registry' /\ registry'[o] \in OpRows /\ registry'[o].status = "running"
           /\ registry'[o].owner = registry[o].owner /\ (registry'[o].old => registry[o].old)
<1> SUFFICES ASSUME NEW o \in Ops, AtWork(o), HeartbeatsRenewed(set)
             PROVE  /\ o \in DOMAIN registry' /\ registry'[o] \in OpRows
                    /\ registry'[o].status = "running" /\ registry'[o].owner = registry[o].owner
                    /\ (registry'[o].old => registry[o].old)
  BY RowsStay
<1>1. o \in RunningOps /\ registry[o] \in OpRows
  BY DEF OperationsInv, ShownAndTracked, Mine
<1> QED
  BY <1>1, RenewedKeeps

LEMMA RowsBecome ==
  ASSUME OperationsInv, NEW set, NEW status, Become(set, status) \/ UNCHANGED rowVars
  PROVE  \A o \in Ops : AtWork(o) /\ o \notin set =>
           /\ o \in DOMAIN registry' /\ registry'[o] \in OpRows /\ registry'[o].status = "running"
           /\ registry'[o].owner = registry[o].owner /\ (registry'[o].old => registry[o].old)
<1> SUFFICES ASSUME NEW o \in Ops, AtWork(o), o \notin set, Become(set, status)
             PROVE  /\ o \in DOMAIN registry' /\ registry'[o] \in OpRows
                    /\ registry'[o].status = "running" /\ registry'[o].owner = registry[o].owner
                    /\ (registry'[o].old => registry[o].old)
  BY RowsStay
<1>1. o \in RunningOps /\ registry[o] \in OpRows /\ registry[o].status = "running"
  BY DEF OperationsInv, ShownAndTracked, Mine, RunningOps
<1> QED
  BY <1>1, BecomeKeeps

LEMMA StartJobKeeps ==
  ASSUME OperationsInv, NEW k \in JobKeys, NEW o \in Ops, StartJob(k, o)
  PROVE  OperationsInv'
<1> USE DEF OperationsInv
<1> DEFINE row == [status |-> "running", owner |-> serving, old |-> FALSE]
           at == opJob'[o].at
<1>1. /\ UNCHANGED <<serving, lifespan, batch>> /\ tracker.open /\ lifespan \notin {"new", "down"}
      /\ Saved([n \in {o} |-> row])
      /\ Tracks(o)
      /\ \E place \in {"begins", "unstarted"} :
           opJob' = [opJob EXCEPT ![o] = [at |-> place, key |-> k, stop |-> FALSE]]
  BY DEF StartJob, MayStartJob, OpAdded, Enters, ProcessUp, processVars
<1>2. /\ tracker' \in TrackerRecords /\ tracker'.tracked = tracker.tracked \cup {o}
      /\ tracker'.open = tracker.open
      /\ tracker'.sweeper = IF tracker.sweeper = "none" THEN "waits" ELSE tracker.sweeper
  BY <1>1 DEF Tracks, OpTyped, TrackerRecords
<1>3. opJob' \in [Ops -> OpJobRecords] /\ \A n \in Ops \ {o} : opJob'[n] = opJob[n]
  BY <1>1 DEF OpTyped, OpJobRecords, JobPlaces
<1>4. OpTyped'
  BY <1>1, <1>2, <1>3 DEF OpTyped
<1>5. row \in OpRows /\ row.status = "running" /\ row.owner = serving /\ ~row.old
  BY DEF OpTyped, OpRows
<1> HIDE DEF row
<1>6. o \in DOMAIN registry' /\ registry'[o] = row
  <2> DEFINE changed == [n \in {o} |-> row]
  <2>1. o \in DOMAIN changed /\ changed[o] = row /\ Saved(changed)
    BY <1>1
  <2> HIDE DEF changed
  <2> QED
    BY <1>5, <2>1, SavedKeeps
<1>7. ASSUME NEW n \in Ops \ {o}, AtWork(n) PROVE n \in DOMAIN registry' /\ registry'[n] = registry[n]
  <2> DEFINE changed == [m \in {o} |-> row]
  <2>1. n \notin DOMAIN changed /\ Saved(changed) /\ n \in RunningOps
    BY <1>1, <1>7 DEF ShownAndTracked, Mine
  <2> HIDE DEF changed
  <2> QED
    BY <2>1, SavedKeeps
<1>8. \A n \in Ops \ {o} : AtWork(n)' <=> AtWork(n)
  BY <1>3 DEF AtWork
<1>9. ShownAndTracked'
  BY <1>1, <1>2, <1>5, <1>6, <1>7, <1>8 DEF ShownAndTracked, Mine, RunningOps, IsOwn
<1>10. RenewedFirst'
  BY <1>1, <1>2, <1>5, <1>6, <1>7, <1>8 DEF RenewedFirst
<1>11. NothingAtWork'
  BY <1>1, <1>2 DEF NothingAtWork
<1> QED
  BY <1>4, <1>9, <1>10, <1>11

LEMMA FailedStartKeeps ==
  ASSUME OperationsInv, NEW k \in JobKeys, NEW o \in Ops, StartRaises(k, o) \/ SweeperFails(k, o)
  PROVE  OperationsInv'
<1> USE DEF OperationsInv
<1>1. /\ UNCHANGED <<serving, lifespan, batch, tracker>> /\ o \notin Started
      /\ opJob' = [opJob EXCEPT ![o] = [at |-> "gone", key |-> k, stop |-> FALSE]]
      /\ \E row : Saved([n \in {o} |-> row]) \/ UNCHANGED rowVars
  BY DEF StartRaises, SweeperFails, MayStartJob, OpAdded, Enters, Raises, processVars
<1>2. /\ opJob' \in [Ops -> OpJobRecords] /\ opJob'[o].at = "gone"
      /\ \A n \in Ops \ {o} : opJob'[n] = opJob[n]
  BY <1>1 DEF OpTyped, OpJobRecords, JobPlaces
<1>3. OpTyped'
  BY <1>1, <1>2 DEF OpTyped
<1>4. ASSUME NEW n \in Ops, AtWork(n)' PROVE AtWork(n) /\ n # o
  BY <1>2, <1>4 DEF AtWork
<1>5. ASSUME NEW n \in Ops, AtWork(n), n # o
      PROVE  n \in DOMAIN registry' /\ registry'[n] = registry[n]
  <2>1. CASE UNCHANGED rowVars
    BY <1>5, <2>1 DEF rowVars, ShownAndTracked, Mine, RunningOps
  <2>2. ASSUME NEW row, Saved([m \in {o} |-> row])
        PROVE  n \in DOMAIN registry' /\ registry'[n] = registry[n]
    <3> DEFINE changed == [m \in {o} |-> row]
    <3>1. n \notin DOMAIN changed /\ Saved(changed) /\ n \in RunningOps
      BY <1>5, <2>2 DEF ShownAndTracked, Mine
    <3> HIDE DEF changed
    <3> QED
      BY <3>1, SavedKeeps
  <2> QED
    BY <1>1, <2>1, <2>2
<1>6. \A n \in Ops : AtWork(n) => n \in tracker.tracked /\ registry[n] \in OpRows /\ registry[n].status = "running"
  BY DEF ShownAndTracked, Mine, RunningOps
<1> QED
  BY <1>1, <1>3, <1>4, <1>5, <1>6, StaysShown

LEMMA JobStepKeeps ==
  ASSUME OperationsInv, NEW o \in Ops, JobStep(o)
  PROVE  OperationsInv'
<1> USE DEF OperationsInv
<1>0. \A n \in Ops : AtWork(n) => n \in tracker.tracked
  BY DEF ShownAndTracked
<1>1. CASE JobBegins(o)
  <2>1. /\ UNCHANGED <<serving, lifespan, tracker, batch>> /\ opJob[o].at = "begins"
        /\ JobGoes(o, "works") \/ JobGoes(o, "fails")
        /\ HeartbeatsRenewed({o} \cap Mine) \/ UNCHANGED rowVars
    BY <1>1 DEF JobBegins, Raises, processVars
  <2>2. PICK at \in {"works", "fails"} : opJob' = [opJob EXCEPT ![o].at = at]
    BY <2>1 DEF JobGoes
  <2>3. opJob' \in [Ops -> OpJobRecords] /\ \A n \in Ops : AtWork(n)' => AtWork(n)
    BY <2>1, <2>2, OneJobGoes DEF JobPlaces, AtWork
  <2>4. OpTyped'
    BY <2>1, <2>3 DEF OpTyped
  <2> QED
    BY <1>0, <2>1, <2>3, <2>4, RowsRenewed, StaysShown
<1>2. CASE JobUpdates(o)
  <2>1. /\ UNCHANGED <<serving, lifespan, tracker, batch, opJob>> /\ HeartbeatsRenewed({o})
    BY <1>2 DEF JobUpdates, processVars
  <2>2. OpTyped' /\ \A n \in Ops : AtWork(n)' => AtWork(n)
    BY <2>1 DEF OpTyped, AtWork
  <2> QED
    BY <1>0, <2>1, <2>2, RowsRenewed, StaysShown
<1>3. CASE JobReturns(o) \/ JobLeaves(o)
  <2>1. /\ UNCHANGED <<serving, lifespan, tracker, batch>> /\ UNCHANGED rowVars
        /\ opJob[o].at \in {"works", "leaves"}
        /\ \E at \in {"finishes", "fails", "gone"} :
             JobGoes(o, at) /\ (at = "finishes" => opJob[o].at = "works")
    BY <1>3 DEF JobReturns, JobLeaves, processVars
  <2>2. PICK at \in {"finishes", "fails", "gone"} :
          opJob' = [opJob EXCEPT ![o].at = at] /\ (at = "finishes" => opJob[o].at = "works")
    BY <2>1 DEF JobGoes
  <2>3. opJob' \in [Ops -> OpJobRecords] /\ \A n \in Ops : AtWork(n)' => AtWork(n)
    BY <2>1, <2>2, OneJobGoes DEF JobPlaces, AtWork
  <2>4. OpTyped'
    BY <2>1, <2>3 DEF OpTyped
  <2> QED
    BY <1>0, <2>1, <2>3, <2>4, RowsStay, StaysShown
<1>4. CASE JobFinishes(o) \/ JobFails(o)
  <2>1. /\ UNCHANGED <<serving, lifespan, batch>>
        /\ \E at \in {"leaves", "fails", "gone"} : JobGoes(o, at)
        /\ \E status : Become({o} \cap Mine, status) \/ UNCHANGED rowVars
        /\ Untracked({o}) \/ UNCHANGED tracker
    BY <1>4 DEF JobFinishes, JobFails, Completed, Raises, processVars
  <2>2. PICK at \in {"leaves", "fails", "gone"} : opJob' = [opJob EXCEPT ![o].at = at]
    BY <2>1 DEF JobGoes
  <2>3. opJob' \in [Ops -> OpJobRecords] /\ \A n \in Ops : AtWork(n)' => AtWork(n) /\ n # o
    BY <2>2, OneJobGoes DEF JobPlaces, AtWork
  <2>4. /\ tracker' \in TrackerRecords /\ tracker.tracked \ {o} \subseteq tracker'.tracked
        /\ tracker'.sweeper = tracker.sweeper /\ tracker'.open = tracker.open
    <3>1. tracker \in TrackerRecords
      BY DEF OpTyped
    <3> QED
      BY <2>1, <3>1, UntrackedIs
  <2>5. OpTyped'
    BY <2>1, <2>3, <2>4 DEF OpTyped
  <2>6. \A n \in Ops : AtWork(n) /\ n \notin {o} \cap Mine =>
           /\ n \in DOMAIN registry' /\ registry'[n] \in OpRows /\ registry'[n].status = "running"
           /\ registry'[n].owner = registry[n].owner /\ (registry'[n].old => registry[n].old)
    BY <2>1, RowsBecome
  <2> QED
    BY <1>0, <2>1, <2>3, <2>4, <2>5, <2>6, StaysShown
<1> QED
  BY <1>1, <1>2, <1>3, <1>4 DEF JobStep

LEMMA ClearKeeps == ASSUME OperationsInv, ClearCompleted PROVE OperationsInv'
<1> USE DEF OperationsInv
<1>1. /\ UNCHANGED <<serving, lifespan, tracker, batch, opJob>>
      /\ registry' = [o \in RunningOps |-> registry[o]]
  BY DEF ClearCompleted, processVars
<1>2. OpTyped' /\ \A n \in Ops : AtWork(n)' => AtWork(n)
  BY <1>1 DEF OpTyped, AtWork
<1>3. \A n \in Ops : AtWork(n) =>
        /\ n \in tracker.tracked /\ registry[n] \in OpRows /\ registry[n].status = "running"
        /\ n \in DOMAIN registry' /\ registry'[n] = registry[n]
  BY <1>1 DEF ShownAndTracked, Mine, RunningOps
<1> QED
  BY <1>1, <1>2, <1>3, StaysShown

\* Only a heartbeat that nobody renews gets old: not one of a job at work, while the sweeper lives.
LEMMA HeartbeatAgesKeeps ==
  ASSUME OperationsInv, NEW o \in Ops, HeartbeatAges(o)
  PROVE  OperationsInv'
<1> USE DEF OperationsInv
<1>1. /\ UNCHANGED <<serving, lifespan, tracker, batch, opJob>>
      /\ registry' = [registry EXCEPT ![o].old = TRUE] /\ o \in RunningOps
      /\ ~(IsOwn(o) /\ ProcessUp /\ SweeperAlive /\ o \in tracker.tracked)
  BY DEF HeartbeatAges, processVars
<1>2. OpTyped' /\ \A n \in Ops : AtWork(n)' <=> AtWork(n)
  BY <1>1 DEF OpTyped, AtWork
<1>3. ASSUME NEW n \in Ops, AtWork(n)
      PROVE  /\ n \in DOMAIN registry' /\ registry'[n] \in OpRows /\ registry'[n].status = "running"
             /\ registry'[n].owner = registry[n].owner
             /\ registry'[n].old => registry[n].old \/ tracker.sweeper = "none"
  <2>1. registry[n] \in OpRows /\ n \in DOMAIN registry /\ registry[n].status = "running"
    BY <1>3 DEF ShownAndTracked, Mine, RunningOps
  <2>2. CASE n # o
    BY <1>1, <2>1, <2>2
  <2>3. CASE n = o
    <3>1. registry'[n] = [registry[n] EXCEPT !.old = TRUE] /\ n \in DOMAIN registry'
      BY <1>1, <2>1, <2>3
    <3>2. tracker.sweeper = "none"
      BY <1>1, <1>3, <2>3 DEF ShownAndTracked, Mine, IsOwn, NothingAtWork, ProcessUp, SweeperAlive
    <3> QED
      BY <2>1, <3>1, <3>2 DEF OpRows
  <2> QED
    BY <2>2, <2>3
<1>4. ShownAndTracked'
  BY <1>1, <1>2, <1>3 DEF ShownAndTracked, Mine, RunningOps, IsOwn
<1>5. RenewedFirst'
  BY <1>1, <1>2, <1>3 DEF RenewedFirst
<1>6. NothingAtWork'
  BY <1>1, <1>2 DEF NothingAtWork
<1> QED
  BY <1>2, <1>4, <1>5, <1>6

LEMMA SweepTakesKeeps == ASSUME OperationsInv, SweepTakes PROVE OperationsInv'
<1> USE DEF OperationsInv
<1>1. /\ UNCHANGED <<serving, lifespan, opJob>> /\ UNCHANGED registry
      /\ batch' = tracker.tracked /\ tracker.sweeper = "waits"
      /\ tracker' = [tracker EXCEPT !.sweeper = "renews"]
  BY DEF SweepTakes, processVars, rowVars
<1>2. /\ tracker' \in TrackerRecords /\ tracker'.tracked = tracker.tracked
      /\ tracker'.sweeper = "renews" /\ tracker'.open = tracker.open
  BY <1>1 DEF OpTyped, TrackerRecords
<1>3. OpTyped' /\ \A n \in Ops : AtWork(n)' <=> AtWork(n)
  BY <1>1, <1>2 DEF OpTyped, AtWork
<1>4. ShownAndTracked'
  BY <1>1, <1>2, <1>3 DEF ShownAndTracked, Mine, RunningOps, IsOwn
<1>5. RenewedFirst'
  BY <1>1, <1>2, <1>3 DEF RenewedFirst, ShownAndTracked
<1>6. NothingAtWork'
  BY <1>1, <1>2, <1>3 DEF NothingAtWork
<1> QED
  BY <1>3, <1>4, <1>5, <1>6

LEMMA SweepRenewsKeeps == ASSUME OperationsInv, SweepRenews PROVE OperationsInv'
<1> USE DEF OperationsInv
<1>1. UNCHANGED <<serving, lifespan, opJob>> /\ tracker.sweeper = "renews"
  BY DEF SweepRenews, processVars
<1>2. \A n \in Ops : AtWork(n)' <=> AtWork(n)
  BY <1>1 DEF AtWork
<1>3. CASE /\ IF batch = {} THEN UNCHANGED rowVars ELSE HeartbeatsRenewed(batch \cap Mine)
           /\ tracker' = [tracker EXCEPT !.sweeper = "reaps", !.tracked = @ \ (batch \ Mine)]
  <2>1. /\ tracker' \in TrackerRecords /\ tracker'.tracked = tracker.tracked \ (batch \ Mine)
        /\ tracker'.sweeper = "reaps" /\ tracker'.open = tracker.open
    BY <1>3 DEF OpTyped, TrackerRecords
  <2>2. OpTyped'
    BY <1>1, <2>1 DEF OpTyped
  <2>3. ASSUME NEW n \in Ops, AtWork(n)
        PROVE  /\ n \in DOMAIN registry' /\ registry'[n] \in OpRows /\ registry'[n].status = "running"
               /\ registry'[n].owner = registry[n].owner /\ ~registry'[n].old
    <3>1. n \in Mine /\ n \in RunningOps /\ registry[n] \in OpRows
      BY <2>3 DEF ShownAndTracked, Mine
    <3>2. registry[n].old => n \in batch
      BY <1>1, <2>3 DEF RenewedFirst
    <3>3. CASE batch = {}
      <4>1. UNCHANGED rowVars /\ ~registry[n].old
        BY <1>3, <3>2, <3>3
      <4> QED
        BY <3>1, <4>1 DEF rowVars, RunningOps
    <3>4. CASE batch # {}
      <4>1. HeartbeatsRenewed(batch \cap Mine)
        BY <1>3, <3>4
      <4> DEFINE set == batch \cap Mine
      <4>2. HeartbeatsRenewed(set) /\ (registry[n].old => n \in set)
        BY <3>1, <3>2, <4>1
      <4> HIDE DEF set
      <4> QED
        BY <3>1, <4>2, RenewedKeeps
    <3> QED
      BY <3>3, <3>4
  <2>4. ShownAndTracked'
    BY <1>1, <1>2, <2>1, <2>3 DEF ShownAndTracked, Mine, RunningOps, IsOwn
  <2>5. RenewedFirst'
    BY <1>2, <2>3 DEF RenewedFirst
  <2>6. NothingAtWork'
    BY <1>1, <1>2, <2>1 DEF NothingAtWork
  <2> QED
    BY <2>2, <2>4, <2>5, <2>6
<1>4. CASE /\ \/ Raises(HeartbeatsRenewed(batch \cap Mine))
              \/ Saved([o \in tracker.tracked \cap Mine |-> [registry[o] EXCEPT !.old = TRUE]])
           /\ tracker' = [tracker EXCEPT !.sweeper = AfterFailedRenewal]
  <2>1. /\ tracker' \in TrackerRecords /\ tracker'.tracked = tracker.tracked
        /\ tracker'.sweeper = "waits" /\ tracker'.open = tracker.open
    BY <1>4 DEF OpTyped, TrackerRecords, AfterFailedRenewal
  <2>2. OpTyped'
    BY <1>1, <2>1 DEF OpTyped
  <2>3. ASSUME NEW n \in Ops, AtWork(n)
        PROVE  /\ n \in DOMAIN registry' /\ registry'[n] \in OpRows /\ registry'[n].status = "running"
               /\ registry'[n].owner = registry[n].owner
    <3>1. CASE Raises(HeartbeatsRenewed(batch \cap Mine))
      <4>1. HeartbeatsRenewed(batch \cap Mine) \/ UNCHANGED rowVars
        BY <3>1 DEF Raises
      <4> QED
        BY <2>3, <4>1, RowsRenewed
    <3>2. CASE Saved([o \in tracker.tracked \cap Mine |-> [registry[o] EXCEPT !.old = TRUE]])
      <4> DEFINE changed == [o \in tracker.tracked \cap Mine |-> [registry[o] EXCEPT !.old = TRUE]]
      <4>1. n \in DOMAIN changed /\ registry[n] \in OpRows /\ registry[n].status = "running"
        BY <2>3 DEF ShownAndTracked, Mine, RunningOps
      <4>2. /\ changed[n] \in OpRows /\ changed[n].status = "running"
            /\ changed[n].owner = registry[n].owner
        BY <4>1 DEF OpRows
      <4>3. Saved(changed)
        BY <3>2
      <4> HIDE DEF changed
      <4> QED
        BY <4>1, <4>2, <4>3, SavedKeeps
    <3> QED
      BY <1>4, <3>1, <3>2
  <2>4. ShownAndTracked'
    BY <1>1, <1>2, <2>1, <2>3 DEF ShownAndTracked, Mine, RunningOps, IsOwn
  <2>5. RenewedFirst'
    BY <2>1 DEF RenewedFirst
  <2>6. NothingAtWork'
    BY <1>1, <1>2, <2>1 DEF NothingAtWork
  <2> QED
    BY <2>2, <2>4, <2>5, <2>6
<1> QED
  BY <1>3, <1>4 DEF SweepRenews

LEMMA SweepReapsKeeps == ASSUME OperationsInv, SweepReaps PROVE OperationsInv'
<1> USE DEF OperationsInv
<1>1. /\ UNCHANGED <<serving, lifespan, opJob, batch>> /\ tracker.sweeper = "reaps"
      /\ Become(Stale, "interrupted") \/ UNCHANGED rowVars
      /\ \/ tracker' = [tracker EXCEPT !.sweeper = "waits", !.tracked = @ \ Stale]
         \/ tracker' = [tracker EXCEPT !.sweeper = "waits"]
  BY DEF SweepReaps, Raises, processVars
<1>2. /\ tracker' \in TrackerRecords /\ tracker.tracked \ Stale \subseteq tracker'.tracked
      /\ tracker'.sweeper = "waits" /\ tracker'.open = tracker.open
  <2> DEFINE set == Stale
  <2>1. tracker' = [tracker EXCEPT !.sweeper = "waits", !.tracked = @ \ set]
        \/ tracker' = [tracker EXCEPT !.sweeper = "waits"]
    BY <1>1
  <2> HIDE DEF set
  <2>2. /\ tracker' \in TrackerRecords /\ tracker.tracked \ set \subseteq tracker'.tracked
        /\ tracker'.sweeper = "waits" /\ tracker'.open = tracker.open
    BY <2>1 DEF OpTyped, TrackerRecords
  <2> QED
    BY <2>2 DEF set
<1>3. OpTyped' /\ \A n \in Ops : AtWork(n)' <=> AtWork(n)
  BY <1>1, <1>2 DEF OpTyped, AtWork
<1>4. \A n \in Ops : AtWork(n) => n \notin Stale /\ n \in tracker.tracked
  BY <1>1 DEF RenewedFirst, Stale, ShownAndTracked
<1>5. \A n \in Ops : AtWork(n) =>
        /\ n \in DOMAIN registry' /\ registry'[n] \in OpRows /\ registry'[n].status = "running"
        /\ registry'[n].owner = registry[n].owner
  BY <1>1, <1>4, RowsBecome
<1>6. ShownAndTracked'
  BY <1>1, <1>2, <1>3, <1>4, <1>5 DEF ShownAndTracked, Mine, RunningOps, IsOwn
<1>7. RenewedFirst'
  BY <1>2 DEF RenewedFirst
<1>8. NothingAtWork'
  BY <1>1, <1>2, <1>3 DEF NothingAtWork
<1> QED
  BY <1>3, <1>6, <1>7, <1>8

LEMMA SweeperEndsKeeps == ASSUME OperationsInv, SweeperEnds PROVE OperationsInv'
<1> USE DEF OperationsInv
<1>1. /\ UNCHANGED <<serving, lifespan, opJob, batch, registry>>
      /\ tracker' = [tracker EXCEPT !.sweeper = "none"]
  BY DEF SweeperEnds, processVars, rowVars
<1>2. /\ tracker' \in TrackerRecords /\ tracker'.tracked = tracker.tracked
      /\ tracker'.sweeper = "none" /\ tracker'.open = tracker.open
  BY <1>1 DEF OpTyped, TrackerRecords
<1>3. OpTyped' /\ \A n \in Ops : AtWork(n)' <=> AtWork(n)
  BY <1>1, <1>2 DEF OpTyped, AtWork
<1>4. ShownAndTracked'
  BY <1>1, <1>2, <1>3 DEF ShownAndTracked, Mine, RunningOps, IsOwn
<1>5. RenewedFirst'
  BY <1>2 DEF RenewedFirst
<1>6. NothingAtWork'
  BY <1>1, <1>2, <1>3 DEF NothingAtWork
<1> QED
  BY <1>3, <1>4, <1>5, <1>6

\* With nothing at work there is little left to keep.
LEMMA NothingToKeep ==
  ASSUME OpTyped', \A n \in Ops : ~AtWork(n)', lifespan' \in {"fenced", "joins"} => ~tracker'.open
  PROVE  OperationsInv'
  BY DEF OperationsInv, ShownAndTracked, RenewedFirst, NothingAtWork

LEMMA BootsOrExitsKeeps == ASSUME OperationsInv, Boots \/ Exits PROVE OperationsInv'
<1> USE DEF OperationsInv
<1>1. tracker' = NewTracker /\ lifespan' \notin {"fenced", "joins"} /\ serving' \in Nat
  BY DEF Boots, Exits, OpTyped
<1>2. NewTracker \in TrackerRecords
  BY DEF NewTracker, TrackerRecords
<1>3. opJob' \in [Ops -> OpJobRecords] /\ \A n \in Ops : ~AtWork(n)'
  <2>1. CASE Boots
    <3>1. opJob' = opJob /\ lifespan \in {"new", "down"}
      BY <2>1 DEF Boots
    <3> QED
      BY <3>1 DEF OpTyped, NothingAtWork, AtWork
  <2>2. CASE Exits
    <3>1. opJob' = [o \in Ops |-> IF opJob[o].at = "none" THEN opJob[o] ELSE [opJob[o] EXCEPT !.at = "gone"]]
      BY <2>2 DEF Exits
    <3> QED
      BY <3>1 DEF OpTyped, OpJobRecords, JobPlaces, AtWork
  <2> QED
    BY <2>1, <2>2
<1>4. OpTyped'
  BY <1>1, <1>2, <1>3 DEF OpTyped
<1> QED
  BY <1>1, <1>3, <1>4, NothingToKeep

\* The recovery interrupts what other processes have left, and what is at work is of this one.
LEMMA RecoversKeeps == ASSUME OperationsInv, Recovers PROVE OperationsInv'
<1> USE DEF OperationsInv
<1>1. /\ UNCHANGED <<serving, lifespan, tracker, batch, opJob>>
      /\ Become(Strangers, "interrupted") \/ UNCHANGED rowVars
  BY DEF Recovers, Raises
<1>2. OpTyped' /\ \A n \in Ops : AtWork(n)' => AtWork(n)
  BY <1>1 DEF OpTyped, AtWork
<1>3. \A n \in Ops : AtWork(n) => n \in tracker.tracked /\ n \notin Strangers
  BY DEF ShownAndTracked, Strangers
<1>4. \A n \in Ops : AtWork(n) /\ n \notin Strangers =>
        /\ n \in DOMAIN registry' /\ registry'[n] \in OpRows /\ registry'[n].status = "running"
        /\ registry'[n].owner = registry[n].owner /\ (registry'[n].old => registry[n].old)
  BY <1>1, RowsBecome
<1> QED
  BY <1>1, <1>2, <1>3, <1>4, StaysShown

\* The rows and the jobs stay as they are, and so does what is tracked while anything is at work.
LEMMA LifespanGoesOn ==
  ASSUME OperationsInv, UNCHANGED rowVars, UNCHANGED <<serving, batch>>,
         opJob' \in [Ops -> OpJobRecords], \A n \in Ops : AtWork(n)' <=> AtWork(n),
         tracker' \in TrackerRecords, tracker'.open \in {TRUE, tracker.open},
         tracker.open => tracker'.tracked = tracker.tracked,
         tracker'.sweeper = tracker.sweeper \/ tracker'.sweeper = "waits",
         lifespan' \notin {"fenced", "joins", "new", "down"}
  PROVE  OperationsInv'
<1> USE DEF OperationsInv
<1>1. OpTyped'
  BY DEF OpTyped
<1>2. registry' = registry
  BY DEF rowVars
<1>3. \A n \in Ops : AtWork(n) => tracker'.tracked = tracker.tracked
  BY DEF NothingAtWork
<1>4. ShownAndTracked'
  BY <1>2, <1>3 DEF ShownAndTracked, Mine, RunningOps, IsOwn
<1>5. RenewedFirst'
  BY <1>2 DEF RenewedFirst
<1>6. NothingAtWork'
  BY DEF NothingAtWork
<1> QED
  BY <1>1, <1>4, <1>5, <1>6

LEMMA LifespanKeeps ==
  ASSUME OperationsInv,
         LifespanOpens \/ Reopens \/ LifespanCloses \/ Fences \/ InterruptsMine \/ SweeperJoined
  PROVE  OperationsInv'
<1> USE DEF OperationsInv
<1>0. tracker \in TrackerRecords /\ opJob \in [Ops -> OpJobRecords]
  BY DEF OpTyped
<1>1. CASE LifespanOpens
  <2>1. /\ UNCHANGED rowVars /\ UNCHANGED <<serving, batch, opJob>> /\ lifespan' = "open"
    BY <1>1 DEF LifespanOpens
  <2>2. /\ tracker' \in TrackerRecords /\ tracker'.open \in {TRUE, tracker.open}
        /\ tracker.open => tracker'.tracked = tracker.tracked
        /\ tracker'.sweeper = tracker.sweeper \/ tracker'.sweeper = "waits"
    BY <1>0, <1>1 DEF LifespanOpens, TrackerRecords
  <2>3. opJob' \in [Ops -> OpJobRecords] /\ \A n \in Ops : AtWork(n)' <=> AtWork(n)
    BY <1>0, <2>1 DEF AtWork
  <2> QED
    BY <2>1, <2>2, <2>3, LifespanGoesOn
<1>2. CASE Reopens
  <2>1. /\ UNCHANGED rowVars /\ UNCHANGED <<serving, batch, opJob, tracker>> /\ lifespan' = "starts"
    BY <1>2 DEF Reopens
  <2>2. opJob' \in [Ops -> OpJobRecords] /\ \A n \in Ops : AtWork(n)' <=> AtWork(n)
    BY <1>0, <2>1 DEF AtWork
  <2> QED
    BY <1>0, <2>1, <2>2, LifespanGoesOn
<1>3. CASE LifespanCloses
  <2>1. /\ UNCHANGED rowVars /\ UNCHANGED <<serving, batch, tracker>> /\ lifespan' = "closing"
        /\ opJob' = [o \in Ops |-> IF ThreadAlive(o) THEN [opJob[o] EXCEPT !.stop = TRUE] ELSE opJob[o]]
    BY <1>3 DEF LifespanCloses
  <2>2. opJob' \in [Ops -> OpJobRecords] /\ \A n \in Ops : opJob'[n].at = opJob[n].at
    BY <1>0, <2>1 DEF OpJobRecords
  <2>3. \A n \in Ops : AtWork(n)' <=> AtWork(n)
    BY <2>2 DEF AtWork
  <2> QED
    BY <1>0, <2>1, <2>2, <2>3, LifespanGoesOn
<1>4. CASE Fences
  <2>1. UNCHANGED rowVars /\ UNCHANGED <<serving, batch, opJob>>
    BY <1>4 DEF Fences
  <2>2. opJob' \in [Ops -> OpJobRecords] /\ \A n \in Ops : AtWork(n)' <=> AtWork(n)
    BY <1>0, <2>1 DEF AtWork
  <2>3. CASE JobsDrained /\ lifespan' = "fenced" /\ tracker' = [tracker EXCEPT !.open = FALSE, !.stop = TRUE]
    <3>1. \A n \in Ops : ~AtWork(n)
      BY <2>3 DEF JobsDrained, ThreadAlive, AtWork
    <3>2. tracker' \in TrackerRecords /\ ~tracker'.open
      BY <1>0, <2>3 DEF TrackerRecords
    <3>3. OpTyped'
      BY <2>1, <2>2, <3>2 DEF OpTyped
    <3> QED
      BY <2>2, <3>1, <3>2, <3>3, NothingToKeep
  <2>4. CASE lifespan' = "closed" /\ UNCHANGED tracker
    BY <1>0, <2>1, <2>2, <2>4, LifespanGoesOn
  <2> QED
    BY <1>4, <2>3, <2>4 DEF Fences
<1>5. CASE InterruptsMine \/ SweeperJoined
  <2>1. UNCHANGED <<serving, opJob>> /\ lifespan \in {"fenced", "joins"}
    BY <1>5 DEF InterruptsMine, SweeperJoined
  <2>2. ~tracker.open /\ \A n \in Ops : ~AtWork(n)
    BY <2>1 DEF NothingAtWork
  <2>3. \A n \in Ops : ~AtWork(n)'
    BY <2>1, <2>2 DEF AtWork
  <2>4. tracker' \in TrackerRecords /\ ~tracker'.open
    <3>1. \/ Untracked(Mine) \/ UNCHANGED tracker
          \/ tracker' = [tracker EXCEPT !.tracked = {}]
      BY <1>5 DEF InterruptsMine, SweeperJoined
    <3>2. CASE tracker' = [tracker EXCEPT !.tracked = {}]
      BY <1>0, <2>2, <3>2 DEF TrackerRecords
    <3> QED
      BY <1>0, <2>2, <3>1, <3>2, UntrackedIs
  <2>5. OpTyped'
    BY <2>1, <2>4 DEF OpTyped
  <2> QED
    BY <2>3, <2>4, <2>5, NothingToKeep
<1> QED
  BY <1>1, <1>2, <1>3, <1>4, <1>5

LEMMA NextOperationsInv == OperationsInv /\ [OperationsNext]_opVars => OperationsInv'
<1> SUFFICES ASSUME OperationsInv, [OperationsNext]_opVars PROVE OperationsInv'
  OBVIOUS
<1>1. CASE \E k \in JobKeys, o \in Ops : StartJob(k, o) \/ StartRaises(k, o) \/ SweeperFails(k, o)
  BY <1>1, StartJobKeeps, FailedStartKeeps
<1>2. CASE \E o \in Ops : JobStep(o) \/ HeartbeatAges(o)
  BY <1>2, JobStepKeeps, HeartbeatAgesKeeps
<1>3. CASE SweeperStep
  BY <1>3, SweepTakesKeeps, SweepRenewsKeeps, SweepReapsKeeps, SweeperEndsKeeps DEF SweeperStep
<1>4. CASE LifeStep \/ LifespanCloses \/ Exits
  BY <1>4, BootsOrExitsKeeps, RecoversKeeps, LifespanKeeps DEF LifeStep
<1>5. CASE ClearCompleted
  BY <1>5, ClearKeeps
<1>6. CASE UNCHANGED opVars
  <2>1. UNCHANGED <<serving, lifespan, tracker, batch, opJob, registry>>
    BY <1>6 DEF opVars, processVars, rowVars
  <2> QED
    BY <2>1 DEF OperationsInv, OpTyped, ShownAndTracked, RenewedFirst, NothingAtWork, AtWork,
      Mine, RunningOps, IsOwn
<1> QED
  BY <1>1, <1>2, <1>3, <1>4, <1>5, <1>6 DEF OperationsNext

LEMMA OperationsAlways == OperationsSpec => []OperationsInv
  BY InitOperationsInv, NextOperationsInv, PTL DEF OperationsSpec

\* What the operations centre shows of a job at work is that its operation runs: the recovery at
\* startup, the sweeper and the shutdown never end it, through every raised write and outage.
THEOREM LiveWorkAlwaysShown == OperationsSpec => []LiveWorkIsShown
<1>1. OperationsInv => LiveWorkIsShown
  BY DEF OperationsInv, ShownAndTracked, LiveWorkIsShown, AtWork, OpRuns, Mine, RunningOps
<1> QED
  BY <1>1, OperationsAlways, PTL

-----------------------------------------------------------------------------
(* The types: the rows, and what is kept of the ended ones *)

\* A set that lacks a member of another one has fewer members.
LEMMA FewerMembers ==
  ASSUME NEW B, IsFiniteSet(B), NEW A \in SUBSET B, NEW x \in B \ A
  PROVE  Cardinality(A) \in Nat /\ Cardinality(B) \in Nat /\ Cardinality(A) < Cardinality(B)
<1>1. Cardinality(A) <= Cardinality(B) /\ (Cardinality(B) = Cardinality(A) => A = B) /\ IsFiniteSet(A)
  BY FS_Subset
<1>2. Cardinality(A) \in Nat /\ Cardinality(B) \in Nat
  BY <1>1, FS_CardinalityType
<1> QED
  BY <1>1, <1>2

LEMMA OpsFinite == \A S \in SUBSET Ops : IsFiniteSet(S) /\ Cardinality(S) \in Nat
<1>1. IsFiniteSet(Ops)
  BY OperationBounds, FS_Interval DEF Ops
<1>2. \A S \in SUBSET Ops : IsFiniteSet(S)
  BY <1>1, FS_Subset
<1> QED
  BY <1>2, FS_CardinalityType

\* What ends now comes before what ended earlier, and everything has a place of its own.
LEMMA PlacesDiffer ==
  ASSUME RowsTypeOK, NEW changed, DOMAIN changed \subseteq Ops
  PROVE  LET all == NewlyEnded(changed) \cup EndedBefore(changed)
         IN  /\ \A o \in all : Place(changed, o) \in Nat \ {0}
             /\ \A o, n \in all : Place(changed, o) = Place(changed, n) => o = n
<1> DEFINE N == NewlyEnded(changed)
           B == EndedBefore(changed)
           upto(o) == {n \in N : n <= o}
           until(o) == {n \in B : ended[n] <= ended[o]}
<1>1. N \subseteq Ops /\ B \subseteq Ops /\ N \cap B = {} /\ B \subseteq DOMAIN ended
  BY DEF RowsTypeOK, NewlyEnded, EndedBefore
<1>2. \A o \in N : Place(changed, o) = Cardinality(upto(o))
  BY DEF Place
<1>3. \A o \in B : Place(changed, o) = Cardinality(N) + Cardinality(until(o))
  BY <1>1 DEF Place
<1>4. \A o \in B : ended[o] \in Nat
  BY <1>1, OperationBounds DEF RowsTypeOK
<1> HIDE DEF N, B
<1>5. \A o \in N : /\ upto(o) \in SUBSET N /\ o \in upto(o)
                   /\ Cardinality(upto(o)) \in Nat /\ 0 < Cardinality(upto(o))
                   /\ Cardinality(upto(o)) <= Cardinality(N)
  <2> SUFFICES ASSUME NEW o \in N
               PROVE  /\ upto(o) \in SUBSET N /\ o \in upto(o)
                      /\ Cardinality(upto(o)) \in Nat /\ 0 < Cardinality(upto(o))
                      /\ Cardinality(upto(o)) <= Cardinality(N)
    OBVIOUS
  <2>1. upto(o) \in SUBSET N /\ o \in upto(o) /\ {} \in SUBSET upto(o)
    BY <1>1 DEF Ops
  <2> HIDE DEF upto
  <2>2. IsFiniteSet(N) /\ IsFiniteSet(upto(o))
    BY <1>1, <2>1, OpsFinite
  <2>3. 0 < Cardinality(upto(o)) /\ Cardinality(upto(o)) \in Nat
    BY <2>1, <2>2, FewerMembers, FS_EmptySet
  <2> QED
    BY <2>1, <2>2, <2>3, FS_Subset
<1>6. \A o \in B : /\ o \in until(o) /\ until(o) \in SUBSET B
                   /\ Cardinality(until(o)) \in Nat /\ 0 < Cardinality(until(o))
  <2> SUFFICES ASSUME NEW o \in B
               PROVE  /\ o \in until(o) /\ until(o) \in SUBSET B
                      /\ Cardinality(until(o)) \in Nat /\ 0 < Cardinality(until(o))
    OBVIOUS
  <2>1. until(o) \in SUBSET B /\ o \in until(o) /\ {} \in SUBSET until(o)
    BY <1>4
  <2> HIDE DEF until
  <2>2. IsFiniteSet(until(o))
    BY <1>1, <2>1, OpsFinite
  <2> QED
    BY <2>1, <2>2, FewerMembers, FS_EmptySet
<1>7. Cardinality(N) \in Nat
  BY <1>1, OpsFinite
<1>8. ASSUME NEW o \in N, NEW n \in N, o < n PROVE Cardinality(upto(o)) < Cardinality(upto(n))
  <2>1. upto(o) \in SUBSET upto(n) /\ n \in upto(n) \ upto(o)
    <3>1. N \subseteq Int
      BY <1>1, OperationBounds DEF Ops
    <3>2. \A m \in N : m <= o => m <= n
      BY <1>8, <3>1
    <3>3. ~(n <= o) /\ n <= n
      BY <1>8, <3>1
    <3> QED
      BY <3>2, <3>3
  <2>2. IsFiniteSet(upto(n))
    BY <1>1, OpsFinite
  <2> HIDE DEF upto
  <2> QED
    BY <2>1, <2>2, FewerMembers
<1>9. ASSUME NEW o \in B, NEW n \in B, ended[o] < ended[n]
      PROVE  Cardinality(until(o)) < Cardinality(until(n))
  <2>1. until(o) \in SUBSET until(n) /\ n \in until(n) \ until(o)
    BY <1>4, <1>9
  <2>2. IsFiniteSet(until(n))
    BY <1>1, OpsFinite
  <2> HIDE DEF until
  <2> QED
    BY <2>1, <2>2, FewerMembers
<1> HIDE DEF upto, until
<1>10. \A o \in N \cup B : Place(changed, o) \in Nat \ {0}
  BY <1>2, <1>3, <1>5, <1>6, <1>7
<1>11. \A o, n \in N : Place(changed, o) = Place(changed, n) => o = n
  <2> SUFFICES ASSUME NEW o \in N, NEW n \in N, o # n PROVE Place(changed, o) # Place(changed, n)
    OBVIOUS
  <2>1. o < n \/ n < o
    BY <1>1 DEF Ops
  <2> QED
    BY <1>2, <1>5, <1>8, <2>1
<1>12. \A o, n \in B : Place(changed, o) = Place(changed, n) => o = n
  <2> SUFFICES ASSUME NEW o \in B, NEW n \in B, o # n PROVE Place(changed, o) # Place(changed, n)
    OBVIOUS
  <2>1. ended[o] < ended[n] \/ ended[n] < ended[o]
    BY <1>1, <1>4 DEF RowsTypeOK
  <2> QED
    BY <1>3, <1>6, <1>7, <1>9, <2>1
<1>13. \A o \in N, n \in B : Place(changed, o) # Place(changed, n)
  BY <1>2, <1>3, <1>5, <1>6, <1>7
<1> QED
  BY <1>10, <1>11, <1>12, <1>13 DEF N, B

\* A write leaves as many ended operations as it may keep, each in a place of its own.
LEMMA SavedTyped ==
  ASSUME RowsTypeOK, NEW changed, Saved(changed), DOMAIN changed \subseteq Ops,
         \A o \in DOMAIN changed : changed[o] \in OpRecords
  PROVE  RowsTypeOK'
<1> DEFINE written == [o \in DOMAIN registry \cup DOMAIN changed |->
                         IF o \in DOMAIN changed THEN changed[o] ELSE registry[o]]
           runs == {n \in DOMAIN written : written[n].status = "running"}
<1>1. /\ ended' = [o \in KeptEnded(changed) |-> Place(changed, o)]
      /\ registry' = [o \in KeptEnded(changed) \cup runs |-> written[o]]
  BY DEF Saved
<1>2. DOMAIN registry \subseteq Ops /\ DOMAIN ended = DOMAIN registry \ RunningOps
  BY DEF RowsTypeOK
<1>3. \A o \in KeptEnded(changed) : o \in DOMAIN written /\ written[o].status # "running"
  BY <1>2 DEF KeptEnded, NewlyEnded, EndedBefore, RunningOps
<1>4. \A o \in DOMAIN written : o \in Ops /\ written[o] \in OpRecords
  BY <1>2 DEF RowsTypeOK
<1> HIDE DEF written
<1>5. DOMAIN registry' = KeptEnded(changed) \cup runs /\ DOMAIN registry' \subseteq Ops
  BY <1>1, <1>3, <1>4
<1>6. \A o \in DOMAIN registry' : registry'[o] = written[o] /\ o \in DOMAIN written
  BY <1>1, <1>3
<1>7. DOMAIN registry' \ RunningOps' = KeptEnded(changed)
  BY <1>3, <1>5, <1>6 DEF RunningOps
<1>8. \A o \in KeptEnded(changed) : ended'[o] = Place(changed, o) /\ Place(changed, o) \in 1..MaxRecent
  <2>1. \A o \in KeptEnded(changed) : /\ o \in NewlyEnded(changed) \cup EndedBefore(changed)
                                   /\ Place(changed, o) <= MaxRecent
    BY DEF KeptEnded
  <2> QED
    BY <1>1, <2>1, PlacesDiffer, OperationBounds
<1>9. ended' \in [DOMAIN registry' \ RunningOps' -> 1..MaxRecent]
  BY <1>1, <1>7, <1>8
<1>10. \A o, n \in DOMAIN ended' : ended'[o] = ended'[n] => o = n
  BY <1>1, <1>8, PlacesDiffer DEF KeptEnded
<1> QED
  BY <1>4, <1>5, <1>6, <1>9, <1>10 DEF RowsTypeOK

\* The two kinds of write, and one that raises.
LEMMA BecomeTyped ==
  ASSUME RowsTypeOK, NEW set \in SUBSET DOMAIN registry,
         NEW status \in {"success", "error", "interrupted"},
         Become(set, status) \/ UNCHANGED rowVars
  PROVE  RowsTypeOK'
<1>1. CASE Become(set, status)
  <2> DEFINE changed == [o \in set |-> [registry[o] EXCEPT !.status = status]]
  <2>1. Saved(changed)
    BY <1>1 DEF Become
  <2>2. DOMAIN changed \subseteq Ops /\ \A o \in DOMAIN changed : changed[o] \in OpRecords
    BY DEF RowsTypeOK, OpRecords
  <2> HIDE DEF changed
  <2> QED
    BY <2>1, <2>2, SavedTyped
<1>2. CASE UNCHANGED rowVars
  BY <1>2 DEF RowsTypeOK, rowVars, RunningOps
<1> QED
  BY <1>1, <1>2

LEMMA RenewedTyped ==
  ASSUME RowsTypeOK, NEW set \in SUBSET DOMAIN registry, NEW old \in BOOLEAN,
         Saved([o \in set |-> [registry[o] EXCEPT !.old = old]]) \/ UNCHANGED rowVars
  PROVE  RowsTypeOK'
<1>1. CASE Saved([o \in set |-> [registry[o] EXCEPT !.old = old]])
  <2> DEFINE changed == [o \in set |-> [registry[o] EXCEPT !.old = old]]
  <2>1. Saved(changed)
    BY <1>1
  <2>2. DOMAIN changed \subseteq Ops /\ \A o \in DOMAIN changed : changed[o] \in OpRecords
    BY DEF RowsTypeOK, OpRecords
  <2> HIDE DEF changed
  <2> QED
    BY <2>1, <2>2, SavedTyped
<1>2. CASE UNCHANGED rowVars
  BY <1>2 DEF RowsTypeOK, rowVars, RunningOps
<1> QED
  BY <1>1, <1>2

LEMMA AddedTyped ==
  ASSUME RowsTypeOK, NEW o \in Ops, NEW row \in OpRecords, Saved([n \in {o} |-> row]) \/ UNCHANGED rowVars
  PROVE  RowsTypeOK'
<1>1. CASE Saved([n \in {o} |-> row])
  <2> DEFINE changed == [n \in {o} |-> row]
  <2>1. Saved(changed) /\ DOMAIN changed \subseteq Ops /\ \A n \in DOMAIN changed : changed[n] \in OpRecords
    BY <1>1
  <2> HIDE DEF changed
  <2> QED
    BY <2>1, SavedTyped
<1>2. CASE UNCHANGED rowVars
  BY <1>2 DEF RowsTypeOK, rowVars, RunningOps
<1> QED
  BY <1>1, <1>2

LEMMA FaultCounted == ASSUME OperationsTypeOK, NEW event, OpFault(event) PROVE opFaults' \in 0..MaxOpFaults
  BY OperationBounds DEF OpFault, OperationsTypeOK

LEMMA RowSets == Mine \subseteq RunningOps /\ Strangers \subseteq RunningOps /\ Stale \subseteq RunningOps
                 /\ RunningOps \subseteq DOMAIN registry
  BY DEF Mine, Strangers, Stale, RunningOps

\* A process that has begun has a number.
OperationsTyped == OperationsTypeOK /\ (lifespan # "new" => serving # 0)

LEMMA InitOperationsTyped == OperationsInit => OperationsTyped
<1> SUFFICES ASSUME OperationsInit PROVE OperationsTyped
  OBVIOUS
<1>1. NoOpJob \in [at : {"none", "begins", "works", "finishes", "fails", "unstarted", "leaves", "gone"},
                   key : JobKeys, stop : BOOLEAN]
  <2>1. NoOpJob.key \in JobKeys
    BY OperationBounds DEF NoOpJob
  <2> QED
    BY <2>1 DEF NoOpJob
<1>2. DOMAIN registry = {} /\ RunningOps = {} /\ DOMAIN ended = {}
  BY DEF OperationsInit, RunningOps
<1>3. RowsTypeOK
  <2>1. ended \in [{} -> 1..MaxRecent]
    BY DEF OperationsInit
  <2> QED
    BY <1>2, <2>1 DEF RowsTypeOK
<1> QED
  BY <1>1, <1>3, OperationBounds DEF OperationsInit, OperationsTyped, OperationsTypeOK, NewTracker

LEMMA TracksTyped ==
  ASSUME tracker \in TrackerRecords, NEW o \in Ops, Tracks(o)
  PROVE  tracker' \in TrackerRecords
<1>1. /\ tracker.tracked \cup {o} \in SUBSET Ops
      /\ (IF tracker.sweeper = "none" THEN "waits" ELSE tracker.sweeper) \in {"none", "waits", "renews", "reaps"}
  BY DEF TrackerRecords
<1> QED
  BY <1>1 DEF Tracks, TrackerRecords

LEMMA StartTyped ==
  ASSUME OperationsTyped, NEW k \in JobKeys, NEW o \in Ops,
         StartJob(k, o) \/ StartRaises(k, o) \/ SweeperFails(k, o)
  PROVE  OperationsTyped'
<1> USE DEF OperationsTyped, OperationsTypeOK
<1>1. serving \in 1..MaxOwners
  BY OperationBounds DEF StartJob, StartRaises, SweeperFails, MayStartJob, ProcessUp
<1>2. RowsTypeOK'
  <2>1. PICK status \in {"running", "error"} :
          Saved([n \in {o} |-> [status |-> status, owner |-> serving, old |-> FALSE]]) \/ UNCHANGED rowVars
    BY DEF StartJob, StartRaises, SweeperFails, OpAdded, Raises
  <2> DEFINE row == [status |-> status, owner |-> serving, old |-> FALSE]
  <2>2. row \in OpRecords /\ (Saved([n \in {o} |-> row]) \/ UNCHANGED rowVars)
    BY <1>1, <2>1 DEF OpRecords
  <2> HIDE DEF row
  <2> QED
    BY <2>2, AddedTyped
<1>3. PICK place \in {"begins", "unstarted", "gone"} : Enters(o, k, place)
  BY DEF StartJob, StartRaises, SweeperFails
<1>4. opJob' \in [Ops -> [at : {"none", "begins", "works", "finishes", "fails", "unstarted", "leaves", "gone"},
                      key : JobKeys, stop : BOOLEAN]]
  BY <1>3 DEF Enters
<1>5. Tracks(o) \/ UNCHANGED tracker
  BY DEF StartJob, StartRaises, SweeperFails
<1>6. tracker' \in [open : BOOLEAN, tracked : SUBSET Ops, sweeper : {"none", "waits", "renews", "reaps"},
                  stop : BOOLEAN]
  <2> HIDE DEF OperationsTyped, OperationsTypeOK
  <2>1. tracker \in TrackerRecords
    BY DEF OperationsTyped, OperationsTypeOK, TrackerRecords
  <2>2. ASSUME Tracks(o) PROVE tracker' \in TrackerRecords
    BY <2>1, <2>2, TracksTyped
  <2>3. tracker' \in TrackerRecords
    BY <1>5, <2>1, <2>2
  <2> QED
    BY <2>3 DEF TrackerRecords
<1>7. UNCHANGED opFaults \/ \E event \in {"dbError", "threadFails"} : OpFault(event)
  BY DEF StartJob, StartRaises, SweeperFails, Raises
<1>8. opFaults' \in 0..MaxOpFaults
  BY <1>7, FaultCounted
<1>9. UNCHANGED <<processVars, jobsOpen, batch>>
  BY DEF StartJob, StartRaises, SweeperFails
<1> QED
  BY <1>2, <1>4, <1>6, <1>8, <1>9 DEF processVars

\* A job goes on with its row written, its place changed and its operation let go.
LEMMA JobStepTyped ==
  ASSUME OperationsTyped, NEW o \in Ops, JobStep(o) \/ HeartbeatAges(o)
  PROVE  OperationsTyped'
<1> USE DEF OperationsTyped, OperationsTypeOK
<1> DEFINE places == {"works", "finishes", "fails", "leaves", "gone"}
           mine == {o} \cap Mine
<1>0. mine \in SUBSET DOMAIN registry
  BY RowSets
<1>1. \/ UNCHANGED rowVars
      \/ HeartbeatsRenewed(mine) \/ (HeartbeatsRenewed({o}) /\ o \in Mine)
      \/ Become(mine, "success") \/ Become(mine, "error")
      \/ HeartbeatAges(o)
  BY DEF JobStep, JobBegins, JobUpdates, JobReturns, JobFinishes, JobFails, JobLeaves, Raises,
     Completed
<1>2. (\E place \in places : JobGoes(o, place)) \/ UNCHANGED opJob
  BY DEF JobStep, JobBegins, JobUpdates, JobReturns, JobFinishes, JobFails, JobLeaves, HeartbeatAges
<1>3. Untracked({o}) \/ UNCHANGED tracker
  BY DEF JobStep, JobBegins, JobUpdates, JobReturns, JobFinishes, JobFails, JobLeaves, HeartbeatAges
<1>4. OpFault("dbError") \/ UNCHANGED opFaults
  BY DEF JobStep, JobBegins, JobUpdates, JobReturns, JobFinishes, JobFails, JobLeaves,
     HeartbeatAges, Raises
<1>5. UNCHANGED <<processVars, jobsOpen, batch>>
  BY DEF JobStep, JobBegins, JobUpdates, JobReturns, JobFinishes, JobFails, JobLeaves, HeartbeatAges
<1>6. RowsTypeOK'
  <2>1. CASE HeartbeatAges(o)
    <3>1. registry' = [registry EXCEPT ![o].old = TRUE] /\ ended' = ended /\ o \in RunningOps
      BY <2>1 DEF HeartbeatAges
    <3>2. DOMAIN registry' = DOMAIN registry /\ \A n \in DOMAIN registry : registry'[n].status = registry[n].status
      BY <3>1 DEF RowsTypeOK, OpRecords
    <3>3. \A n \in DOMAIN registry' : registry'[n] \in OpRecords
      BY <3>1 DEF RowsTypeOK, OpRecords
    <3>4. RunningOps' = RunningOps
      BY <3>2 DEF RunningOps
    <3> QED
      BY <3>1, <3>2, <3>3, <3>4 DEF RowsTypeOK
  <2>2. CASE Become(mine, "success") \/ Become(mine, "error")
    BY <1>0, <2>2, BecomeTyped
  <2>3. CASE HeartbeatsRenewed(mine) \/ UNCHANGED rowVars
    <3> HIDE DEF mine
    <3> QED
      BY <1>0, <2>3, RenewedTyped DEF HeartbeatsRenewed
  <2>4. CASE HeartbeatsRenewed({o}) /\ o \in Mine
    <3> DEFINE set == {o}
    <3>1. set \in SUBSET DOMAIN registry /\ HeartbeatsRenewed(set)
      BY <2>4, RowSets
    <3> HIDE DEF set
    <3> QED
      BY <3>1, RenewedTyped DEF HeartbeatsRenewed
  <2> QED
    BY <1>1, <2>1, <2>2, <2>3, <2>4
<1>7. opJob' \in [Ops -> [at : {"none", "begins", "works", "finishes", "fails", "unstarted", "leaves", "gone"},
                      key : JobKeys, stop : BOOLEAN]]
  BY <1>2 DEF JobGoes
<1>8. tracker' \in [open : BOOLEAN, tracked : SUBSET Ops, sweeper : {"none", "waits", "renews", "reaps"},
                  stop : BOOLEAN]
  BY <1>3 DEF Untracked
<1>9. opFaults' \in 0..MaxOpFaults
  BY <1>4, FaultCounted
<1> QED
  BY <1>5, <1>6, <1>7, <1>8, <1>9 DEF processVars

LEMMA SweeperTyped == ASSUME OperationsTyped, SweeperStep PROVE OperationsTyped'
<1> USE DEF OperationsTyped, OperationsTypeOK
<1>1. UNCHANGED <<processVars, jobsOpen, opJob>> /\ batch' \subseteq Ops
  BY DEF SweeperStep, SweepTakes, SweepRenews, SweepReaps, SweeperEnds
<1>2. OpFault("dbError") \/ OpFault("outage") \/ UNCHANGED opFaults
  BY DEF SweeperStep, SweepTakes, SweepRenews, SweepReaps, SweeperEnds, Raises
<1>3. opFaults' \in 0..MaxOpFaults
  BY <1>2, FaultCounted
<1>4. RowsTypeOK'
  <2> DEFINE renewed == batch \cap Mine
             lost == tracker.tracked \cap Mine
             stale == Stale
  <2>1. /\ renewed \in SUBSET DOMAIN registry /\ lost \in SUBSET DOMAIN registry
        /\ stale \in SUBSET DOMAIN registry
    BY RowSets
  <2>2. \/ UNCHANGED rowVars
        \/ HeartbeatsRenewed(renewed)
        \/ Saved([o \in lost |-> [registry[o] EXCEPT !.old = TRUE]])
        \/ Become(stale, "interrupted")
    BY DEF SweeperStep, SweepTakes, SweepRenews, SweepReaps, SweeperEnds, Raises
  <2> HIDE DEF renewed, lost, stale
  <2> QED
    BY <2>1, <2>2, BecomeTyped, RenewedTyped DEF HeartbeatsRenewed
<1>5. tracker' \in TrackerRecords
  <2> HIDE DEF OperationsTyped, OperationsTypeOK
  <2>1. tracker \in TrackerRecords
    BY DEF OperationsTyped, OperationsTypeOK, TrackerRecords
  <2>2. PICK sweeper \in {"none", "waits", "renews", "reaps"}, gone \in SUBSET Ops :
          tracker' = [tracker EXCEPT !.sweeper = sweeper, !.tracked = @ \ gone]
    <3>1. ASSUME NEW sweeper \in {"none", "waits", "renews", "reaps"},
                 tracker' = [tracker EXCEPT !.sweeper = sweeper]
          PROVE  tracker' = [tracker EXCEPT !.sweeper = sweeper, !.tracked = @ \ {}]
      BY <2>1, <3>1 DEF TrackerRecords
    <3>2. CASE \E sweeper \in {"none", "waits", "renews", "reaps"} : tracker' = [tracker EXCEPT !.sweeper = sweeper]
      BY <3>1, <3>2
    <3>3. CASE tracker' = [tracker EXCEPT !.sweeper = "reaps", !.tracked = @ \ (batch \ Mine)]
      <4>1. batch \ Mine \in SUBSET Ops
        BY DEF OperationsTyped, OperationsTypeOK
      <4> QED
        BY <3>3, <4>1
    <3>4. CASE tracker' = [tracker EXCEPT !.sweeper = "waits", !.tracked = @ \ Stale]
      <4>1. Stale \in SUBSET Ops
        BY RowSets DEF OperationsTyped, OperationsTypeOK, RowsTypeOK
      <4> QED
        BY <3>4, <4>1
    <3> QED
      BY <3>2, <3>3, <3>4 DEF SweeperStep, SweepTakes, SweepRenews, SweepReaps, SweeperEnds,
         AfterFailedRenewal
  <2> QED
    BY <2>1, <2>2 DEF TrackerRecords
<1> QED
  BY <1>1, <1>3, <1>4, <1>5 DEF processVars, TrackerRecords

LEMMA LifeTyped ==
  ASSUME OperationsTyped, LifeStep \/ LifespanCloses \/ Exits \/ ClearCompleted
  PROVE  OperationsTyped'
<1> USE DEF OperationsTyped, OperationsTypeOK, LifeStep
<1>1. /\ serving' \in 0..MaxOwners /\ lives' \in 0..MaxLives
      /\ lifespan' \in {"new", "starts", "open", "closing", "fenced", "joins", "closed", "down"}
      /\ recovered' \in {"no", "failed", "yes"} /\ jobsOpen' \in BOOLEAN
      /\ (lifespan' # "new" => serving' # 0)
  <2>1. CASE Boots \/ Reopens
    <3>1. (serving' = serving + 1 /\ serving < MaxOwners) \/ (serving' = serving /\ lifespan = "closed")
      BY <2>1 DEF Boots, Reopens
    <3>2. serving' \in 0..MaxOwners /\ serving' # 0
      BY <3>1, OperationBounds
    <3>3. lives' = lives + 1 /\ lives < MaxLives
      BY <2>1 DEF Boots, Reopens
    <3>4. lives' \in 0..MaxLives
      BY <3>3, OperationBounds
    <3> QED
      BY <2>1, <3>2, <3>4 DEF Boots, Reopens
  <2>2. CASE LifespanOpens \/ Fences \/ LifespanCloses
    BY <2>2 DEF LifespanOpens, Fences, LifespanCloses
  <2>3. CASE InterruptsMine \/ SweeperJoined \/ Recovers
    BY <2>3 DEF InterruptsMine, SweeperJoined, Recovers, ProcessUp
  <2>4. CASE Exits
    BY <2>4 DEF Exits, ProcessUp
  <2>5. CASE ClearCompleted
    BY <2>5 DEF ClearCompleted, processVars
  <2> QED
    BY <2>1, <2>2, <2>3, <2>4, <2>5
<1>2. batch' \subseteq Ops
  BY DEF Boots, Recovers, LifespanOpens, Reopens, Fences, InterruptsMine, SweeperJoined,
     LifespanCloses, Exits,
         ClearCompleted
<1>3. OpFault("dbError") \/ OpFault("threadFails") \/ UNCHANGED opFaults
  BY DEF Boots, Recovers, LifespanOpens, Reopens, Fences, InterruptsMine, SweeperJoined,
     LifespanCloses, Exits,
         ClearCompleted, Raises
<1>4. opFaults' \in 0..MaxOpFaults
  BY <1>3, FaultCounted
<1>5. RowsTypeOK'
  <2> DEFINE mine == Mine
             strangers == Strangers
  <2>1. mine \in SUBSET DOMAIN registry /\ strangers \in SUBSET DOMAIN registry
    BY RowSets
  <2>2. \/ UNCHANGED rowVars
        \/ Become(mine, "interrupted") \/ Become(strangers, "interrupted")
        \/ ClearCompleted
    BY DEF Boots, Recovers, LifespanOpens, Reopens, Fences, InterruptsMine, SweeperJoined,
       LifespanCloses, Exits,
           Raises
  <2>3. CASE ClearCompleted
    <3>1. ended' = <<>> /\ registry' = [o \in RunningOps |-> registry[o]]
      BY <2>3 DEF ClearCompleted
    <3>2. DOMAIN registry' = RunningOps /\ RunningOps' = RunningOps
      BY <3>1 DEF RunningOps
    <3>3. \A o \in DOMAIN registry' : o \in Ops /\ registry'[o] \in OpRecords
      BY <3>1, <3>2 DEF RowsTypeOK, RunningOps
    <3>4. ended' \in [{} -> 1..MaxRecent] /\ DOMAIN ended' = {}
      BY <3>1
    <3> QED
      BY <3>2, <3>3, <3>4 DEF RowsTypeOK
  <2> HIDE DEF mine, strangers
  <2> QED
    BY <2>1, <2>2, <2>3, BecomeTyped
<1>6. opJob' \in [Ops -> [at : {"none", "begins", "works", "finishes", "fails", "unstarted", "leaves", "gone"},
                      key : JobKeys, stop : BOOLEAN]]
  <2>1. CASE LifespanCloses
    BY <2>1 DEF LifespanCloses
  <2>2. CASE Exits
    BY <2>2 DEF Exits
  <2>3. CASE UNCHANGED opJob
    BY <2>3
  <2> QED
    BY <2>1, <2>2, <2>3
       DEF Boots, Recovers, LifespanOpens, Reopens, Fences, InterruptsMine, SweeperJoined, ClearCompleted
<1>7. tracker' \in TrackerRecords
  <2>1. tracker \in TrackerRecords /\ NewTracker \in TrackerRecords
    BY DEF TrackerRecords, NewTracker
  <2> HIDE DEF OperationsTyped, OperationsTypeOK
  <2>2. CASE LifespanOpens
    BY <2>1, <2>2 DEF LifespanOpens, TrackerRecords
  <2>3. CASE Fences
    BY <2>1, <2>3 DEF Fences, TrackerRecords
  <2>4. CASE InterruptsMine \/ SweeperJoined
    <3>1. Untracked(Mine) \/ tracker' = [tracker EXCEPT !.tracked = {}] \/ UNCHANGED tracker
      BY <2>4 DEF InterruptsMine, SweeperJoined
    <3> QED
      BY <2>1, <3>1 DEF Untracked, TrackerRecords
  <2> QED
    BY <2>1, <2>2, <2>3, <2>4 DEF Boots, Recovers, Reopens, LifespanCloses, Exits, ClearCompleted
<1> QED
  BY <1>1, <1>2, <1>4, <1>5, <1>6, <1>7 DEF TrackerRecords

LEMMA OperationsTypedAlways == OperationsSpec => []OperationsTyped
<1>1. OperationsTyped /\ [OperationsNext]_opVars => OperationsTyped'
  <2> SUFFICES ASSUME OperationsTyped, [OperationsNext]_opVars PROVE OperationsTyped'
    OBVIOUS
  <2>1. CASE OperationsNext
    BY <2>1, StartTyped, JobStepTyped, SweeperTyped, LifeTyped DEF OperationsNext
  <2>2. CASE UNCHANGED opVars
    <3>1. UNCHANGED <<registry, ended, serving, lifespan, recovered, lives, jobsOpen, opJob, tracker, batch, opFaults>>
      BY <2>2 DEF opVars, rowVars, processVars
    <3> QED
      BY <3>1 DEF OperationsTyped, OperationsTypeOK, RowsTypeOK, RunningOps
  <2> QED
    BY <2>1, <2>2
<1> QED
  BY <1>1, InitOperationsTyped, PTL DEF OperationsSpec

\* The types of the operations centre.  That a write keeps no more of the ended operations than
\* max_recent, none twice and each of them with its row, is _prune's, whatever ends together,
\* is written without being known, or was cleared in between.
THEOREM OperationsTypeCorrect == OperationsSpec => []OperationsTypeOK
<1>1. OperationsTyped => OperationsTypeOK
  BY DEF OperationsTyped
<1> QED
  BY <1>1, OperationsTypedAlways, PTL

\* An operation that was started and has ended does not run again, and its row says what it said
\* for as long as it is kept.
EndIsFinal ==
  [][\A o \in Started : ~OpRuns(o) =>
       /\ ~OpRuns(o)'
       /\ o \in DOMAIN registry' => o \in DOMAIN registry /\ registry'[o] = registry[o]]_opVars

\* What is not written stays as it is, if it is kept.
LEMMA SavedLeaves ==
  ASSUME RowsTypeOK, NEW changed, Saved(changed), NEW o, o \notin DOMAIN changed, o \in DOMAIN registry'
  PROVE  o \in DOMAIN registry /\ registry'[o] = registry[o]
<1> DEFINE written == [n \in DOMAIN registry \cup DOMAIN changed |->
                         IF n \in DOMAIN changed THEN changed[n] ELSE registry[n]]
<1>1. registry' = [n \in KeptEnded(changed) \cup {m \in DOMAIN written : written[m].status = "running"} |->
                     written[n]]
  BY DEF Saved
<1>2. \A n \in KeptEnded(changed) : n \in DOMAIN written
  BY DEF KeptEnded, NewlyEnded, EndedBefore, RowsTypeOK
<1>3. o \in DOMAIN written /\ registry'[o] = written[o]
  BY <1>1, <1>2
<1> QED
  BY <1>3

\* Every write is one of running operations, but those of a start and of the operator.
LEMMA WritesOfRunning ==
  ASSUME SweeperStep \/ LifeStep \/ LifespanCloses \/ Exits \/ \E o \in Ops : JobStep(o)
  PROVE  \/ UNCHANGED rowVars
         \/ \E changed : Saved(changed) /\ DOMAIN changed \subseteq RunningOps
<1>1. \/ UNCHANGED rowVars
      \/ \E set \in SUBSET RunningOps, status \in {"success", "error", "interrupted"} : Become(set, status)
      \/ \E set \in SUBSET RunningOps, old \in BOOLEAN :
           Saved([o \in set |-> [registry[o] EXCEPT !.old = old]])
  <2>1. ASSUME NEW o \in Ops, JobStep(o)
        PROVE  \/ UNCHANGED rowVars
               \/ HeartbeatsRenewed({o} \cap Mine) \/ (HeartbeatsRenewed({o}) /\ o \in Mine)
               \/ Become({o} \cap Mine, "success") \/ Become({o} \cap Mine, "error")
    BY <2>1 DEF JobStep, JobBegins, JobUpdates, JobReturns, JobFinishes, JobFails, JobLeaves,
       Raises, Completed
  <2>2. ASSUME SweeperStep
        PROVE  \/ UNCHANGED rowVars
               \/ HeartbeatsRenewed(batch \cap Mine)
               \/ Saved([o \in tracker.tracked \cap Mine |-> [registry[o] EXCEPT !.old = TRUE]])
               \/ Become(Stale, "interrupted")
    BY <2>2 DEF SweeperStep, SweepTakes, SweepRenews, SweepReaps, SweeperEnds, Raises
  <2>3. ASSUME LifeStep \/ LifespanCloses \/ Exits
        PROVE  UNCHANGED rowVars \/ Become(Mine, "interrupted") \/ Become(Strangers, "interrupted")
    BY <2>3 DEF LifeStep, Boots, Recovers, LifespanOpens, Reopens, Fences, InterruptsMine,
       SweeperJoined,
                LifespanCloses, Exits, Raises
  <2>4. /\ \A S : S \cap Mine \in SUBSET RunningOps
        /\ \A o \in Mine : {o} \in SUBSET RunningOps
        /\ Mine \in SUBSET RunningOps /\ Strangers \in SUBSET RunningOps /\ Stale \in SUBSET RunningOps
    BY RowSets
  <2> HIDE DEF Mine, Strangers, Stale, RunningOps
  <2>5. CASE \E o \in Ops : JobStep(o)
    BY <2>1, <2>4, <2>5 DEF HeartbeatsRenewed
  <2>6. CASE SweeperStep
    BY <2>2, <2>4, <2>6 DEF HeartbeatsRenewed
  <2>7. CASE LifeStep \/ LifespanCloses \/ Exits
    BY <2>3, <2>4, <2>7
  <2> QED
    BY <2>5, <2>6, <2>7
<1>2. ASSUME NEW set \in SUBSET RunningOps, NEW status \in {"success", "error", "interrupted"}, Become(set, status)
      PROVE  \E changed : Saved(changed) /\ DOMAIN changed \subseteq RunningOps
  <2> WITNESS [o \in set |-> [registry[o] EXCEPT !.status = status]]
  <2> QED
    BY <1>2 DEF Become
<1>3. ASSUME NEW set \in SUBSET RunningOps, NEW old \in BOOLEAN,
             Saved([o \in set |-> [registry[o] EXCEPT !.old = old]])
      PROVE  \E changed : Saved(changed) /\ DOMAIN changed \subseteq RunningOps
  <2> WITNESS [o \in set |-> [registry[o] EXCEPT !.old = old]]
  <2> QED
    BY <1>3
<1> QED
  BY <1>1, <1>2, <1>3

\* An outcome of an operation stands: a job that finishes after its operation was interrupted, a
\* sweep, a recovery or a late heartbeat change only what runs (_complete, update, interrupt_*),
\* and what was pruned or cleared does not come back.
THEOREM FirstEndIsFinal == OperationsSpec => EndIsFinal
<1> DEFINE Stays(o) == /\ ~OpRuns(o)'
                       /\ o \in DOMAIN registry' => o \in DOMAIN registry /\ registry'[o] = registry[o]
<1>1. ASSUME OperationsTyped, OperationsNext, NEW o \in Started, ~OpRuns(o)
      PROVE  Stays(o)
  <2>0. RowsTypeOK /\ o \notin RunningOps
    BY <1>1 DEF OperationsTyped, OperationsTypeOK, OpRuns, RunningOps
  <2>1. ASSUME o \in DOMAIN registry' => o \in DOMAIN registry /\ registry'[o] = registry[o]
        PROVE  Stays(o)
    BY <1>1, <2>1 DEF OpRuns
  <2>2. ASSUME NEW changed, Saved(changed), o \notin DOMAIN changed PROVE Stays(o)
    BY <2>0, <2>1, <2>2, SavedLeaves
  <2>3. CASE UNCHANGED rowVars
    BY <2>1, <2>3 DEF rowVars
  <2>4. CASE \E k \in JobKeys, n \in Ops : StartJob(k, n) \/ StartRaises(k, n) \/ SweeperFails(k, n)
    <3>1. PICK n \in Ops : /\ n \notin Started
                           /\ UNCHANGED rowVars \/ \E row : Saved([m \in {n} |-> row])
      BY <2>4 DEF StartJob, StartRaises, SweeperFails, MayStartJob, OpAdded, Raises
    <3>2. ASSUME NEW row, Saved([m \in {n} |-> row]) PROVE Stays(o)
      <4> DEFINE changed == [m \in {n} |-> row]
      <4>1. Saved(changed) /\ o \notin DOMAIN changed
        BY <1>1, <3>1, <3>2
      <4> HIDE DEF changed
      <4> QED
        BY <2>2, <4>1
    <3> QED
      BY <2>3, <3>1, <3>2
  <2>5. CASE SweeperStep \/ LifeStep \/ LifespanCloses \/ Exits \/ \E n \in Ops : JobStep(n)
    BY <2>0, <2>2, <2>3, <2>5, WritesOfRunning
  <2>6. CASE \E n \in Ops : HeartbeatAges(n)
    <3>1. PICK n \in RunningOps : registry' = [registry EXCEPT ![n].old = TRUE]
      BY <2>6 DEF HeartbeatAges
    <3> QED
      BY <2>0, <2>1, <3>1
  <2>7. CASE ClearCompleted
    <3>1. registry' = [n \in RunningOps |-> registry[n]]
      BY <2>7 DEF ClearCompleted
    <3> QED
      BY <2>0, <2>1, <3>1
  <2> QED
    BY <1>1, <2>4, <2>5, <2>6, <2>7 DEF OperationsNext
<1>2. OperationsTyped /\ [OperationsNext]_opVars
      => [\A o \in Started : ~OpRuns(o) =>
            /\ ~OpRuns(o)'
            /\ o \in DOMAIN registry' => o \in DOMAIN registry /\ registry'[o] = registry[o]]_opVars
  BY <1>1
<1> QED
  BY <1>2, OperationsTypedAlways, PTL DEF OperationsSpec, EndIsFinal

(***************************************************************************)
(* Library scans.                                                          *)
(***************************************************************************)

ScanStates == {"waiting", "running"} \cup Over
JobIds == 1..jobCount
JobRecords ==
  [status : {"open", "completed", "error", "gone"}, libs : SUBSET Libraries,
   lib : [Libraries -> LibraryStatus]]
Starts == [job : JobIds, lib : Libraries, gen : 0..gen, life : 0..life]
TrackRecords == [job : JobIds, state : ScanStates, seen : BOOLEAN]
Updates == [job : JobIds, lib : Libraries, status : LibraryStatus, cleanup : BOOLEAN]
Drops == [job : JobIds, lib : Libraries]
FlowRecords ==
  [by : {"detection", "poller"}, at : {"asked", "answered", "seen", "telling", "told", "writing"},
   job : JobIds, lib : Libraries, gen : Nat, status : LibraryStatus, cleanup : BOOLEAN,
   snap : Snapshot \cup {NoScan}]

JobsTyped ==
  /\ jobCount \in 0..MaxJobs /\ asking \subseteq Libraries
  /\ jobs \in [JobIds -> JobRecords]
  /\ asking # {} => jobCount \in JobIds
StartsTyped == gen \in Nat /\ life \in Nat /\ handed \subseteq Starts
TrackTyped ==
  /\ tracking \in [Libraries -> TrackRecords \cup {NoScan}] /\ aged \in [Libraries -> BOOLEAN]
PollTyped ==
  /\ poller \in {"none", "sleep", "asked", "answered", "dispatch", "dying"}
  /\ todo \subseteq Updates /\ errors \in 0..MaxErrors
  /\ cleanups \subseteq Drops /\ doomed \subseteq Drops
GotTyped ==
  /\ \A l \in DOMAIN got : l \in Libraries /\ got[l] \in FolderAnswers \cup {"pending"}
  /\ poller = "answered" => \A l \in DOMAIN got : got[l] \in FolderAnswers
FlowsTyped ==
  /\ flows \subseteq FlowRecords /\ orphans \subseteq FlowRecords
  /\ \A f \in flows : f.by = "detection" => ~f.cleanup
RecordsTyped ==
  /\ revision \in [Libraries -> Nat] /\ wiped \in [Libraries -> Nat]
  /\ saved \in [Libraries -> Snapshot \cup {NoScan}]
GuardsTyped ==
  /\ blocked \in BOOLEAN /\ fencing \in {"none", "reset", "stop"}
  /\ fencing = "stop" => blocked

\* Where a job is mentioned for a library.
Mentions(j, l) ==
  \/ \E c \in cleanups : c.job = j /\ c.lib = l
  \/ \E c \in doomed : c.job = j /\ c.lib = l
  \/ \E u \in todo : u.job = j /\ u.lib = l
  \/ \E f \in flows : f.job = j /\ f.lib = l
  \/ TrackedFor(l, j)

\* A library is handed over once for a job, and before that nothing mentions it for the job.
HandedOnce ==
  /\ \A s \in handed : ~Mentions(s.job, s.lib)
  /\ \A l \in asking : ~Mentions(jobCount, l)
  /\ \A s \in handed, l \in asking : ~(s.job = jobCount /\ s.lib = l)
  /\ \A s, t \in handed : s.job = t.job /\ s.lib = t.lib => s = t

\* The library of an update stays tracked until the update is published.
NotDropped(l) == l \in Tracked /\ \A c \in cleanups : c.lib = l => ~TrackedFor(l, c.job)
Round ==
  /\ poller \in {"none", "sleep", "asked", "answered"} => todo = {} /\ OfPoller = {}
  /\ poller \in {"asked", "answered"} => \A c \in cleanups : ~TrackedFor(c.lib, c.job)
  /\ \A u \in todo : NotDropped(u.lib)
  /\ \A f \in OfPoller : NotDropped(f.lib)
  /\ \A u, v \in todo : u.lib = v.lib => u = v
  /\ \A f \in OfPoller, u \in todo : f.lib # u.lib
  /\ \A f, g \in OfPoller : f = g

\* One thread writes a record at a time, and it has the latest copy; a write that was left
\* behind is over before anything is tracked again.
OneWriter ==
  /\ \A f, g \in flows \cup orphans : f.at = "writing" /\ g.at = "writing" => f = g
  /\ \A f \in orphans : f.at = "writing" =>
       fencing # "none" /\ \A g \in flows : g.at # "writing"
NewestCopy ==
  \A f \in flows \cup orphans : f.at = "writing" =>
    /\ f.snap \in Snapshot /\ f.snap.rev = revision[f.lib] /\ f.snap.rev > wiped[f.lib]
    /\ saved[f.lib] # NoScan => f.snap.rev > saved[f.lib].rev
NotAhead ==
  \A l \in Libraries :
    wiped[l] <= revision[l] /\ (saved[l] # NoScan => saved[l].rev <= revision[l])

ScanInv ==
  /\ JobsTyped /\ StartsTyped /\ TrackTyped /\ PollTyped /\ GotTyped /\ FlowsTyped /\ RecordsTyped
  /\ GuardsTyped /\ QuietAfterStop /\ HandedOnce /\ Round /\ OneWriter /\ NewestCopy /\ NotAhead

LEMMA InitScanInv == ScanInit => ScanInv
<1> SUFFICES ASSUME ScanInit PROVE ScanInv
  OBVIOUS
<1> USE DEF ScanInit
<1>1. JobsTyped
  <2>1. jobs \in [JobIds -> JobRecords]
    <3>1. JobIds = {}
      BY DEF JobIds
    <3>2. jobs = [j \in JobIds |-> {}]
      BY <3>1
    <3> QED
      BY <3>1, <3>2
  <2> QED
    BY <2>1, ScanBoundAssumption DEF JobsTyped
<1>2. StartsTyped /\ TrackTyped /\ PollTyped /\ RecordsTyped /\ GuardsTyped
  <2>1. StartsTyped
    BY DEF StartsTyped
  <2>2. TrackTyped
    BY DEF TrackTyped
  <2>3. PollTyped
    BY ScanBoundAssumption DEF PollTyped
  <2>4. RecordsTyped
    BY DEF RecordsTyped
  <2> QED
    BY <2>1, <2>2, <2>3, <2>4 DEF GuardsTyped
<1>3. GotTyped
  <2>1. DOMAIN got = {}
    OBVIOUS
  <2> QED
    BY <2>1 DEF GotTyped
<1>4. FlowsTyped /\ HandedOnce /\ OneWriter /\ NewestCopy
  BY DEF FlowsTyped, HandedOnce, OneWriter, NewestCopy
<1>5. QuietAfterStop /\ Round /\ NotAhead
  BY DEF QuietAfterStop, Round, NotAhead, Tracked, OfPoller, TrackedFor
<1> QED
  BY <1>1, <1>2, <1>3, <1>4, <1>5 DEF ScanInv

-----------------------------------------------------------------------------

LEMMA TracksAreRecords == ASSUME JobsTyped PROVE NoScan \notin TrackRecords
<1>1. JobIds \subseteq Nat
  BY DEF JobsTyped, JobIds
<1> QED
  BY <1>1, TrackAssumption DEF TrackRecords, LibraryTracks, ScanStates, Over

\* Tracked libraries have a record.
LEMMA TrackedHasRecord ==
  ASSUME JobsTyped, TrackTyped, NEW l \in Libraries
  PROVE  l \in Tracked <=> tracking[l] \in TrackRecords
  BY TracksAreRecords DEF TrackTyped, Tracked

LEMMA HandedOnceKept ==
  ASSUME JobsTyped, StartsTyped, HandedOnce, jobCount' = jobCount, handed' \subseteq handed,
         asking' \subseteq asking,
         \A j \in JobIds, l \in Libraries : Mentions(j, l)' => Mentions(j, l)
  PROVE  HandedOnce'
<1>1. \A s \in handed : s.job \in JobIds /\ s.lib \in Libraries
  BY DEF StartsTyped, Starts
<1>2. \A l \in asking : l \in Libraries /\ jobCount \in JobIds
  BY DEF JobsTyped
<1>3. \A s \in handed' : ~Mentions(s.job, s.lib)'
  BY <1>1 DEF HandedOnce
<1>4. \A l \in asking' : ~Mentions(jobCount, l)'
  BY <1>2 DEF HandedOnce
<1> HIDE DEF Mentions
<1>5. /\ \A s \in handed', l \in asking' : ~(s.job = jobCount' /\ s.lib = l)
      /\ \A s, t \in handed' : s.job = t.job /\ s.lib = t.lib => s = t
  BY DEF HandedOnce
<1> QED
  BY <1>3, <1>4, <1>5 DEF HandedOnce

LEMMA WritersKept ==
  ASSUME OneWriter, NewestCopy, NotAhead, UNCHANGED <<revision, saved, wiped>>,
         \A f \in flows' : f.at = "writing" => f \in flows,
         \A f \in orphans' : f.at = "writing" => f \in orphans,
         fencing' = fencing \/ fencing' # "none"
  PROVE  OneWriter' /\ NewestCopy' /\ NotAhead'
  BY DEF OneWriter, NewestCopy, NotAhead

LEMMA RoundKept ==
  ASSUME Round, poller' = poller, todo' = todo,
         \A f \in OfPoller' : \E g \in OfPoller : g.lib = f.lib,
         \A f, g \in OfPoller' : f = g,
         \A l : NotDropped(l) => NotDropped(l)',
         poller \in {"asked", "answered"} => 
           \A c \in cleanups' : TrackedFor(c.lib, c.job)' => c \in cleanups /\ TrackedFor(c.lib, c.job)
  PROVE  Round'
<1>1. /\ poller' \in {"none", "sleep", "asked", "answered"} => todo' = {} /\ OfPoller' = {}
      /\ \A f \in OfPoller', u \in todo' : f.lib # u.lib
      /\ \A u, v \in todo' : u.lib = v.lib => u = v
  BY DEF Round
<1>2. poller' \in {"asked", "answered"} => \A c \in cleanups' : ~TrackedFor(c.lib, c.job)'
  BY DEF Round
<1>3. /\ \A u \in todo' : NotDropped(u.lib)'
      /\ \A f \in OfPoller' : NotDropped(f.lib)'
  BY DEF Round
<1> QED
  BY <1>1, <1>2, <1>3 DEF Round

LEMMA JobsToldTyped ==
  ASSUME JobsTyped, NEW j \in JobIds, NEW l \in Libraries, NEW status \in LibraryStatus
  PROVE  JobsTold(j, l, status) \in [JobIds -> JobRecords]
<1>0. jobs \in [JobIds -> JobRecords] /\ jobs[j] \in JobRecords
  BY DEF JobsTyped
<1> DEFINE book == [jobs[j].lib EXCEPT ![l] = status]
           job == [jobs[j] EXCEPT !.lib = book]
<1>1. book \in [Libraries -> LibraryStatus]
  BY <1>0 DEF JobRecords
<1>2. job \in JobRecords /\ job.lib = book
  <2> HIDE DEF book
  <2> QED
    BY <1>0, <1>1 DEF JobRecords
<1>3. [jobs[j] EXCEPT !.lib[l] = status] = job
  BY <1>0 DEF JobRecords
<1> HIDE DEF job
<1>4. \A outcome \in {"error", "completed"} : [job EXCEPT !.status = outcome] \in JobRecords
  BY <1>2 DEF JobRecords
<1> DEFINE outcome == IF \E m \in job.libs : job.lib[m] = "error" THEN "error" ELSE "completed"
           told == IF ~JobEnded(job) THEN job ELSE [job EXCEPT !.status = outcome]
<1>5. outcome \in {"error", "completed"}
  OBVIOUS
<1> HIDE DEF outcome
<1>6. told \in JobRecords
  BY <1>2, <1>4, <1>5
<1>7. JobsTold(j, l, status) \in {jobs, [jobs EXCEPT ![j] = told]}
  BY <1>3 DEF JobsTold, outcome
<1> HIDE DEF told
<1> QED
  BY <1>0, <1>6, <1>7

LEMMA RequestScanKeeps ==
  ASSUME ScanInv, NEW L \in SUBSET Libraries, RequestScan(L)
  PROVE  ScanInv'
<1> USE DEF ScanInv
<1>0. /\ jobCount \in Nat /\ jobCount' = jobCount + 1 /\ jobCount + 1 \in 0..MaxJobs
      /\ JobIds \subseteq JobIds' /\ jobCount' \in JobIds' /\ jobCount' \notin JobIds
      /\ asking = {} /\ asking' = L
      /\ UNCHANGED <<handed, tracking, aged, poller, got, todo, errors, doomed, flows, orphans,
                     cleanups, revision, saved, wiped, gen, life, blocked, fencing>>
  BY ScanBoundAssumption DEF RequestScan, JobsTyped, JobIds, pollVars, recordVars, guardVars
<1>1. JobsTyped'
  <2>1. ASSUME NEW j \in JobIds' PROVE jobs'[j] \in JobRecords
    <3>1. CASE j \in JobIds
      <4>1. j <= jobCount /\ j \in 1..jobCount + 1
        BY <1>0, <3>1 DEF JobIds
      <4>2. jobs'[j] = jobs[j]
        BY <4>1 DEF RequestScan
      <4> QED
        BY <3>1, <4>2 DEF JobsTyped
    <3>2. CASE j \notin JobIds
      <4>1. ~(j <= jobCount) /\ j \in 1..jobCount + 1
        BY <1>0, <3>2 DEF JobIds
      <4>2. jobs'[j] = [status |-> "open", libs |-> L, lib |-> [l \in Libraries |-> "none"]]
        BY <4>1 DEF RequestScan
      <4>3. [l \in Libraries |-> "none"] \in [Libraries -> LibraryStatus]
        BY DEF LibraryStatus
      <4> QED
        BY <4>2, <4>3 DEF JobRecords
    <3> QED
      BY <3>1, <3>2
  <2>2. jobs' = [j \in JobIds' |-> jobs'[j]]
    BY <1>0 DEF RequestScan, JobIds
  <2>3. jobs' \in [JobIds' -> JobRecords]
    BY <2>1, <2>2
  <2> QED
    BY <1>0, <2>3 DEF JobsTyped
<1>2. StartsTyped'
  BY <1>0 DEF StartsTyped, Starts
<1>3. TrackTyped'
  <2>1. TrackRecords \subseteq TrackRecords'
    BY <1>0 DEF TrackRecords
  <2> QED
    BY <1>0, <2>1 DEF TrackTyped
<1>4. PollTyped' /\ GotTyped'
  BY <1>0 DEF PollTyped, GotTyped, Updates, Drops
<1>5. FlowsTyped'
  <2>1. FlowRecords \subseteq FlowRecords'
    BY <1>0 DEF FlowRecords
  <2> QED
    BY <1>0, <2>1 DEF FlowsTyped
<1>6. RecordsTyped' /\ GuardsTyped' /\ QuietAfterStop'
  BY <1>0 DEF RecordsTyped, GuardsTyped, QuietAfterStop, Tracked
<1>7. HandedOnce'
  <2>1. \A j, l : Mentions(j, l)' <=> Mentions(j, l)
    BY <1>0 DEF Mentions, TrackedFor, Tracked
  <2>2. \A s \in handed : s.job \in JobIds
    BY DEF StartsTyped, Starts
  <2>3. \A l \in Libraries : ~Mentions(jobCount', l)
    <3> SUFFICES ASSUME NEW l \in Libraries, NEW j, j = jobCount', Mentions(j, l) PROVE FALSE
      OBVIOUS
    <3>1. l \in Tracked => tracking[l].job \in JobIds
      BY TrackedHasRecord DEF TrackRecords
    <3>2. j \in JobIds
      BY <3>1 DEF Mentions, TrackedFor, PollTyped, FlowsTyped, Drops, Updates, FlowRecords
    <3> QED
      BY <1>0, <3>2
  <2> QED
    BY <1>0, <2>1, <2>2, <2>3 DEF HandedOnce
<1>8. Round' /\ OneWriter' /\ NewestCopy' /\ NotAhead'
  <2>1. Round'
    BY <1>0 DEF Round, OfPoller, NotDropped, TrackedFor, Tracked
  <2> QED
    BY <1>0, <2>1, WritersKept
<1> QED
  BY <1>1, <1>2, <1>3, <1>4, <1>5, <1>6, <1>7, <1>8

\* Steps that change jobs and starts only.
LEMMA OutsideKept ==
  ASSUME ScanInv, jobCount' = jobCount,
         UNCHANGED <<tracking, aged, poller, got, todo, errors, doomed, flows, orphans, cleanups,
                     revision, saved, wiped, gen, life, blocked, fencing>>
  PROVE  /\ TrackTyped' /\ PollTyped' /\ GotTyped' /\ FlowsTyped' /\ RecordsTyped' /\ GuardsTyped'
         /\ QuietAfterStop' /\ Round' /\ OneWriter' /\ NewestCopy' /\ NotAhead'
         /\ \A j, l : Mentions(j, l)' <=> Mentions(j, l)
<1> USE DEF ScanInv
<1>1. /\ TrackTyped' /\ PollTyped' /\ GotTyped' /\ FlowsTyped'
  BY DEF TrackTyped, PollTyped, GotTyped, FlowsTyped, TrackRecords, Updates, Drops, FlowRecords,
     JobIds
<1>2. RecordsTyped' /\ GuardsTyped' /\ QuietAfterStop'
  BY DEF RecordsTyped, GuardsTyped, QuietAfterStop, Tracked
<1>3. Round'
  BY DEF Round, OfPoller, NotDropped, TrackedFor, Tracked
<1>4. OneWriter' /\ NewestCopy' /\ NotAhead'
  BY WritersKept
<1>5. \A j, l : Mentions(j, l)' <=> Mentions(j, l)
  BY DEF Mentions, TrackedFor, Tracked
<1> QED
  BY <1>1, <1>2, <1>3, <1>4, <1>5

LEMMA ScheduleTrackingKeeps ==
  ASSUME ScanInv, NEW l \in Libraries, ScheduleTracking(l)
  PROVE  ScanInv'
<1> USE DEF ScanInv
<1> DEFINE s == [job |-> jobCount, lib |-> l, gen |-> gen, life |-> life]
<1>0. /\ jobCount' = jobCount /\ jobs' = jobs /\ l \in asking /\ asking' = asking \ {l}
      /\ handed' = handed \cup {s}
      /\ UNCHANGED <<tracking, aged, poller, got, todo, errors, doomed, flows, orphans, cleanups,
                     revision, saved, wiped, gen, life, blocked, fencing>>
  BY DEF ScheduleTracking, pollVars, recordVars, guardVars
<1>1. JobsTyped'
  BY <1>0 DEF JobsTyped, JobIds
<1>2. s.job = jobCount /\ s.lib = l /\ s \in Starts
  BY <1>0 DEF JobsTyped, StartsTyped, Starts
<1> HIDE DEF s
<1>3. StartsTyped'
  BY <1>0, <1>2 DEF StartsTyped, Starts, JobIds
<1>4. HandedOnce'
  <2>1. \A j, m : Mentions(j, m)' <=> Mentions(j, m)
    BY <1>0, OutsideKept
  <2> HIDE DEF Mentions
  <2>2. \A t \in handed' : ~Mentions(t.job, t.lib)'
    BY <1>0, <1>2, <2>1 DEF HandedOnce
  <2>3. \A m \in asking' : ~Mentions(jobCount, m)'
    BY <1>0, <2>1 DEF HandedOnce
  <2>4. \A t \in handed', m \in asking' : ~(t.job = jobCount' /\ t.lib = m)
    BY <1>0, <1>2 DEF HandedOnce
  <2>5. \A t, u \in handed' : t.job = u.job /\ t.lib = u.lib => t = u
    BY <1>0, <1>2 DEF HandedOnce
  <2> QED
    BY <1>0, <2>2, <2>3, <2>4, <2>5 DEF HandedOnce
<1> QED
  BY <1>0, <1>1, <1>3, <1>4, OutsideKept

LEMMA TriggerRefusedKeeps ==
  ASSUME ScanInv, NEW l \in Libraries, TriggerRefused(l)
  PROVE  ScanInv'
<1> USE DEF ScanInv
<1>0. /\ jobCount' = jobCount /\ l \in asking /\ asking' = asking \ {l} /\ handed' = handed
      /\ jobs' = JobsTold(jobCount, l, "error")
      /\ UNCHANGED <<tracking, aged, poller, got, todo, errors, doomed, flows, orphans, cleanups,
                     revision, saved, wiped, gen, life, blocked, fencing>>
  BY DEF TriggerRefused, pollVars, recordVars, guardVars
<1>1. JobsTyped'
  <2>1. jobCount \in JobIds /\ "error" \in LibraryStatus
    BY <1>0 DEF JobsTyped, LibraryStatus
  <2>2. jobs' \in [JobIds -> JobRecords]
    BY <1>0, <2>1, JobsToldTyped
  <2> QED
    BY <1>0, <2>2 DEF JobsTyped, JobIds
<1>2. StartsTyped'
  BY <1>0 DEF StartsTyped, Starts, JobIds
<1>3. HandedOnce'
  BY <1>0, HandedOnceKept, OutsideKept
<1> QED
  BY <1>0, <1>1, <1>2, <1>3, OutsideKept

-----------------------------------------------------------------------------

LEMMA StartTrackingKeeps ==
  ASSUME ScanInv, NEW s \in handed, StartTracking(s)
  PROVE  ScanInv'
<1> USE DEF ScanInv
<1>0. /\ handed' = handed \ {s} /\ s \in Starts /\ s.job \in JobIds /\ s.lib \in Libraries
      /\ s.gen \in Nat
      /\ UNCHANGED <<jobs, jobCount, asking, orphans, cleanups, revision, saved, wiped, gen, life,
                     blocked, fencing>>
  BY DEF StartTracking, jobVars, recordVars, guardVars, StartsTyped, Starts
<1>1. JobsTyped' /\ StartsTyped' /\ RecordsTyped' /\ GuardsTyped'
  BY <1>0 DEF JobsTyped, JobIds, StartsTyped, Starts, RecordsTyped, GuardsTyped
<1>2. CASE UNCHANGED <<tracking, aged, pollVars, flows>>
  <2> USE DEF pollVars
  <2>1. /\ TrackTyped' /\ PollTyped' /\ GotTyped' /\ FlowsTyped' /\ QuietAfterStop' /\ Round'
        /\ OneWriter' /\ NewestCopy' /\ NotAhead' /\ \A j, l : Mentions(j, l)' <=> Mentions(j, l)
    BY <1>0, <1>2, OutsideKept
  <2>2. HandedOnce'
    BY <1>0, <2>1, HandedOnceKept
  <2> QED
    BY <1>1, <2>1, <2>2
<1>3. CASE ~ UNCHANGED <<tracking, aged, pollVars, flows>>
  <2> DEFINE rec == [job |-> s.job, state |-> "waiting", seen |-> FALSE]
             flow == [by |-> "detection", at |-> "asked", job |-> s.job, lib |-> s.lib, gen |-> s.gen,
                      status |-> "active", cleanup |-> FALSE, snap |-> NoScan]
  <2>0. /\ Admitted(s) /\ tracking' = [tracking EXCEPT ![s.lib] = rec]
        /\ aged' = [aged EXCEPT ![s.lib] = FALSE]
        /\ poller' = (IF poller = "none" THEN "sleep" ELSE poller)
        /\ errors' = (IF poller = "none" THEN 0 ELSE errors)
        /\ flows' = flows \cup {flow} /\ UNCHANGED <<got, todo, doomed>>
    BY <1>3 DEF StartTracking
  <2>1. rec \in TrackRecords /\ rec.job = s.job /\ rec # NoScan
    <3>1. rec \in TrackRecords /\ rec.job = s.job
      BY <1>0 DEF TrackRecords, ScanStates
    <3> HIDE DEF rec
    <3> QED
      BY <3>1, TracksAreRecords
  <2>2. /\ flow \in FlowRecords /\ flow.job = s.job /\ flow.lib = s.lib /\ flow.by = "detection"
        /\ flow.at = "asked" /\ ~flow.cleanup
    BY <1>0 DEF FlowRecords, LibraryStatus
  <2> HIDE DEF rec, flow
  <2>3. /\ \A l \in Libraries : l # s.lib => tracking'[l] = tracking[l]
        /\ tracking'[s.lib] = rec /\ s.lib \in Tracked'
        /\ Tracked' = Tracked \cup {s.lib}
    BY <1>0, <2>0, <2>1 DEF TrackTyped, Tracked
  <2>4. TrackTyped'
    BY <1>0, <2>0, <2>1 DEF TrackTyped, TrackRecords, JobIds
  <2>5. PollTyped' /\ GotTyped'
    BY <1>0, <2>0, ScanBoundAssumption DEF PollTyped, GotTyped, Updates, Drops, JobIds
  <2>6. FlowsTyped'
    BY <1>0, <2>0, <2>2 DEF FlowsTyped, FlowRecords, JobIds
  <2>7. QuietAfterStop'
    BY <1>0, <2>0 DEF QuietAfterStop, Admitted
  <2>8. \A c \in cleanups : c.lib = s.lib => c.job # s.job
    BY DEF HandedOnce, Mentions
  <2>9. \A l, j : TrackedFor(l, j)' => TrackedFor(l, j) \/ (l = s.lib /\ j = s.job)
    BY <1>0, <2>1, <2>3 DEF TrackedFor, Tracked
  <2>10. HandedOnce'
    <3>1. \A j, l : Mentions(j, l)' => Mentions(j, l) \/ (l = s.lib /\ j = s.job)
      BY <1>0, <2>0, <2>2, <2>9 DEF Mentions
    <3> HIDE DEF Mentions
    <3>2. \A t \in handed' : ~Mentions(t.job, t.lib)'
      BY <1>0, <3>1 DEF HandedOnce
    <3>3. \A l \in asking' : ~Mentions(jobCount, l)'
      BY <1>0, <3>1 DEF HandedOnce
    <3> QED
      BY <1>0, <3>2, <3>3 DEF HandedOnce
  <2>11. Round'
    <3>1. OfPoller' = OfPoller
      BY <2>0, <2>2 DEF OfPoller
    <3>2. \A l : NotDropped(l) => NotDropped(l)'
      BY <1>0, <2>3, <2>8, <2>9 DEF NotDropped
    <3>3. poller' \in {"asked", "answered"} =>
            poller \in {"asked", "answered"} /\ \A c \in cleanups' : ~TrackedFor(c.lib, c.job)'
      BY <1>0, <2>0, <2>8, <2>9 DEF Round
    <3>4. poller' \in {"none", "sleep", "asked", "answered"} => todo' = {} /\ OfPoller' = {}
      BY <2>0, <3>1 DEF Round
    <3>5. (\A u \in todo' : NotDropped(u.lib)') /\ (\A f \in OfPoller' : NotDropped(f.lib)')
      BY <2>0, <3>1, <3>2 DEF Round
    <3> QED
      BY <2>0, <3>1, <3>3, <3>4, <3>5 DEF Round
  <2>12. OneWriter' /\ NewestCopy' /\ NotAhead'
    BY <1>0, <2>0, <2>2, WritersKept
  <2> QED
    BY <1>1, <2>4, <2>5, <2>6, <2>7, <2>10, <2>11, <2>12
<1> QED
  BY <1>2, <1>3

-----------------------------------------------------------------------------

LEMMA FlowGoes ==
  ASSUME NEW f \in FlowRecords, NEW at \in {"asked", "answered", "seen", "telling", "told", "writing"}
  PROVE  /\ [f EXCEPT !.at = at] \in FlowRecords /\ [f EXCEPT !.at = at].at = at
         /\ [f EXCEPT !.at = at].job = f.job /\ [f EXCEPT !.at = at].lib = f.lib
         /\ [f EXCEPT !.at = at].by = f.by /\ [f EXCEPT !.at = at].cleanup = f.cleanup
  BY DEF FlowRecords

\* A flow is over, or goes on as another record; the poller stays where it is.
LEMMA FlowsKept ==
  ASSUME ScanInv, NEW f \in flows, NEW new \in SUBSET FlowRecords,
         flows' = (flows \ {f}) \cup new,
         \A g \in new : g.job = f.job /\ g.lib = f.lib /\ g.by = f.by /\ g.cleanup = f.cleanup,
         \A g, h \in new : g = h,
         \/ cleanups' = cleanups
         \/ new = {} /\ f.cleanup /\ cleanups' = cleanups \cup {[job |-> f.job, lib |-> f.lib]},
         \A l \in Libraries : l \in Tracked' <=> l \in Tracked,
         \A l \in Tracked : tracking'[l].job = tracking[l].job,
         UNCHANGED <<jobCount, asking, handed, poller, got, todo, errors, doomed, orphans, gen, life,
                     blocked, fencing>>
  PROVE  PollTyped' /\ GotTyped' /\ FlowsTyped' /\ StartsTyped' /\ QuietAfterStop' /\ HandedOnce' /\ Round'
<1> USE DEF ScanInv
<1> DEFINE c == [job |-> f.job, lib |-> f.lib]
<1>0. f \in FlowRecords /\ f.job \in JobIds /\ f.lib \in Libraries /\ f.by \in {"detection", "poller"}
      /\ JobIds' = JobIds
  BY DEF FlowsTyped, FlowRecords, JobIds
<1>1. c \in Drops /\ c.job = f.job /\ c.lib = f.lib
  BY <1>0 DEF Drops
<1> HIDE DEF c
<1>2. cleanups' = cleanups \/ (new = {} /\ f.cleanup /\ cleanups' = cleanups \cup {c})
  BY DEF c
<1>3. PollTyped' /\ GotTyped' /\ StartsTyped'
  BY <1>0, <1>1, <1>2 DEF PollTyped, GotTyped, StartsTyped, Starts, Updates, Drops
<1>4. FlowsTyped'
  <2>1. FlowRecords' = FlowRecords
    BY <1>0 DEF FlowRecords
  <2> QED
    BY <2>1 DEF FlowsTyped
<1>5. QuietAfterStop'
  <2>1. Tracked' = Tracked
    BY DEF Tracked
  <2> QED
    BY <2>1 DEF QuietAfterStop
<1>6. \A l, j : TrackedFor(l, j)' <=> TrackedFor(l, j)
  BY DEF TrackedFor, Tracked
<1>7. HandedOnce'
  <2>1. \A j, l : Mentions(j, l)' => Mentions(j, l)
    BY <1>1, <1>2, <1>6 DEF Mentions
  <2> HIDE DEF Mentions
  <2> QED
    BY <2>1, HandedOnceKept
<1>8. Round'
  <2>1. CASE f.by = "poller"
    <3>1. /\ OfPoller = {f} /\ poller \notin {"none", "sleep", "asked", "answered"}
          /\ \A u \in todo : u.lib # f.lib
      BY <2>1 DEF Round, OfPoller
    <3>2. OfPoller' = new
      BY <2>1, <3>1 DEF OfPoller
    <3>3. \A u \in todo : NotDropped(u.lib)'
      <4> SUFFICES ASSUME NEW u \in todo PROVE NotDropped(u.lib)'
        OBVIOUS
      <4>1. u.lib \in Tracked' /\ u.lib # f.lib
            /\ \A d \in cleanups : d.lib = u.lib => ~TrackedFor(u.lib, d.job)
        BY <3>1 DEF Round, NotDropped, Tracked
      <4> QED
        BY <1>1, <1>2, <1>6, <4>1 DEF NotDropped
    <3>4. \A g \in new : NotDropped(g.lib)'
      <4> SUFFICES ASSUME NEW g \in new PROVE NotDropped(f.lib)'
        OBVIOUS
      <4>1. cleanups' = cleanups /\ NotDropped(f.lib)
        BY <1>2, <3>1 DEF Round
      <4> QED
        BY <1>6, <4>1 DEF NotDropped, Tracked
    <3> QED
      BY <3>1, <3>2, <3>3, <3>4 DEF Round
  <2>2. CASE f.by # "poller"
    <3>1. OfPoller' = OfPoller
      BY <2>2 DEF OfPoller
    <3>2. cleanups' = cleanups
      BY <1>0, <1>2, <2>2 DEF FlowsTyped
    <3>3. \A l : NotDropped(l) => NotDropped(l)'
      BY <1>6, <3>2 DEF NotDropped, Tracked
    <3> QED
      BY <1>6, <3>1, <3>2, <3>3 DEF Round
  <2> QED
    BY <2>1, <2>2
<1> QED
  BY <1>3, <1>4, <1>5, <1>7, <1>8

\* What a step of a flow leaves alone.
FlowFrame ==
  UNCHANGED <<jobCount, asking, handed, poller, got, todo, errors, doomed, orphans, gen, life,
              blocked, fencing, aged>>

LEMMA FlowEnds ==
  ASSUME ScanInv, NEW f \in flows, flows' = flows \ {f}, FlowFrame, tracking' = tracking,
         \/ cleanups' = cleanups
         \/ f.cleanup /\ cleanups' = cleanups \cup {[job |-> f.job, lib |-> f.lib]}
  PROVE  PollTyped' /\ GotTyped' /\ FlowsTyped' /\ StartsTyped' /\ QuietAfterStop' /\ HandedOnce' /\ Round'
<1>1. PICK new \in SUBSET FlowRecords : new = {}
  OBVIOUS
<1>2. /\ flows' = (flows \ {f}) \cup new /\ \A g, h \in new : g = h
      /\ \A g \in new : g.job = f.job /\ g.lib = f.lib /\ g.by = f.by /\ g.cleanup = f.cleanup
  BY <1>1
<1>3. \/ cleanups' = cleanups
      \/ new = {} /\ f.cleanup /\ cleanups' = cleanups \cup {[job |-> f.job, lib |-> f.lib]}
  BY <1>1
<1>4. (\A l \in Libraries : l \in Tracked' <=> l \in Tracked)
      /\ (\A l \in Tracked : tracking'[l].job = tracking[l].job)
  BY DEF Tracked
<1> QED
  BY <1>2, <1>3, <1>4, FlowsKept DEF FlowFrame

LEMMA FlowIsDone ==
  ASSUME ScanInv, NEW f \in flows, Done(f), FlowFrame, tracking' = tracking
  PROVE  PollTyped' /\ GotTyped' /\ FlowsTyped' /\ StartsTyped' /\ QuietAfterStop' /\ HandedOnce' /\ Round'
BY FlowEnds DEF Done

LEMMA FlowGoesOn ==
  ASSUME ScanInv, NEW f \in flows, NEW g \in FlowRecords, flows' = (flows \ {f}) \cup {g},
         g.job = f.job, g.lib = f.lib, g.by = f.by, g.cleanup = f.cleanup, cleanups' = cleanups, FlowFrame,
         \A l \in Libraries : l \in Tracked' <=> l \in Tracked,
         \A l \in Tracked : tracking'[l].job = tracking[l].job
  PROVE  PollTyped' /\ GotTyped' /\ FlowsTyped' /\ StartsTyped' /\ QuietAfterStop' /\ HandedOnce' /\ Round'
<1>1. {g} \in SUBSET FlowRecords /\ \A h, i \in {g} : h = i
  OBVIOUS
<1>2. \A h \in {g} : h.job = f.job /\ h.lib = f.lib /\ h.by = f.by /\ h.cleanup = f.cleanup
  OBVIOUS
<1> QED
  BY <1>1, <1>2, FlowsKept DEF FlowFrame

FlowPlaces == {"asked", "answered", "seen", "telling", "told", "writing"}

LEMMA FlowAtKeeps ==
  ASSUME ScanInv, NEW f \in flows, NEW at \in FlowPlaces, FlowAt(f, at), cleanups' = cleanups, FlowFrame,
         \A l \in Libraries : l \in Tracked' <=> l \in Tracked,
         \A l \in Tracked : tracking'[l].job = tracking[l].job
  PROVE  /\ PollTyped' /\ GotTyped' /\ FlowsTyped' /\ StartsTyped' /\ QuietAfterStop' /\ HandedOnce' /\ Round'
         /\ \A g \in flows' : g.at = at \/ g \in flows
<1>0. f \in FlowRecords
  BY DEF ScanInv, FlowsTyped
<1> DEFINE on == [f EXCEPT !.at = at]
<1>1. /\ on \in FlowRecords /\ flows' = (flows \ {f}) \cup {on} /\ on.at = at /\ on.job = f.job
      /\ on.lib = f.lib /\ on.by = f.by /\ on.cleanup = f.cleanup
  BY ZenonT(40), <1>0, FlowGoes DEF FlowAt, FlowPlaces
<1> HIDE DEF on
<1>2. PICK g \in FlowRecords : /\ flows' = (flows \ {f}) \cup {g} /\ g.at = at /\ g.job = f.job
                               /\ g.lib = f.lib /\ g.by = f.by /\ g.cleanup = f.cleanup
  BY <1>1
<1> QED
  BY <1>2, FlowGoesOn

\* The tables that a flow does not change.
LEMMA TablesKept ==
  ASSUME ScanInv, FlowFrame, UNCHANGED <<jobs, tracking, revision, saved, wiped>>
  PROVE  JobsTyped' /\ TrackTyped' /\ RecordsTyped' /\ GuardsTyped'
  BY DEF ScanInv, FlowFrame, JobsTyped, TrackTyped, RecordsTyped, GuardsTyped, JobIds, TrackRecords

LEMMA LookAgainKeeps ==
  ASSUME ScanInv, NEW f \in flows, LookAgain(f)
  PROVE  ScanInv'
<1> USE DEF ScanInv
<1>0. FlowFrame /\ UNCHANGED <<jobs, tracking, revision, saved, wiped>>
  BY DEF LookAgain, FlowFrame, jobVars, pollVars, recordVars, guardVars
<1>1. (\A l \in Libraries : l \in Tracked' <=> l \in Tracked)
      /\ (\A l \in Tracked : tracking'[l].job = tracking[l].job)
  BY <1>0 DEF Tracked
<1>2. CASE FlowAt(f, "telling") /\ cleanups' = cleanups
  <2>1. \A g \in flows' : g.at = "telling" \/ g \in flows
    BY <1>0, <1>1, <1>2, FlowAtKeeps DEF FlowPlaces
  <2>2. OneWriter' /\ NewestCopy' /\ NotAhead'
    BY <1>0, <2>1, WritersKept DEF FlowFrame
  <2> QED
    BY <1>0, <1>1, <1>2, <2>2, FlowAtKeeps, TablesKept DEF FlowPlaces
<1>3. CASE Done(f)
  <2>1. OneWriter' /\ NewestCopy' /\ NotAhead'
    BY <1>0, <1>3, WritersKept DEF FlowFrame, Done
  <2> QED
    BY <1>0, <1>3, <2>1, FlowIsDone, TablesKept
<1> QED
  BY <1>2, <1>3 DEF LookAgain

LEMMA TellTrackerKeeps ==
  ASSUME ScanInv, NEW f \in flows, TellTracker(f)
  PROVE  ScanInv'
<1> USE DEF ScanInv
<1>0. /\ FlowFrame /\ UNCHANGED <<tracking, revision, saved, wiped>> /\ cleanups' = cleanups
      /\ FlowAt(f, "told") /\ jobs' = JobsTold(f.job, f.lib, f.status)
  BY DEF TellTracker, FlowFrame, pollVars, recordVars, guardVars
<1>1. (\A l \in Libraries : l \in Tracked' <=> l \in Tracked)
      /\ (\A l \in Tracked : tracking'[l].job = tracking[l].job)
  BY <1>0 DEF Tracked
<1>2. JobsTyped'
  <2>1. f.job \in JobIds /\ f.lib \in Libraries /\ f.status \in LibraryStatus
    BY DEF FlowsTyped, FlowRecords
  <2>2. jobs' \in [JobIds -> JobRecords]
    BY <1>0, <2>1, JobsToldTyped
  <2> QED
    BY <1>0, <2>2 DEF JobsTyped, JobIds, FlowFrame
<1>3. TrackTyped' /\ RecordsTyped' /\ GuardsTyped'
  BY <1>0 DEF TrackTyped, RecordsTyped, GuardsTyped, JobIds, TrackRecords, FlowFrame
<1>4. \A g \in flows' : g.at = "told" \/ g \in flows
  BY <1>0, <1>1, FlowAtKeeps DEF FlowPlaces
<1>5. OneWriter' /\ NewestCopy' /\ NotAhead'
  BY <1>0, <1>4, WritersKept DEF FlowFrame
<1> QED
  BY <1>0, <1>1, <1>2, <1>3, <1>5, FlowAtKeeps DEF FlowPlaces

LEMMA DetectionAnsweredKeeps ==
  ASSUME ScanInv, NEW f \in flows, DetectionAnswered(f)
  PROVE  ScanInv'
<1> USE DEF ScanInv
<1>0. FlowFrame /\ UNCHANGED <<jobs, tracking, revision, saved, wiped>> /\ cleanups' = cleanups
  BY DEF DetectionAnswered, FlowFrame, jobVars, pollVars, recordVars, guardVars
<1>1. (\A l \in Libraries : l \in Tracked' <=> l \in Tracked)
      /\ (\A l \in Tracked : tracking'[l].job = tracking[l].job)
  BY <1>0 DEF Tracked
<1>2. CASE FlowAt(f, "answered")
  <2>1. \A g \in flows' : g.at = "answered" \/ g \in flows
    BY <1>0, <1>1, <1>2, FlowAtKeeps DEF FlowPlaces
  <2>2. OneWriter' /\ NewestCopy' /\ NotAhead'
    BY <1>0, <2>1, WritersKept DEF FlowFrame
  <2> QED
    BY <1>0, <1>1, <1>2, <2>2, FlowAtKeeps, TablesKept DEF FlowPlaces
<1>3. CASE flows' = flows \ {f}
  <2>1. OneWriter' /\ NewestCopy' /\ NotAhead'
    BY <1>0, <1>3, WritersKept DEF FlowFrame
  <2>2. /\ PollTyped' /\ GotTyped' /\ FlowsTyped' /\ StartsTyped' /\ QuietAfterStop' /\ HandedOnce'
        /\ Round'
    BY <1>0, <1>3, FlowEnds
  <2> QED
    BY <1>0, <2>1, <2>2, TablesKept
<1> QED
  BY <1>2, <1>3 DEF DetectionAnswered

LEMMA DetectedKeeps ==
  ASSUME ScanInv, NEW f \in flows, Detected(f)
  PROVE  ScanInv'
<1> USE DEF ScanInv
<1>0. FlowFrame /\ UNCHANGED <<jobs, revision, saved, wiped>> /\ cleanups' = cleanups
  BY DEF Detected, FlowFrame, jobVars, pollVars, recordVars, guardVars
<1>1. CASE flows' = flows \ {f} /\ tracking' = tracking
  <2>1. OneWriter' /\ NewestCopy' /\ NotAhead'
    BY <1>0, <1>1, WritersKept DEF FlowFrame
  <2>3. /\ PollTyped' /\ GotTyped' /\ FlowsTyped' /\ StartsTyped' /\ QuietAfterStop' /\ HandedOnce'
        /\ Round'
    BY <1>0, <1>1, FlowEnds
  <2> QED
    BY <1>0, <1>1, <2>1, <2>3, TablesKept
<1>2. CASE /\ TrackedFor(f.lib, f.job) /\ FlowAt(f, "seen")
           /\ tracking' = [tracking EXCEPT ![f.lib].state = "running", ![f.lib].seen = TRUE]
  <2>1. f.lib \in Libraries /\ tracking[f.lib] \in TrackRecords
    BY <1>2, TrackedHasRecord DEF TrackedFor, Tracked
  <2> DEFINE rec == [tracking[f.lib] EXCEPT !.state = "running", !.seen = TRUE]
  <2>2. tracking' = [tracking EXCEPT ![f.lib] = rec]
    BY <1>2, <2>1 DEF TrackTyped
  <2>3. rec \in TrackRecords /\ rec.job = tracking[f.lib].job
    BY <2>1 DEF TrackRecords, ScanStates
  <2> HIDE DEF rec
  <2>4. TrackTyped' /\ (\A l \in Libraries : l \in Tracked' <=> l \in Tracked)
        /\ (\A l \in Tracked : tracking'[l].job = tracking[l].job)
    <3>1. rec # NoScan /\ tracking[f.lib] # NoScan
      BY <2>1, <2>3, TracksAreRecords
    <3>2. tracking' \in [Libraries -> TrackRecords \cup {NoScan}]
          /\ \A l \in Libraries : l # f.lib => tracking'[l] = tracking[l]
      BY <2>1, <2>2, <2>3 DEF TrackTyped
    <3>3. tracking'[f.lib] = rec
      BY <2>1, <2>2 DEF TrackTyped
    <3>4. TrackTyped'
      BY <1>0, <3>2 DEF TrackTyped, TrackRecords, JobIds, FlowFrame
    <3>5. \A l \in Libraries : l \in Tracked' <=> l \in Tracked
      BY <3>1, <3>2, <3>3 DEF Tracked
    <3>6. \A l \in Tracked : tracking'[l].job = tracking[l].job
      BY <2>3, <3>2, <3>3 DEF Tracked
    <3> QED
      BY <3>4, <3>5, <3>6
  <2>5. JobsTyped' /\ RecordsTyped' /\ GuardsTyped'
    BY <1>0 DEF JobsTyped, RecordsTyped, GuardsTyped, JobIds, FlowFrame
  <2>6. \A g \in flows' : g.at = "seen" \/ g \in flows
    BY <1>0, <1>2, <2>4, FlowAtKeeps DEF FlowPlaces
  <2>7. OneWriter' /\ NewestCopy' /\ NotAhead'
    BY <1>0, <2>6, WritersKept DEF FlowFrame
  <2> QED
    BY <1>0, <1>2, <2>4, <2>5, <2>7, FlowAtKeeps DEF FlowPlaces
<1> QED
  BY <1>1, <1>2 DEF Detected

\* While a write is left behind nothing is tracked.
LEMMA NothingTrackedBehind ==
  ASSUME ScanInv, NEW f \in orphans, f.at = "writing"
  PROVE  Tracked = {}
BY DEF ScanInv, OneWriter, GuardsTyped, QuietAfterStop

LEMMA TakeSnapshotKeeps ==
  ASSUME ScanInv, NEW f \in flows, TakeSnapshot(f)
  PROVE  ScanInv'
<1> USE DEF ScanInv
<1>0. /\ FlowFrame /\ UNCHANGED <<jobs, tracking, saved, wiped>> /\ LaneFree
      /\ f \in FlowRecords /\ f.lib \in Libraries
  BY DEF TakeSnapshot, FlowFrame, jobVars, pollVars, guardVars, FlowsTyped, FlowRecords
<1>1. (\A l \in Libraries : l \in Tracked' <=> l \in Tracked)
      /\ (\A l \in Tracked : tracking'[l].job = tracking[l].job)
  BY <1>0 DEF Tracked
<1>2. CASE Done(f) /\ revision' = revision
  <2>1. OneWriter' /\ NewestCopy' /\ NotAhead'
    BY <1>0, <1>2, WritersKept DEF FlowFrame, Done
  <2> QED
    BY <1>0, <1>2, <2>1, FlowIsDone, TablesKept
<1>3. CASE ~(Done(f) /\ revision' = revision)
  <2> DEFINE rev == revision[f.lib] + 1
             snap == [job |-> tracking[f.lib].job, state |-> tracking[f.lib].state, rev |-> rev]
             g == [f EXCEPT !.at = "writing", !.snap = snap]
  <2>1. /\ f.lib \in Tracked /\ cleanups' = cleanups /\ revision' = [revision EXCEPT ![f.lib] = rev]
        /\ flows' = (flows \ {f}) \cup {g}
    BY <1>3 DEF TakeSnapshot
  <2>2. revision[f.lib] \in Nat /\ rev \in Nat /\ rev > revision[f.lib] /\ snap.rev = rev
    BY <1>0 DEF RecordsTyped
  <2> HIDE DEF rev
  <2>3. snap \in Snapshot
    <3>1. tracking[f.lib] \in TrackRecords
      BY <1>0, <2>1, TrackedHasRecord
    <3>2. JobIds \subseteq 1..MaxJobs
      BY ScanBoundAssumption DEF JobsTyped, JobIds
    <3> QED
      BY <2>2, <3>1, <3>2 DEF Snapshot, TrackRecords, ScanStates
  <2> HIDE DEF snap
  <2>4. /\ g \in FlowRecords /\ g.at = "writing" /\ g.snap = snap
        /\ g.job = f.job /\ g.lib = f.lib /\ g.by = f.by /\ g.cleanup = f.cleanup
    BY <1>0, <2>3 DEF FlowRecords
  <2> HIDE DEF g
  <2>5. PollTyped' /\ GotTyped' /\ FlowsTyped' /\ StartsTyped' /\ QuietAfterStop' /\ HandedOnce' /\ Round'
    BY <1>0, <1>1, <2>1, <2>4, FlowGoesOn
  <2>6. JobsTyped' /\ TrackTyped' /\ GuardsTyped'
    BY <1>0 DEF FlowFrame, JobsTyped, TrackTyped, GuardsTyped, JobIds, TrackRecords
  <2>7. /\ revision' \in [Libraries -> Nat] /\ revision'[f.lib] = rev
        /\ \A l \in Libraries : l # f.lib => revision'[l] = revision[l]
    BY <1>0, <2>1, <2>2 DEF RecordsTyped
  <2>8. RecordsTyped'
    BY <1>0, <2>7 DEF RecordsTyped
  <2>9. \A l \in Libraries : saved[l] # NoScan => saved[l].rev \in Nat
    BY DEF RecordsTyped, Snapshot
  <2>10. wiped \in [Libraries -> Nat]
    BY DEF RecordsTyped
  <2>11. \A h \in flows' \cup orphans' : h.at = "writing" => h = g
    BY <1>0, <2>1, NothingTrackedBehind DEF LaneFree, FlowFrame
  <2>12. \A h \in orphans' : h.at # "writing"
    BY <1>0, <2>1, NothingTrackedBehind DEF FlowFrame
  <2>13. OneWriter'
    BY <2>11, <2>12 DEF OneWriter
  <2>14. snap.rev > wiped'[f.lib] /\ (saved'[f.lib] # NoScan => snap.rev > saved'[f.lib].rev)
    BY <1>0, <2>2, <2>9, <2>10 DEF NotAhead
  <2>15. NewestCopy'
    BY <2>2, <2>3, <2>4, <2>7, <2>11, <2>14 DEF NewestCopy, Snapshot
  <2>16. NotAhead'
    <3> SUFFICES ASSUME NEW l \in Libraries
                 PROVE  wiped'[l] <= revision'[l] /\ (saved'[l] # NoScan => saved'[l].rev <= revision'[l])
      BY DEF NotAhead
    <3>1. wiped[l] <= revision[l] /\ (saved[l] # NoScan => saved[l].rev <= revision[l])
          /\ revision[l] <= revision'[l] /\ revision[l] \in Nat /\ revision'[l] \in Nat /\ wiped[l] \in Nat
      BY <2>2, <2>7, <2>10 DEF NotAhead, RecordsTyped
    <3> QED
      BY <1>0, <2>9, <3>1
  <2> QED
    BY <2>5, <2>6, <2>8, <2>13, <2>15, <2>16
<1> QED
  BY <1>2, <1>3

\* What is written is the copy itself.
LEMMA KeptIsNewest ==
  ASSUME ScanInv, NEW f \in flows \cup orphans, f.at = "writing"
  PROVE  Kept(f.lib, f.snap) = f.snap /\ f.lib \in Libraries
<1>1. f.lib \in Libraries
  BY DEF ScanInv, FlowsTyped, FlowRecords
<1>2. f.snap.rev \in Nat /\ (saved[f.lib] # NoScan => saved[f.lib].rev \in Nat /\ f.snap.rev > saved[f.lib].rev)
  BY <1>1 DEF ScanInv, NewestCopy, RecordsTyped, Snapshot
<1> QED
  BY <1>1, <1>2 DEF Kept

\* The one write is over.
LEMMA WriteOver ==
  ASSUME ScanInv, NEW f \in flows \cup orphans, f.at = "writing",
         saved' = saved \/ saved' = [saved EXCEPT ![f.lib] = Kept(f.lib, f.snap)],
         \A g \in flows' \cup orphans' : g.at # "writing", UNCHANGED <<revision, wiped>>
  PROVE  RecordsTyped' /\ OneWriter' /\ NewestCopy' /\ NotAhead'
<1> USE DEF ScanInv
<1>1. saved' = saved \/ saved' = [saved EXCEPT ![f.lib] = f.snap]
  BY KeptIsNewest
<1>2. f.lib \in Libraries /\ f.snap \in Snapshot /\ f.snap.rev = revision[f.lib]
  BY KeptIsNewest DEF NewestCopy
<1>3. RecordsTyped'
  BY <1>1, <1>2 DEF RecordsTyped
<1>4. NotAhead'
  <2> SUFFICES ASSUME NEW l \in Libraries
               PROVE  wiped'[l] <= revision'[l] /\ (saved'[l] # NoScan => saved'[l].rev <= revision'[l])
    BY DEF NotAhead
  <2>1. saved'[l] = saved[l] \/ (l = f.lib /\ saved'[l] = f.snap)
    BY <1>1, <1>2 DEF RecordsTyped
  <2>2. revision[l] \in Nat
    BY DEF RecordsTyped
  <2> QED
    BY <1>2, <2>1, <2>2 DEF NotAhead
<1>5. OneWriter' /\ NewestCopy'
  BY DEF OneWriter, NewestCopy
<1> QED
  BY <1>3, <1>4, <1>5

LEMMA WriteRecordKeeps ==
  ASSUME ScanInv, NEW f \in flows, WriteRecord(f)
  PROVE  ScanInv'
<1> USE DEF ScanInv
<1>0. FlowFrame /\ UNCHANGED <<jobs, tracking, revision, wiped>> /\ f.at = "writing" /\ Done(f)
  BY DEF WriteRecord, FlowFrame, jobVars, pollVars, guardVars
<1>1. \A g \in flows' \cup orphans' : g.at # "writing"
  BY <1>0 DEF OneWriter, Done, FlowFrame
<1>2. RecordsTyped' /\ OneWriter' /\ NewestCopy' /\ NotAhead'
  BY <1>0, <1>1, WriteOver DEF WriteRecord
<1>3. JobsTyped' /\ TrackTyped' /\ GuardsTyped'
  BY <1>0 DEF FlowFrame, JobsTyped, TrackTyped, GuardsTyped, JobIds, TrackRecords
<1> QED
  BY <1>0, <1>2, <1>3, FlowIsDone

LEMMA OrphanEndsKeeps ==
  ASSUME ScanInv, NEW f \in orphans, OrphanEnds(f)
  PROVE  ScanInv'
<1> USE DEF ScanInv
<1>0. /\ UNCHANGED <<jobCount, asking, handed, tracking, aged, poller, got, todo, errors, doomed, flows,
                     cleanups, revision, wiped, gen, life, blocked, fencing>>
      /\ orphans' = orphans \ {f} /\ f \in FlowRecords
  BY DEF OrphanEnds, pollVars, guardVars, FlowsTyped
<1>1. JobsTyped'
  <2>1. f.job \in JobIds /\ f.lib \in Libraries /\ f.status \in LibraryStatus
    BY <1>0 DEF FlowRecords
  <2>2. jobs' = jobs \/ jobs' = JobsTold(f.job, f.lib, f.status)
    BY DEF OrphanEnds
  <2>3. jobs' \in [JobIds -> JobRecords]
    BY <2>1, <2>2, JobsToldTyped DEF JobsTyped
  <2> QED
    BY <1>0, <2>3 DEF JobsTyped, JobIds
<1>2. StartsTyped' /\ TrackTyped' /\ PollTyped' /\ GotTyped' /\ FlowsTyped' /\ GuardsTyped' /\ QuietAfterStop'
  BY <1>0 DEF StartsTyped, Starts, TrackTyped, PollTyped, GotTyped, FlowsTyped, TrackRecords,
     Updates, Drops,
              FlowRecords, JobIds, GuardsTyped, QuietAfterStop, Tracked
<1>3. HandedOnce'
  <2>1. \A j, l : Mentions(j, l)' <=> Mentions(j, l)
    BY <1>0 DEF Mentions, TrackedFor, Tracked
  <2> QED
    BY <1>0, <2>1, HandedOnceKept
<1>4. Round'
  BY <1>0 DEF Round, OfPoller, NotDropped, TrackedFor, Tracked
<1>5. CASE f.at = "writing"
  <2>1. \A g \in flows' \cup orphans' : g.at # "writing"
    BY <1>0, <1>5 DEF OneWriter
  <2>2. RecordsTyped' /\ OneWriter' /\ NewestCopy' /\ NotAhead'
    BY <1>0, <1>5, <2>1, WriteOver DEF OrphanEnds
  <2> QED
    BY <1>1, <1>2, <1>3, <1>4, <2>2
<1>6. CASE f.at # "writing"
  <2>1. saved' = saved
    BY <1>6 DEF OrphanEnds
  <2>2. OneWriter' /\ NewestCopy' /\ NotAhead'
    BY <1>0, <2>1, WritersKept
  <2>3. RecordsTyped'
    BY <1>0, <2>1 DEF RecordsTyped
  <2> QED
    BY <1>1, <1>2, <1>3, <1>4, <2>2, <2>3
<1> QED
  BY <1>5, <1>6

-----------------------------------------------------------------------------

\* What every step of the poller leaves alone.
PollFrame ==
  UNCHANGED <<jobs, jobCount, asking, handed, orphans, revision, saved, wiped, gen, life, blocked, fencing>>

LEMMA PollFrameKeeps ==
  ASSUME ScanInv, PollFrame, \A f \in flows' : f.at = "writing" => f \in flows
  PROVE  JobsTyped' /\ StartsTyped' /\ RecordsTyped' /\ GuardsTyped' /\ OneWriter' /\ NewestCopy' /\ NotAhead'
<1> USE DEF ScanInv, PollFrame
<1>1. JobsTyped' /\ StartsTyped' /\ RecordsTyped' /\ GuardsTyped'
  BY DEF JobsTyped, StartsTyped, Starts, RecordsTyped, GuardsTyped, JobIds
<1>2. OneWriter' /\ NewestCopy' /\ NotAhead'
  BY WritersKept
<1> QED
  BY <1>1, <1>2

LEMMA MentionsKept ==
  ASSUME ScanInv, PollFrame,
         \A j \in JobIds, l \in Libraries : Mentions(j, l)' => Mentions(j, l)
  PROVE  HandedOnce'
BY HandedOnceKept DEF ScanInv, PollFrame

LEMMA TracksOnly ==
  ASSUME ScanInv, UNCHANGED <<jobCount, tracking, aged>>
  PROVE  TrackTyped' /\ Tracked' = Tracked /\ (\A l, j : TrackedFor(l, j)' <=> TrackedFor(l, j))
BY DEF ScanInv, TrackTyped, TrackRecords, JobIds, Tracked, TrackedFor

LEMMA AgesKeeps ==
  ASSUME ScanInv, NEW l \in Libraries, Ages(l)
  PROVE  ScanInv'
<1> USE DEF ScanInv
<1>0. /\ PollFrame /\ UNCHANGED <<tracking, poller, got, todo, errors, doomed, flows, cleanups>>
      /\ aged' = [aged EXCEPT ![l] = TRUE]
  BY DEF Ages, PollFrame, jobVars, pollVars, recordVars, guardVars
<1>1. TrackTyped' /\ PollTyped' /\ GotTyped' /\ FlowsTyped' /\ QuietAfterStop'
  BY <1>0 DEF TrackTyped, PollTyped, GotTyped, FlowsTyped, QuietAfterStop, TrackRecords,
     Updates, Drops,
              FlowRecords, JobIds, Tracked, PollFrame
<1>2. HandedOnce' /\ Round'
  <2>1. \A j, m : Mentions(j, m)' <=> Mentions(j, m)
    BY <1>0 DEF Mentions, TrackedFor, Tracked
  <2>2. Round'
    BY <1>0 DEF Round, OfPoller, NotDropped, TrackedFor, Tracked
  <2> QED
    BY <1>0, <2>1, <2>2, MentionsKept
<1> QED
  BY <1>0, <1>1, <1>2, PollFrameKeeps

LEMMA PollAsksKeeps ==
  ASSUME ScanInv, NEW L \in SUBSET Libraries, PollAsks(L)
  PROVE  ScanInv'
<1> USE DEF ScanInv
<1>0. /\ PollFrame /\ UNCHANGED <<tracking, aged, todo, errors, doomed, flows, cleanups>>
      /\ poller = "sleep" /\ L # {} /\ L \subseteq Tracked /\ \A c \in cleanups : ~TrackedFor(c.lib, c.job)
      /\ poller' = "asked" /\ got' = [l \in L |-> "pending"]
  BY DEF PollAsks, PollFrame, jobVars, recordVars, guardVars
<1>1. TrackTyped' /\ Tracked' = Tracked /\ (\A l, j : TrackedFor(l, j)' <=> TrackedFor(l, j))
  BY <1>0, TracksOnly DEF PollFrame
<1>2. PollTyped' /\ FlowsTyped' /\ QuietAfterStop'
  BY <1>0, <1>1 DEF PollTyped, FlowsTyped, QuietAfterStop, Updates, Drops, FlowRecords, JobIds,
     PollFrame
<1>3. GotTyped'
  <2>1. DOMAIN got' = L /\ \A l \in L : got'[l] = "pending"
    BY <1>0
  <2> QED
    BY <1>0, <2>1 DEF GotTyped
<1>4. HandedOnce'
  <2>1. \A j, m : Mentions(j, m)' => Mentions(j, m)
    BY <1>0, <1>1 DEF Mentions
  <2> QED
    BY <1>0, <2>1, MentionsKept
<1>5. Round'
  BY <1>0, <1>1 DEF Round, OfPoller
<1> QED
  BY <1>0, <1>1, <1>2, <1>3, <1>4, <1>5, PollFrameKeeps

LEMMA PollAnsweredKeeps ==
  ASSUME ScanInv, PollAnswered
  PROVE  ScanInv'
<1> USE DEF ScanInv
<1>0. /\ PollFrame /\ UNCHANGED <<tracking, aged, todo, errors, doomed, flows, cleanups>>
      /\ poller = "asked" /\ poller' = "answered" /\ got' \in [DOMAIN got -> FolderAnswers]
  BY DEF PollAnswered, PollFrame, jobVars, recordVars, guardVars
<1>1. TrackTyped' /\ Tracked' = Tracked /\ (\A l, j : TrackedFor(l, j)' <=> TrackedFor(l, j))
  BY <1>0, TracksOnly DEF PollFrame
<1>2. PollTyped' /\ FlowsTyped' /\ QuietAfterStop'
  BY <1>0, <1>1 DEF PollTyped, FlowsTyped, QuietAfterStop, Updates, Drops, FlowRecords, JobIds,
     PollFrame
<1>3. GotTyped'
  <2>1. DOMAIN got' = DOMAIN got /\ \A l \in DOMAIN got : got'[l] \in FolderAnswers
    BY <1>0
  <2> QED
    BY <1>0, <2>1 DEF GotTyped
<1>4. HandedOnce'
  <2>1. \A j, m : Mentions(j, m)' => Mentions(j, m)
    BY <1>0, <1>1 DEF Mentions
  <2> QED
    BY <1>0, <2>1, MentionsKept
<1>5. Round'
  <2>1. \A c \in cleanups : ~TrackedFor(c.lib, c.job)
    BY <1>0 DEF Round
  <2> QED
    BY <1>0, <1>1, <2>1 DEF Round, OfPoller
<1> QED
  BY <1>0, <1>1, <1>2, <1>3, <1>4, <1>5, PollFrameKeeps

LEMMA StateAfterTyped ==
  ASSUME ScanInv, poller = "answered", NEW l \in DOMAIN got \cap Tracked
  PROVE  StateAfter(l) \in ScanStates
<1>1. tracking[l] \in TrackRecords /\ got[l] \in FolderAnswers
  BY TrackedHasRecord DEF ScanInv, GotTyped, Tracked
<1>2. tracking[l].state \in ScanStates
  BY <1>1 DEF TrackRecords
<1> QED
  BY <1>1, <1>2 DEF StateAfter, FolderAnswers, ScanStates, Over

\* An update of a tracked library, and what it mentions.
LEMMA UpdateOfTyped ==
  ASSUME ScanInv, NEW l \in Tracked, NEW state \in ScanStates
  PROVE  /\ UpdateOf(l, state) \in Updates
         /\ UpdateOf(l, state).lib = l /\ UpdateOf(l, state).job = tracking[l].job
         /\ [UpdateOf(l, state) EXCEPT !.cleanup = FALSE] \in Updates
         /\ [UpdateOf(l, state) EXCEPT !.cleanup = FALSE].lib = l
         /\ [UpdateOf(l, state) EXCEPT !.cleanup = FALSE].job = tracking[l].job
<1>1. l \in Libraries /\ tracking[l] \in TrackRecords
  BY TrackedHasRecord DEF ScanInv, Tracked
<1>2. tracking[l].job \in JobIds
  BY <1>1 DEF TrackRecords
<1>3. Reported(state) \in LibraryStatus /\ (state \in Over) \in BOOLEAN
  BY DEF Reported, LibraryStatus, ScanStates, Over
<1> QED
  BY <1>1, <1>2, <1>3 DEF UpdateOf, Updates

\* The states of tracked libraries change, and nothing else of them.
LEMMA StatesChange ==
  ASSUME ScanInv, jobCount' = jobCount, NEW L \in SUBSET Tracked, NEW new \in [L -> TrackRecords],
         \A l \in L : new[l].job = tracking[l].job,
         tracking' = [l \in Libraries |-> IF l \in L THEN new[l] ELSE tracking[l]],
         aged' \in [Libraries -> BOOLEAN]
  PROVE  TrackTyped' /\ Tracked' = Tracked /\ (\A l, j : TrackedFor(l, j)' <=> TrackedFor(l, j))
<1> USE DEF ScanInv
<1>1. \A l \in L : l \in Libraries /\ tracking[l] # NoScan /\ new[l] # NoScan
  BY TracksAreRecords DEF Tracked
<1>2. TrackTyped'
  BY DEF TrackTyped, TrackRecords, JobIds
<1>3. \A l \in Libraries : tracking'[l] = IF l \in L THEN new[l] ELSE tracking[l]
  OBVIOUS
<1>4. Tracked' = Tracked
  BY <1>1, <1>3 DEF Tracked
<1>5. \A l \in Tracked : tracking'[l].job = tracking[l].job
  BY <1>3 DEF Tracked
<1> QED
  BY <1>2, <1>4, <1>5 DEF TrackedFor

LEMMA PollAppliesKeeps ==
  ASSUME ScanInv, NEW P \in SUBSET Libraries, PollApplies(P)
  PROVE  ScanInv'
<1> USE DEF ScanInv
<1> DEFINE L == DOMAIN got \cap Tracked
           changed == {l \in L : StateAfter(l) # tracking[l].state}
           new == [l \in L |-> [tracking[l] EXCEPT !.state = StateAfter(l),
                                                   !.seen = @ \/ got[l] = "refreshing"]]
<1>0. /\ PollFrame /\ UNCHANGED <<doomed, flows, cleanups>>
      /\ poller = "answered" /\ poller' = "dispatch" /\ got' = <<>> /\ errors' = 0
      /\ P \subseteq L
      /\ tracking' = [l \in Libraries |->
           IF l \notin L THEN tracking[l]
           ELSE [tracking[l] EXCEPT !.state = StateAfter(l), !.seen = @ \/ got[l] = "refreshing"]]
      /\ aged' = [l \in Libraries |-> aged[l] /\ ~(l \in changed /\ StateAfter(l) = "running")]
      /\ todo' = {UpdateOf(l, StateAfter(l)) : l \in changed \cup P}
  BY DEF PollApplies, PollFrame, jobVars, recordVars, guardVars
<1>1. \A l \in L : StateAfter(l) \in ScanStates
  BY <1>0, StateAfterTyped
<1>2. \A l \in L : new[l] \in TrackRecords /\ new[l].job = tracking[l].job
  <2> SUFFICES ASSUME NEW l \in L PROVE new[l] \in TrackRecords /\ new[l].job = tracking[l].job
    OBVIOUS
  <2>1. tracking[l] \in TrackRecords
    BY TrackedHasRecord DEF Tracked
  <2> HIDE DEF L
  <2> QED
    BY <1>1, <2>1 DEF TrackRecords
<1>3. tracking' = [l \in Libraries |-> IF l \in L THEN new[l] ELSE tracking[l]]
  BY <1>0
<1>4. changed \cup P \subseteq L /\ L \subseteq Tracked /\ L \subseteq Libraries
  BY <1>0 DEF Tracked
<1>5. new \in [L -> TrackRecords]
  BY <1>2
<1>6. aged' \in [Libraries -> BOOLEAN]
  BY <1>0 DEF TrackTyped
<1> HIDE DEF L, changed, new
<1>7. TrackTyped' /\ Tracked' = Tracked /\ (\A l, j : TrackedFor(l, j)' <=> TrackedFor(l, j))
  BY <1>0, <1>2, <1>3, <1>4, <1>5, <1>6, StatesChange DEF PollFrame
<1>8. \A u \in todo' : /\ u \in Updates /\ u.lib \in L /\ u.job = tracking[u.lib].job
                       /\ u = UpdateOf(u.lib, StateAfter(u.lib))
  <2>1. \A l \in L : /\ UpdateOf(l, StateAfter(l)) \in Updates /\ UpdateOf(l, StateAfter(l)).lib = l
                     /\ UpdateOf(l, StateAfter(l)).job = tracking[l].job
    BY <1>1, <1>4, UpdateOfTyped
  <2>2. todo' = {UpdateOf(l, StateAfter(l)) : l \in changed \cup P}
    BY <1>0
  <2> HIDE DEF UpdateOf, StateAfter
  <2> QED
    BY <1>4, <2>1, <2>2
<1>9. PollTyped' /\ FlowsTyped' /\ GotTyped' /\ QuietAfterStop'
  <2>1. PollTyped'
    <3>1. todo' \subseteq Updates
      BY <1>8
    <3>2. poller' = "dispatch" /\ errors' = 0 /\ UNCHANGED <<doomed, cleanups, jobCount>>
      BY <1>0 DEF PollFrame
    <3> QED
      BY <3>1, <3>2, ScanBoundAssumption DEF PollTyped, Updates, Drops, JobIds
  <2>2. FlowsTyped' /\ QuietAfterStop'
    BY <1>0, <1>7 DEF FlowsTyped, QuietAfterStop, FlowRecords, JobIds, PollFrame
  <2>3. GotTyped'
    <3>1. got' = <<>> /\ poller' = "dispatch"
      BY <1>0
    <3>2. DOMAIN got' = {}
      BY <3>1
    <3> QED
      BY <3>2 DEF GotTyped
  <2> QED
    BY <2>1, <2>2, <2>3
<1>10. HandedOnce'
  <2>1. \A u \in todo' : TrackedFor(u.lib, u.job)
    BY <1>4, <1>8 DEF TrackedFor
  <2>2. \A j, m : Mentions(j, m)' => Mentions(j, m)
    BY <1>0, <1>7, <2>1 DEF Mentions
  <2> QED
    BY <1>0, <2>2, MentionsKept
<1>11. Round'
  <2>1. OfPoller' = {}
    BY <1>0 DEF Round, OfPoller
  <2>2. \A u \in todo' : NotDropped(u.lib)'
    BY <1>0, <1>4, <1>7, <1>8 DEF Round, NotDropped
  <2>3. \A u, v \in todo' : u.lib = v.lib => u = v
    BY <1>8
  <2> QED
    BY <1>0, <2>1, <2>2, <2>3 DEF Round
<1> QED
  BY <1>0, <1>7, <1>9, <1>10, <1>11, PollFrameKeeps

LEMMA PollPublishesKeeps ==
  ASSUME ScanInv, NEW u \in todo, PollPublishes(u)
  PROVE  ScanInv'
<1> USE DEF ScanInv
<1> DEFINE flow == [by |-> "poller", at |-> "seen", job |-> u.job, lib |-> u.lib, gen |-> gen,
                    status |-> u.status, cleanup |-> u.cleanup, snap |-> NoScan]
<1>0. /\ PollFrame /\ UNCHANGED <<tracking, aged, poller, got, errors, doomed, cleanups>>
      /\ poller \in {"dispatch", "dying"} /\ \A f \in flows : f.by # "poller"
      /\ todo' = todo \ {u} /\ flows' = flows \cup {flow}
  BY DEF PollPublishes, PollFrame, jobVars, recordVars, guardVars
<1>1. /\ flow \in FlowRecords /\ flow.job = u.job /\ flow.lib = u.lib /\ flow.by = "poller" /\ flow.at = "seen"
      /\ u.lib \in Libraries
  <2>1. u \in Updates /\ gen \in Nat
    BY DEF PollTyped, StartsTyped
  <2> QED
    BY <2>1 DEF Updates, FlowRecords
<1> HIDE DEF flow
<1>2. TrackTyped' /\ Tracked' = Tracked /\ (\A l, j : TrackedFor(l, j)' <=> TrackedFor(l, j))
  BY <1>0, TracksOnly DEF PollFrame
<1>3. PollTyped' /\ GotTyped' /\ QuietAfterStop'
  BY <1>0, <1>2 DEF PollTyped, GotTyped, QuietAfterStop, Updates, Drops, JobIds, PollFrame
<1>4. FlowsTyped'
  BY <1>0, <1>1 DEF FlowsTyped, FlowRecords, JobIds, PollFrame
<1>5. HandedOnce'
  <2>1. \A j, m : Mentions(j, m)' => Mentions(j, m)
    BY <1>0, <1>1, <1>2 DEF Mentions
  <2> QED
    BY <1>0, <2>1, MentionsKept
<1>6. Round'
  <2>1. OfPoller' = {flow}
    BY <1>0, <1>1 DEF OfPoller
  <2>2. \A l : NotDropped(l) => NotDropped(l)'
    BY <1>0, <1>2 DEF NotDropped
  <2>3. NotDropped(u.lib)' /\ \A v \in todo' : NotDropped(v.lib)'
    BY <1>0, <2>2 DEF Round
  <2>4. \A v \in todo' : v.lib # u.lib
    BY <1>0 DEF Round
  <2>5. \A f \in OfPoller' : f.lib = u.lib
    BY <1>1, <2>1
  <2>6. \A f, g \in OfPoller' : f = g
    BY <2>1
  <2>7. poller' = poller /\ todo' \subseteq todo
    BY <1>0
  <2>8. \A v, w \in todo' : v.lib = w.lib => v = w
    BY <2>7 DEF Round
  <2> QED
    BY <1>0, <2>3, <2>4, <2>5, <2>6, <2>7, <2>8 DEF Round
<1> QED
  BY <1>0, <1>1, <1>2, <1>3, <1>4, <1>5, <1>6, PollFrameKeeps

LEMMA PollSleepsKeeps ==
  ASSUME ScanInv, PollSleeps
  PROVE  ScanInv'
<1> USE DEF ScanInv
<1>0. /\ PollFrame /\ UNCHANGED <<tracking, aged, got, todo, errors, doomed, flows, cleanups>>
      /\ poller = "dispatch" /\ Published /\ poller' = "sleep"
  BY DEF PollSleeps, PollFrame, jobVars, recordVars, guardVars
<1>1. TrackTyped' /\ Tracked' = Tracked /\ (\A l, j : TrackedFor(l, j)' <=> TrackedFor(l, j))
  BY <1>0, TracksOnly DEF PollFrame
<1>2. PollTyped' /\ GotTyped' /\ FlowsTyped' /\ QuietAfterStop'
  BY <1>0, <1>1 DEF PollTyped, GotTyped, FlowsTyped, QuietAfterStop, Updates, Drops,
     FlowRecords, JobIds,
                    PollFrame
<1>3. HandedOnce'
  <2>1. \A j, m : Mentions(j, m)' => Mentions(j, m)
    BY <1>0, <1>1 DEF Mentions
  <2> QED
    BY <1>0, <2>1, MentionsKept
<1>4. Round'
  BY <1>0 DEF Round, OfPoller, Published
<1> QED
  BY <1>0, <1>1, <1>2, <1>3, <1>4, PollFrameKeeps

LEMMA PollFailsKeeps ==
  ASSUME ScanInv, PollFails
  PROVE  ScanInv'
<1> USE DEF ScanInv
<1>0. /\ PollFrame /\ UNCHANGED <<aged, flows, cleanups>> /\ poller = "asked" /\ got' = <<>>
  BY DEF PollFails, PollFrame, jobVars, recordVars, guardVars
<1>1. GotTyped' /\ FlowsTyped'
  BY <1>0 DEF GotTyped, FlowsTyped, FlowRecords, JobIds, PollFrame
<1>2. CASE errors + 1 < MaxErrors
  <2>1. poller' = "sleep" /\ errors' = errors + 1 /\ UNCHANGED <<tracking, todo, doomed>>
    BY <1>2 DEF PollFails
  <2>2. TrackTyped' /\ Tracked' = Tracked /\ (\A l, j : TrackedFor(l, j)' <=> TrackedFor(l, j))
    BY <1>0, <2>1, TracksOnly DEF PollFrame
  <2>3. PollTyped' /\ QuietAfterStop'
    BY <1>0, <1>2, <2>1, <2>2, ScanBoundAssumption DEF PollTyped, QuietAfterStop, Updates,
       Drops, JobIds, PollFrame
  <2>4. HandedOnce'
    <3>1. \A j, m : Mentions(j, m)' => Mentions(j, m)
      BY <1>0, <2>1, <2>2 DEF Mentions
    <3> QED
      BY <1>0, <3>1, MentionsKept
  <2>5. Round'
    BY <1>0, <2>1 DEF Round, OfPoller
  <2> QED
    BY <1>0, <1>1, <2>2, <2>3, <2>4, <2>5, PollFrameKeeps
<1>3. CASE ~(errors + 1 < MaxErrors)
  <2> DEFINE L == {l \in Tracked : tracking[l].state \notin Over}
             new == [l \in L |-> [tracking[l] EXCEPT !.state = "error"]]
             drop(l) == [job |-> tracking[l].job, lib |-> l]
             update(l) == [UpdateOf(l, "error") EXCEPT !.cleanup = FALSE]
  <2>1. /\ poller' = "dying" /\ errors' = MaxErrors
        /\ tracking' = [l \in Libraries |-> IF l \in L THEN [tracking[l] EXCEPT !.state = "error"]
                                            ELSE tracking[l]]
        /\ todo' = {update(l) : l \in L} /\ doomed' = {drop(l) : l \in L}
    BY <1>3 DEF PollFails
  <2>2. L \subseteq Tracked /\ L \subseteq Libraries
    BY DEF Tracked
  <2>3. \A l \in L : new[l] \in TrackRecords /\ new[l].job = tracking[l].job
    <3> SUFFICES ASSUME NEW l \in L PROVE new[l] \in TrackRecords /\ new[l].job = tracking[l].job
      OBVIOUS
    <3>1. tracking[l] \in TrackRecords
      BY TrackedHasRecord DEF Tracked
    <3> HIDE DEF L
    <3> QED
      BY <3>1 DEF TrackRecords, ScanStates, Over
  <2>4. new \in [L -> TrackRecords]
    BY <2>3
  <2>5. tracking' = [l \in Libraries |-> IF l \in L THEN new[l] ELSE tracking[l]]
    BY <2>1
  <2>6. aged' \in [Libraries -> BOOLEAN]
    BY <1>0 DEF TrackTyped
  <2> HIDE DEF new
  <2>7. \A l \in L : /\ update(l) \in Updates /\ update(l).lib = l /\ update(l).job = tracking[l].job
    <3> HIDE DEF L
    <3>1. "error" \in ScanStates
      BY DEF ScanStates, Over
    <3> QED
      BY <2>2, <3>1, UpdateOfTyped
  <2>8. \A l \in L : TrackedFor(l, tracking[l].job) /\ drop(l).lib = l /\ drop(l).job = tracking[l].job
                     /\ drop(l) \in Drops
    <3> SUFFICES ASSUME NEW l \in L PROVE TrackedFor(l, tracking[l].job) /\ drop(l) \in Drops
      OBVIOUS
    <3>1. tracking[l] \in TrackRecords /\ l \in Libraries
      BY TrackedHasRecord DEF Tracked
    <3> QED
      BY <3>1 DEF TrackedFor, Drops, TrackRecords
  <2> HIDE DEF L, drop, update
  <2>9. TrackTyped' /\ Tracked' = Tracked /\ (\A l, j : TrackedFor(l, j)' <=> TrackedFor(l, j))
    BY <1>0, <2>2, <2>3, <2>4, <2>5, <2>6, StatesChange DEF PollFrame
  <2>10. PollTyped' /\ QuietAfterStop'
    <3>1. todo' \subseteq Updates /\ doomed' \subseteq Drops
      BY <2>1, <2>7, <2>8
    <3>2. PollTyped'
      BY <1>0, <2>1, <3>1, ScanBoundAssumption DEF PollTyped, Updates, Drops, JobIds, PollFrame
    <3> QED
      BY <1>0, <2>9, <3>2 DEF QuietAfterStop, PollFrame
  <2>11. HandedOnce'
    <3>1. \A u \in todo' : TrackedFor(u.lib, u.job)
      BY <2>1, <2>7, <2>8
    <3>2. \A c \in doomed' : TrackedFor(c.lib, c.job)
      BY <2>1, <2>8
    <3>3. \A j, m : Mentions(j, m)' => Mentions(j, m)
      BY <1>0, <2>9, <3>1, <3>2 DEF Mentions
    <3> QED
      BY <1>0, <3>3, MentionsKept
  <2>12. Round'
    <3>1. OfPoller' = {}
      BY <1>0 DEF Round, OfPoller
    <3>2. \A u \in todo' : u.lib \in Tracked /\ u = update(u.lib)
      BY <2>1, <2>2, <2>7
    <3>3. \A u \in todo' : NotDropped(u.lib)'
      BY <1>0, <2>9, <3>2 DEF Round, NotDropped
    <3> QED
      BY <2>1, <3>1, <3>2, <3>3 DEF Round
  <2> QED
    BY <1>0, <1>1, <2>9, <2>10, <2>11, <2>12, PollFrameKeeps
<1> QED
  BY <1>2, <1>3

LEMMA PollerLeavesKeeps ==
  ASSUME ScanInv, PollerLeaves
  PROVE  ScanInv'
<1> USE DEF ScanInv
<1>0. /\ PollFrame /\ UNCHANGED <<tracking, aged, got, todo, flows>>
      /\ poller = "dying" /\ Published /\ poller' = "none" /\ errors' = 0 /\ doomed' = {}
      /\ cleanups' = cleanups \cup doomed
  BY DEF PollerLeaves, PollFrame, jobVars, recordVars, guardVars
<1>1. TrackTyped' /\ Tracked' = Tracked /\ (\A l, j : TrackedFor(l, j)' <=> TrackedFor(l, j))
  BY <1>0, TracksOnly DEF PollFrame
<1>2. PollTyped' /\ GotTyped' /\ FlowsTyped' /\ QuietAfterStop'
  BY <1>0, <1>1, ScanBoundAssumption
  DEF PollTyped, GotTyped, FlowsTyped, QuietAfterStop, Updates, Drops, FlowRecords, JobIds, PollFrame
<1>3. HandedOnce'
  <2>1. \A j, m : Mentions(j, m)' => Mentions(j, m)
    BY <1>0, <1>1 DEF Mentions
  <2> QED
    BY <1>0, <2>1, MentionsKept
<1>4. Round'
  BY <1>0 DEF Round, OfPoller, Published
<1> QED
  BY <1>0, <1>1, <1>2, <1>3, <1>4, PollFrameKeeps

-----------------------------------------------------------------------------

LEMMA DropLibraryKeeps ==
  ASSUME ScanInv, NEW c \in cleanups, DropLibrary(c)
  PROVE  ScanInv'
<1> USE DEF ScanInv
<1>0. /\ UNCHANGED <<jobs, jobCount, asking, handed, revision, saved, wiped, gen, life, blocked, fencing>>
      /\ cleanups' = cleanups \ {c}
  BY DEF DropLibrary, jobVars, recordVars, guardVars
<1>1. CASE ~TrackedFor(c.lib, c.job)
  <2>1. UNCHANGED <<tracking, aged, poller, got, todo, errors, doomed, flows, orphans>> /\ PollFrame
    BY <1>0, <1>1 DEF DropLibrary, pollVars, PollFrame
  <2>2. TrackTyped' /\ Tracked' = Tracked /\ (\A l, j : TrackedFor(l, j)' <=> TrackedFor(l, j))
    BY <2>1, TracksOnly DEF PollFrame
  <2>3. PollTyped' /\ GotTyped' /\ FlowsTyped' /\ QuietAfterStop'
    BY <1>0, <2>1, <2>2 DEF PollTyped, GotTyped, FlowsTyped, QuietAfterStop, Updates, Drops,
       FlowRecords, JobIds
  <2>4. HandedOnce'
    <3>1. \A j, m : Mentions(j, m)' => Mentions(j, m)
      BY <1>0, <2>1, <2>2 DEF Mentions
    <3> QED
      BY <2>1, <3>1, MentionsKept
  <2>5. Round'
    <3>1. \A l : NotDropped(l) => NotDropped(l)'
      BY <1>0, <2>2 DEF NotDropped
    <3>2. OfPoller' = OfPoller
      BY <2>1 DEF OfPoller
    <3>3. \A d \in cleanups' : TrackedFor(d.lib, d.job)' => d \in cleanups /\ TrackedFor(d.lib, d.job)
      BY <1>0, <2>2
    <3>4. (\A f \in OfPoller' : \E g \in OfPoller : g.lib = f.lib) /\ (\A f, g \in OfPoller' : f = g)
      BY <3>2 DEF Round
    <3> HIDE DEF NotDropped, OfPoller
    <3> QED
      BY <2>1, <3>1, <3>3, <3>4, RoundKept
  <2> QED
    BY <2>1, <2>2, <2>3, <2>4, <2>5, PollFrameKeeps
<1>2. CASE TrackedFor(c.lib, c.job)
  <2>0. c.lib \in Libraries /\ c.lib \in Tracked
    BY <1>2 DEF TrackedFor, Tracked
  <2>1. tracking' = [tracking EXCEPT ![c.lib] = NoScan] /\ aged' = [aged EXCEPT ![c.lib] = FALSE]
    BY <1>2 DEF DropLibrary
  <2>2. TrackTyped' /\ Tracked' = Tracked \ {c.lib} /\ (\A l \in Libraries : l # c.lib => tracking'[l] = tracking[l])
    <3>1. tracking' \in [Libraries -> TrackRecords \cup {NoScan}] /\ aged' \in [Libraries -> BOOLEAN]
          /\ \A l \in Libraries : tracking'[l] = IF l = c.lib THEN NoScan ELSE tracking[l]
      BY <2>0, <2>1 DEF TrackTyped
    <3>2. TrackTyped'
      BY <1>0, <3>1 DEF TrackTyped, TrackRecords, JobIds
    <3> QED
      BY <3>1, <3>2 DEF Tracked
  <2>3. \A l, j : TrackedFor(l, j)' <=> l # c.lib /\ TrackedFor(l, j)
    BY <2>2 DEF TrackedFor, Tracked
  <2>4. \A l : NotDropped(l) => l # c.lib /\ NotDropped(l)'
    BY <1>0, <1>2, <2>2, <2>3 DEF NotDropped
  \* Who is cancelled with the last library has nothing left to publish.
  <2>5. \/ UNCHANGED <<poller, got, todo, errors, doomed, flows, orphans>>
        \/ /\ poller' = "none" /\ got' = <<>> /\ todo' = {} /\ errors' = 0 /\ doomed' = {}
           /\ UNCHANGED <<flows, orphans>> /\ OfPoller = {}
    <3>1. CASE Tracked = {c.lib}
      <4>1. OfPoller = {}
        <5> SUFFICES ASSUME NEW f \in OfPoller PROVE FALSE
          OBVIOUS
        <5>1. NotDropped(f.lib)
          BY DEF Round
        <5>2. f.lib \in Tracked /\ f.lib # c.lib
          BY <2>4, <5>1 DEF NotDropped
        <5> QED
          BY <3>1, <5>2
      <4>2. flows' = flows \ OfPoller /\ orphans' = orphans \cup {f \in OfPoller : f.at \in InThread}
        BY <1>2, <3>1 DEF DropLibrary, CancelFlows
      <4> QED
        BY <1>2, <3>1, <4>1, <4>2 DEF DropLibrary, CancelPoller
    <3>2. CASE Tracked # {c.lib}
      BY <1>2, <3>2 DEF DropLibrary, pollVars
    <3> QED
      BY <3>1, <3>2
  <2>6. PollFrame /\ flows' = flows
    BY <1>0, <2>5 DEF PollFrame
  <2>7. PollTyped' /\ FlowsTyped'
    BY <1>0, <2>5, <2>6, ScanBoundAssumption DEF PollTyped, FlowsTyped, Updates, Drops,
       FlowRecords, JobIds, PollFrame
  <2>8. GotTyped'
    <3>1. CASE got' = got /\ poller' = poller
      BY <3>1 DEF GotTyped
    <3>2. CASE got' = <<>>
      <4>1. DOMAIN got' = {}
        BY <3>2
      <4> QED
        BY <4>1 DEF GotTyped
    <3> QED
      BY <2>5, <3>1, <3>2
  <2>9. QuietAfterStop'
    BY <1>0, <2>0 DEF QuietAfterStop
  <2>10. HandedOnce'
    <3>1. todo' \subseteq todo /\ doomed' \subseteq doomed
      BY <2>5
    <3>2. \A j, m : Mentions(j, m)' => Mentions(j, m)
      BY <1>0, <2>3, <2>6, <3>1 DEF Mentions
    <3> QED
      BY <2>6, <3>2, MentionsKept
  <2>11. Round'
    <3>1. OfPoller' = OfPoller
      BY <2>6 DEF OfPoller
    <3>2. CASE poller' = poller /\ todo' = todo
      BY <1>0, <2>3, <2>4, <3>1, <3>2, RoundKept DEF Round
    <3>3. CASE poller' = "none" /\ todo' = {} /\ OfPoller = {}
      BY <3>1, <3>3 DEF Round
    <3> QED
      BY <2>5, <3>2, <3>3
  <2> QED
    BY <2>2, <2>6, <2>7, <2>8, <2>9, <2>10, <2>11, PollFrameKeeps
<1> QED
  BY <1>1, <1>2

\* A reset or a stop that begins: everything of the server is dropped.
LEMMA FenceKeeps ==
  ASSUME ScanInv, NEW kind \in {"reset", "stop"}, Fence(kind), fencing' = kind, life' \in {life, life + 1},
         NEW F \in SUBSET flows, OfPoller \subseteq F, CancelFlows(F), cleanups' \subseteq cleanups,
         blocked' \in BOOLEAN, kind = "stop" => blocked', UNCHANGED <<jobVars, handed, recordVars>>
  PROVE  ScanInv'
<1> USE DEF ScanInv
<1>0. /\ UNCHANGED <<jobs, jobCount, asking, handed, revision, saved, wiped>>
      /\ fencing = "none" /\ asking = {} /\ gen' = gen + 1
      /\ tracking' = [l \in Libraries |-> NoScan] /\ aged' = [l \in Libraries |-> FALSE]
      /\ poller' = "none" /\ got' = <<>> /\ todo' = {} /\ errors' = 0 /\ doomed' = {}
      /\ flows' = flows \ F /\ orphans' = orphans \cup {f \in F : f.at \in InThread}
  BY DEF Fence, CancelPoller, CancelFlows, jobVars, recordVars
<1>1. Tracked' = {} /\ OfPoller' = {} /\ \A l, j : ~TrackedFor(l, j)'
  BY <1>0 DEF Tracked, TrackedFor, OfPoller
<1>2. JobsTyped' /\ RecordsTyped' /\ GuardsTyped' /\ QuietAfterStop'
  BY <1>0, <1>1 DEF JobsTyped, RecordsTyped, GuardsTyped, QuietAfterStop, JobIds
<1>3. StartsTyped'
  BY <1>0 DEF StartsTyped, Starts, JobIds
<1>4. TrackTyped' /\ PollTyped'
  BY <1>0, ScanBoundAssumption DEF TrackTyped, PollTyped, Updates, Drops, JobIds
<1>5. GotTyped'
  <2>1. DOMAIN got' = {}
    BY <1>0
  <2> QED
    BY <2>1 DEF GotTyped
<1>6. FlowsTyped'
  BY <1>0 DEF FlowsTyped, FlowRecords, JobIds
<1>7. HandedOnce'
  <2>1. \A j, m : Mentions(j, m)' => Mentions(j, m)
    BY <1>0, <1>1 DEF Mentions
  <2> QED
    BY <1>0, <2>1, HandedOnceKept
<1>8. Round'
  BY <1>0, <1>1 DEF Round
<1>9. OneWriter'
  <2>1. \A f \in orphans' : f.at = "writing" => f \in F /\ fencing' # "none"
    BY <1>0 DEF OneWriter
  <2>2. \A f, g \in flows' \cup orphans' : f.at = "writing" /\ g.at = "writing" => f = g
    BY <1>0 DEF OneWriter
  <2> QED
    BY <1>0, <2>1, <2>2 DEF OneWriter
<1>10. NewestCopy' /\ NotAhead'
  BY <1>0 DEF NewestCopy, NotAhead
<1> QED
  BY <1>2, <1>3, <1>4, <1>5, <1>6, <1>7, <1>8, <1>9, <1>10

LEMMA BeginResetKeeps == ASSUME ScanInv, BeginReset PROVE ScanInv'
<1>1. /\ Fence("reset") /\ fencing' = "reset" /\ life' = life + 1 /\ CancelFlows(flows) /\ cleanups' = {}
      /\ UNCHANGED <<jobVars, handed, recordVars>> /\ blocked' = blocked
  BY DEF BeginReset
<1>2. blocked' \in BOOLEAN
  BY <1>1 DEF ScanInv, GuardsTyped
<1>3. flows \in SUBSET flows /\ OfPoller \subseteq flows
  BY DEF OfPoller
<1>4. "reset" \in {"reset", "stop"} /\ "reset" # "stop" /\ life' \in {life, life + 1} /\ cleanups' \subseteq cleanups
  BY <1>1
<1> HIDE DEF Fence, CancelFlows
<1> QED
  BY <1>1, <1>2, <1>3, <1>4, FenceKeeps

LEMMA BeginStopKeeps == ASSUME ScanInv, BeginStop PROVE ScanInv'
<1>1. /\ Fence("stop") /\ fencing' = "stop" /\ blocked' = TRUE /\ CancelFlows(OfPoller)
      /\ UNCHANGED <<jobVars, handed, recordVars>> /\ cleanups' = cleanups /\ life' = life
  BY DEF BeginStop
<1>2. OfPoller \in SUBSET flows /\ OfPoller \subseteq OfPoller
  BY DEF OfPoller
<1>3. "stop" \in {"reset", "stop"} /\ life' \in {life, life + 1} /\ cleanups' \subseteq cleanups /\ blocked' \in BOOLEAN
  BY <1>1
<1> QED
  BY <1>1, <1>2, <1>3, FenceKeeps

\* A reset or a stop that is over: no thread is left, and so no write.
LEMMA EndResetKeeps == ASSUME ScanInv, EndReset PROVE ScanInv'
<1> USE DEF ScanInv
<1>0. /\ UNCHANGED <<jobCount, asking, handed, tracking, aged, poller, got, todo, errors, doomed, flows,
                     orphans, cleanups, revision, gen, life, blocked>>
      /\ fencing = "reset" /\ Drained /\ fencing' = "none"
  BY DEF EndReset, pollVars
<1>1. JobsTyped'
  <2> DEFINE over == [j \in 1..jobCount |-> [jobs[j] EXCEPT !.status = "gone"]]
  <2>1. over \in [JobIds -> JobRecords]
    <3>1. \A j \in JobIds : [jobs[j] EXCEPT !.status = "gone"] \in JobRecords
      BY DEF JobsTyped, JobRecords
    <3> QED
      BY <3>1 DEF JobIds
  <2>2. jobs' = over \/ jobs' = jobs
    BY DEF EndReset
  <2> HIDE DEF over
  <2> QED
    BY <1>0, <2>1, <2>2 DEF JobsTyped, JobIds
<1>2. StartsTyped' /\ TrackTyped' /\ PollTyped' /\ GotTyped' /\ FlowsTyped' /\ GuardsTyped' /\ QuietAfterStop'
  BY <1>0 DEF StartsTyped, Starts, TrackTyped, PollTyped, GotTyped, FlowsTyped, TrackRecords,
     Updates, Drops,
              FlowRecords, JobIds, GuardsTyped, QuietAfterStop, Tracked
<1>3. HandedOnce'
  <2>1. \A j, l : Mentions(j, l)' <=> Mentions(j, l)
    BY <1>0 DEF Mentions, TrackedFor, Tracked
  <2> QED
    BY <1>0, <2>1, HandedOnceKept
<1>4. Round'
  BY <1>0 DEF Round, OfPoller, NotDropped, TrackedFor, Tracked
<1>5. \/ saved' = saved /\ wiped' = wiped
      \/ saved' = [l \in Libraries |-> NoScan] /\ wiped' = revision
  BY DEF EndReset
<1>6. RecordsTyped' /\ NotAhead'
  BY <1>0, <1>5 DEF RecordsTyped, NotAhead
<1>7. OneWriter' /\ NewestCopy'
  BY <1>0 DEF OneWriter, NewestCopy, Drained, InThread
<1> QED
  BY <1>1, <1>2, <1>3, <1>4, <1>6, <1>7

LEMMA EndStopKeeps == ASSUME ScanInv, EndStop PROVE ScanInv'
<1> USE DEF ScanInv
<1>0. /\ UNCHANGED <<jobs, jobCount, asking, handed, tracking, aged, poller, got, todo, errors, doomed, flows,
                     orphans, cleanups, revision, saved, wiped, gen, life, blocked>>
      /\ fencing = "stop" /\ Drained /\ fencing' = "none"
  BY DEF EndStop, jobVars, pollVars, recordVars
<1>1. JobsTyped' /\ StartsTyped' /\ TrackTyped' /\ PollTyped' /\ GotTyped' /\ FlowsTyped' /\ RecordsTyped'
  BY <1>0 DEF JobsTyped, StartsTyped, Starts, TrackTyped, PollTyped, GotTyped, FlowsTyped,
     TrackRecords, Updates,
              Drops, FlowRecords, JobIds, RecordsTyped
<1>2. GuardsTyped' /\ QuietAfterStop'
  BY <1>0 DEF GuardsTyped, QuietAfterStop, Tracked
<1>3. HandedOnce'
  <2>1. \A j, l : Mentions(j, l)' <=> Mentions(j, l)
    BY <1>0 DEF Mentions, TrackedFor, Tracked
  <2> QED
    BY <1>0, <2>1, HandedOnceKept
<1>4. Round'
  BY <1>0 DEF Round, OfPoller, NotDropped, TrackedFor, Tracked
<1>5. OneWriter' /\ NewestCopy' /\ NotAhead'
  BY <1>0 DEF OneWriter, NewestCopy, NotAhead, Drained, InThread
<1> QED
  BY <1>1, <1>2, <1>3, <1>4, <1>5

LEMMA AllowServerKeeps == ASSUME ScanInv, AllowServer PROVE ScanInv'
<1> USE DEF ScanInv
<1>0. /\ UNCHANGED <<jobs, jobCount, asking, handed, tracking, aged, poller, got, todo, errors, doomed, flows,
                     orphans, cleanups, revision, saved, wiped, life, fencing>>
      /\ fencing = "none" /\ blocked' = FALSE /\ gen' = gen + 1
  BY DEF AllowServer, jobVars, pollVars, recordVars
<1>1. JobsTyped' /\ TrackTyped' /\ PollTyped' /\ GotTyped' /\ FlowsTyped' /\ RecordsTyped'
  BY <1>0 DEF JobsTyped, TrackTyped, PollTyped, GotTyped, FlowsTyped, TrackRecords, Updates,
              Drops, FlowRecords, JobIds, RecordsTyped
<1>2. StartsTyped'
  BY <1>0 DEF StartsTyped, Starts, JobIds
<1>3. GuardsTyped' /\ QuietAfterStop'
  BY <1>0 DEF GuardsTyped, QuietAfterStop
<1>4. HandedOnce'
  <2>1. \A j, l : Mentions(j, l)' <=> Mentions(j, l)
    BY <1>0 DEF Mentions, TrackedFor, Tracked
  <2> QED
    BY <1>0, <2>1, HandedOnceKept
<1>5. Round'
  BY <1>0 DEF Round, OfPoller, NotDropped, TrackedFor, Tracked
<1>6. OneWriter' /\ NewestCopy' /\ NotAhead'
  BY <1>0, WritersKept
<1> QED
  BY <1>1, <1>2, <1>3, <1>4, <1>5, <1>6

LEMMA ScanStutters == ASSUME ScanInv, UNCHANGED scanVars PROVE ScanInv'
<1> USE DEF ScanInv, scanVars, jobVars, pollVars, recordVars, guardVars
<1>1. JobsTyped' /\ StartsTyped' /\ TrackTyped' /\ PollTyped' /\ GotTyped' /\ FlowsTyped' /\ RecordsTyped'
  BY DEF JobsTyped, StartsTyped, Starts, TrackTyped, PollTyped, GotTyped, FlowsTyped,
     TrackRecords, Updates,
         Drops, FlowRecords, JobIds, RecordsTyped
<1>2. GuardsTyped' /\ QuietAfterStop'
  BY DEF GuardsTyped, QuietAfterStop, Tracked
<1>3. HandedOnce'
  <2>1. \A j, l : Mentions(j, l)' <=> Mentions(j, l)
    BY DEF Mentions, TrackedFor, Tracked
  <2> QED
    BY <2>1, HandedOnceKept
<1>4. Round'
  BY DEF Round, OfPoller, NotDropped, TrackedFor, Tracked
<1>5. OneWriter' /\ NewestCopy' /\ NotAhead'
  BY WritersKept
<1> QED
  BY <1>1, <1>2, <1>3, <1>4, <1>5

-----------------------------------------------------------------------------

LEMMA ScanStep == ScanInv /\ [ScanNext]_scanVars => ScanInv'
<1> SUFFICES ASSUME ScanInv, [ScanNext]_scanVars PROVE ScanInv'
  OBVIOUS
<1>1. ASSUME NEW L \in SUBSET Libraries, RequestScan(L) \/ PollAsks(L) PROVE ScanInv'
  BY <1>1, RequestScanKeeps, PollAsksKeeps
<1>2. ASSUME NEW l \in Libraries, ScheduleTracking(l) \/ TriggerRefused(l) \/ Ages(l) PROVE ScanInv'
  BY <1>2, ScheduleTrackingKeeps, TriggerRefusedKeeps, AgesKeeps
<1>3. CASE EventLoop
  BY <1>3, StartTrackingKeeps, DropLibraryKeeps DEF EventLoop
<1>4. CASE Publishing
  BY <1>4, LookAgainKeeps, TellTrackerKeeps, TakeSnapshotKeeps, WriteRecordKeeps,
     DetectionAnsweredKeeps,
     DetectedKeeps DEF Publishing
<1>5. CASE Polling
  BY <1>5, PollAnsweredKeeps, PollFailsKeeps, PollAppliesKeeps, PollPublishesKeeps, PollSleepsKeeps,
     PollerLeavesKeeps DEF Polling
<1>6. CASE (\E f \in orphans : OrphanEnds(f)) \/ BeginReset \/ EndReset \/ BeginStop \/ EndStop \/ AllowServer
  BY <1>6, OrphanEndsKeeps, BeginResetKeeps, EndResetKeeps, BeginStopKeeps, EndStopKeeps,
     AllowServerKeeps
<1>7. CASE UNCHANGED scanVars
  BY <1>7, ScanStutters
<1> QED
  BY <1>1, <1>2, <1>3, <1>4, <1>5, <1>6, <1>7 DEF ScanNext

LEMMA ScanInvIsTyped == ScanInv => ScanTypeOK
<1> SUFFICES ASSUME ScanInv PROVE ScanTypeOK
  OBVIOUS
<1> USE DEF ScanInv
<1>1. JobIds \subseteq 1..MaxJobs
  BY ScanBoundAssumption DEF JobsTyped, JobIds
<1>2. /\ jobCount \in 0..MaxJobs /\ asking \subseteq Libraries
      /\ jobs \in [1..jobCount -> [status : {"open", "completed", "error", "gone"},
                               libs : SUBSET Libraries, lib : [Libraries -> LibraryStatus]]]
  BY DEF JobsTyped, JobIds, JobRecords
<1>3. handed \subseteq [job : 1..jobCount, lib : Libraries, gen : 0..gen, life : 0..life]
  BY DEF StartsTyped, Starts, JobIds
<1>4. /\ \A l \in Libraries :
           \/ tracking[l] = NoScan
           \/ tracking[l] \in [job : 1..jobCount, state : {"waiting", "running"} \cup Over, seen : BOOLEAN]
      /\ aged \in [Libraries -> BOOLEAN]
  BY DEF TrackTyped, TrackRecords, ScanStates, JobIds
<1>5. /\ poller \in {"none", "sleep", "asked", "answered", "dispatch", "dying"}
      /\ \A l \in DOMAIN got : l \in Libraries /\ got[l] \in FolderAnswers \cup {"pending"}
      /\ errors \in 0..MaxErrors
      /\ cleanups \cup doomed \subseteq [job : 1..jobCount, lib : Libraries]
  BY DEF PollTyped, GotTyped, Drops, JobIds
<1>6. todo \subseteq Update
  BY <1>1 DEF PollTyped, Updates, Update
<1>7. /\ revision \in [Libraries -> Nat] /\ wiped \in [Libraries -> Nat]
      /\ \A l \in Libraries : saved[l] = NoScan \/ saved[l] \in Snapshot
      /\ blocked \in BOOLEAN /\ fencing \in {"none", "reset", "stop"}
  BY DEF RecordsTyped, GuardsTyped
<1> QED
  BY <1>2, <1>3, <1>4, <1>5, <1>6, <1>7 DEF ScanTypeOK

LEMMA AlwaysScanInv == ScanSpec => []ScanInv
BY InitScanInv, ScanStep, PTL DEF ScanSpec

\* Every update, cleanup and thread call names a job there was, and every record of a
\* library has one of its states, whatever is reset or stopped meanwhile.
THEOREM ScanTypeCorrect == ScanSpec => []ScanTypeOK
BY AlwaysScanInv, ScanInvIsTyped, PTL

\* stop_server and start_tracking_library: once a server was stopped, and while a reset
\* lasts, nothing of it is tracked or polled, whatever starts were under way.
THEOREM AlwaysQuietAfterStop == ScanSpec => []QuietAfterStop
<1>1. ScanInv => QuietAfterStop
  BY DEF ScanInv
<1> QED
  BY <1>1, AlwaysScanInv, PTL

\* A step that writes a record writes the copy of the one writer, which is the latest.
LEMMA RecordAdvances ==
  ASSUME ScanInv, ScanNext, NEW l \in Libraries, saved'[l] \notin {saved[l], NoScan}
  PROVE  saved'[l].rev > wiped[l] /\ (saved[l] # NoScan => saved'[l].rev > saved[l].rev)
<1>1. ASSUME NEW f \in flows \cup orphans, f.at = "writing",
             saved' = [saved EXCEPT ![f.lib] = Kept(f.lib, f.snap)]
      PROVE  saved'[l].rev > wiped[l] /\ (saved[l] # NoScan => saved'[l].rev > saved[l].rev)
  <2>1. saved' = [saved EXCEPT ![f.lib] = f.snap] /\ f.lib \in Libraries
    BY <1>1, KeptIsNewest
  <2>2. l = f.lib /\ saved'[l] = f.snap
    BY <2>1 DEF ScanInv, RecordsTyped
  <2> QED
    BY <1>1, <2>2 DEF ScanInv, NewestCopy
<1>2. CASE saved' = saved
  BY <1>2
<1>3. CASE saved' = [m \in Libraries |-> NoScan]
  BY <1>3
<1>4. ASSUME NEW f \in flows, WriteRecord(f)
      PROVE  saved'[l].rev > wiped[l] /\ (saved[l] # NoScan => saved'[l].rev > saved[l].rev)
  BY <1>1, <1>2, <1>4 DEF WriteRecord
<1>5. ASSUME NEW f \in orphans, OrphanEnds(f)
      PROVE  saved'[l].rev > wiped[l] /\ (saved[l] # NoScan => saved'[l].rev > saved[l].rev)
  BY <1>1, <1>2, <1>5 DEF OrphanEnds
<1>6. \/ saved' = saved \/ saved' = [m \in Libraries |-> NoScan]
      \/ (\E f \in flows : WriteRecord(f)) \/ (\E f \in orphans : OrphanEnds(f))
  <2> USE DEF recordVars
  <2>1. ASSUME NEW L \in SUBSET Libraries, RequestScan(L) \/ PollAsks(L) PROVE saved' = saved
    BY <2>1 DEF RequestScan, PollAsks
  <2>2. ASSUME NEW m \in Libraries, ScheduleTracking(m) \/ TriggerRefused(m) \/ Ages(m) PROVE saved' = saved
    BY <2>2 DEF ScheduleTracking, TriggerRefused, Ages
  <2>3. CASE EventLoop
    BY <2>3 DEF EventLoop, StartTracking, DropLibrary
  <2>4. ASSUME NEW f \in flows, \/ LookAgain(f) \/ TellTracker(f) \/ TakeSnapshot(f) \/ DetectionAnswered(f)
                                \/ Detected(f)
        PROVE  saved' = saved
    BY <2>4 DEF LookAgain, TellTracker, TakeSnapshot, DetectionAnswered, Detected
  <2>5. CASE Polling
    BY <2>5 DEF Polling, PollAnswered, PollFails, PollApplies, PollPublishes, PollSleeps,
       PollerLeaves
  <2>6. CASE BeginReset \/ EndReset \/ BeginStop \/ EndStop \/ AllowServer
    BY <2>6 DEF BeginReset, EndReset, BeginStop, EndStop, AllowServer
  <2> QED
    BY <2>1, <2>2, <2>3, <2>4, <2>5, <2>6 DEF ScanNext, Publishing
<1> QED
  BY <1>2, <1>3, <1>4, <1>5, <1>6

\* keep_newest and _persistence_lock: a write never takes a library's record back to what an
\* earlier copy said or to what a reset wiped, however its task was cancelled.
THEOREM RecordsAlwaysAdvance == ScanSpec => RecordsOnlyAdvance
<1> DEFINE A == [\A l \in Libraries : saved'[l] \notin {saved[l], NoScan} =>
                   /\ saved'[l].rev > wiped[l]
                   /\ saved[l] # NoScan => saved'[l].rev > saved[l].rev]_scanVars
<1>1. ScanInv /\ [ScanNext]_scanVars => A
  BY RecordAdvances
<1>2. ScanSpec => [][ScanNext]_scanVars
  BY DEF ScanSpec
<1> QED
  BY <1>1, <1>2, AlwaysScanInv, PTL DEF RecordsOnlyAdvance
=============================================================================
