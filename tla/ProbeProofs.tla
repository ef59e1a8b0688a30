---------------------------- MODULE ProbeProofs ----------------------------
(***************************************************************************)
(* Proofs about ProbeQueue for any number of workers, sources, slots and   *)
(* faults, and about ProbeLifecycle for any servers, keys, combos,         *)
(* sequences and runs; both for every choice of external events.           *)
(***************************************************************************)
EXTENDS ProbeQueue, ProbeLifecycle, TLAPS

(***************************************************************************)
(* The inductive invariant.                                                *)
(***************************************************************************)

\* The type invariant in parts.
Claimants == [by : Workers \cup {NoWorker}, live : BOOLEAN]
Jobs == [at : InHand \cup {"none", "unstarted"}, id : 0..added, kept : BOOLEAN, ok : BOOLEAN]
RowsTyped ==
  /\ added \in 0..MaxAdds /\ faults \in 0..MaxFaults
  /\ rowId \in [Sources -> 0..added]
  /\ retries \in [Sources -> 0..MaxRetries]
  /\ found \in Sources \cup {NoSource}
  /\ wpc \in [Workers -> {"off", "cycle", "batch", "aborting"}]
  /\ flag \in [Workers -> BOOLEAN] /\ bad \in [Workers -> BOOLEAN]
  /\ outlived \subseteq 1..added
ClaimTyped == claim \in [Sources -> Claimants]
JobTyped == job \in [Workers -> [Sources -> Jobs]]
JobNamesRow ==
  \A w \in Workers, s \in Sources :
    /\ job[w][s].at = "none" <=> job[w][s].id = 0
    /\ job[w][s].kept => job[w][s].at \in InHand

LEMMA TypeParts == ProbeTypeOK <=> RowsTyped /\ ClaimTyped /\ JobTyped /\ JobNamesRow
  BY DEF ProbeTypeOK, RowsTyped, ClaimTyped, JobTyped, JobNamesRow, Claimants, Jobs

\* A worker between two batches, or stopped, has no row in hand; an exception ends a
\* worker of one slot only; what is claimed is queued.
BatchPlaces ==
  /\ \A w \in Workers :
       /\ wpc[w] \in {"off", "cycle"} => \A s \in Sources : job[w][s].at = "none"
       /\ wpc[w] = "aborting" => Slots[w] = 1
  /\ \A s \in Sources : claim[s].by # NoWorker => rowId[s] # 0

\* A row of the batch that is not concluded.
OpenJob(w, s) == job[w][s].at \in {"unstarted", "probing", "probed", "fenced"}

\* Unless it ran out, the claim of such a row is the one its worker made, and nobody else
\* has the row.
OneHolder ==
  /\ \A w \in Workers, s \in Sources :
       OpenJob(w, s) /\ job[w][s].id = rowId[s] /\ rowId[s] \notin outlived
         => claim[s].by = w /\ claim[s].live
  /\ \A v, w \in Workers, s \in Sources :
       v # w /\ OpenJob(v, s) /\ OpenJob(w, s) /\ job[v][s].id = job[w][s].id
         => job[v][s].id \in outlived

QueueInv == RowsTyped /\ ClaimTyped /\ JobTyped /\ JobNamesRow /\ BatchPlaces /\ OneHolder

LEMMA TokensDiffer == NoWorker \notin Workers
  BY WorkerAssumption

\* Typing of the updates the actions make.
LEMMA ClaimUpdates ==
  ASSUME NEW c \in Claimants, NEW by \in Workers \cup {NoWorker}, NEW b \in BOOLEAN
  PROVE  /\ [c EXCEPT !.live = b] \in Claimants /\ [c EXCEPT !.by = by] \in Claimants
         /\ [by |-> by, live |-> b] \in Claimants /\ Unclaimed \in Claimants
         /\ [c EXCEPT !.live = b].by = c.by /\ [c EXCEPT !.live = b].live = b
         /\ [c EXCEPT !.by = by].live = c.live /\ [c EXCEPT !.by = by].by = by
  BY DEF Claimants, Unclaimed

LEMMA ClaimReplaced ==
  ASSUME ClaimTyped, NEW s \in Sources, NEW c \in Claimants
  PROVE  [claim EXCEPT ![s] = c] \in [Sources -> Claimants]
  BY DEF ClaimTyped

LEMMA JobUpdated ==
  ASSUME NEW j \in Jobs, NEW at \in InHand \cup {"none", "unstarted"}, NEW b \in BOOLEAN
  PROVE  /\ [j EXCEPT !.at = at] \in Jobs /\ [j EXCEPT !.kept = b] \in Jobs
         /\ [j EXCEPT !.at = at, !.kept = b] \in Jobs /\ [j EXCEPT !.at = at, !.ok = b] \in Jobs
  BY DEF Jobs

LEMMA JobReplaced ==
  ASSUME JobTyped, NEW w \in Workers, NEW s \in Sources, NEW j \in Jobs
  PROVE  [job EXCEPT ![w] = [job[w] EXCEPT ![s] = j]] \in [Workers -> [Sources -> Jobs]]
<1>1. [job[w] EXCEPT ![s] = j] \in [Sources -> Jobs]
  BY DEF JobTyped
<1> QED
  BY <1>1 DEF JobTyped

\* What the transactions do to the rows.
LEMMA Inserted ==
  ASSUME RowsTyped, ClaimTyped, NEW s \in Sources, Insert(s)
  PROVE  /\ added' \in added .. MaxAdds
         /\ rowId' \in [Sources -> 0..added'] /\ claim' \in [Sources -> Claimants]
         /\ \A x \in Sources :
              \/ rowId'[x] = rowId[x] /\ claim'[x] = claim[x]
              \/ rowId'[x] \in {0, added + 1} /\ claim'[x] = Unclaimed
<1> USE ProbeBoundAssumption DEF RowsTyped, ClaimTyped
<1>1. /\ added' \in added .. MaxAdds
      /\ rowId' \in [Sources -> 0..added']
      /\ \A x \in Sources : rowId'[x] = rowId[x] \/ rowId'[x] \in {0, added + 1}
  <2>1. CASE Queued(s)
    BY <2>1 DEF Insert
  <2>2. CASE ~Queued(s)
    <3>1. added' = added + 1 /\ added' \in Nat /\ added' <= MaxAdds
      BY <2>2 DEF Insert
    <3>2. rowId' = [x \in Sources |-> IF x = s THEN added + 1
                                     ELSE IF x \in Generic(s) THEN 0 ELSE rowId[x]]
      BY <2>2 DEF Insert
    <3> QED
      BY <3>1, <3>2
  <2> QED
    BY <2>1, <2>2
<1>2. claim' = [x \in Sources |-> IF rowId'[x] = rowId[x] THEN claim[x] ELSE Unclaimed]
  BY DEF Insert
<1>3. Unclaimed \in Claimants
  BY DEF Unclaimed, Claimants
<1> QED
  BY <1>1, <1>2, <1>3

\* A new row has a new id, so no batch and no claim is about it yet.
LEMMA InsertKeeps ==
  ASSUME QueueInv, NEW s \in Sources, Insert(s), UNCHANGED workVars
  PROVE  BatchPlaces' /\ OneHolder'
<1>1. /\ added' \in added .. MaxAdds
      /\ \A x \in Sources :
           \/ rowId'[x] = rowId[x] /\ claim'[x] = claim[x]
           \/ rowId'[x] \in {0, added + 1} /\ claim'[x] = Unclaimed
  BY Inserted DEF QueueInv
<1>2. wpc' = wpc /\ job' = job /\ outlived' = outlived
  BY DEF workVars
<1>3. \A w \in Workers, x \in Sources :
        OpenJob(w, x) => job[w][x].id # 0 /\ job[w][x].id # added + 1
  BY ProbeBoundAssumption
  DEF QueueInv, RowsTyped, JobTyped, JobNamesRow, Jobs, InHand, OpenJob
<1>4. \A w \in Workers, x \in Sources : OpenJob(w, x)' = OpenJob(w, x)
  BY <1>2 DEF OpenJob
<1>5. Unclaimed.by = NoWorker
  BY DEF Unclaimed
<1>6. BatchPlaces'
  BY <1>1, <1>2, <1>5 DEF QueueInv, BatchPlaces
<1>7. OneHolder'
  BY <1>1, <1>2, <1>3, <1>4 DEF QueueInv, OneHolder
<1> QED
  BY <1>6, <1>7

LEMMA Concluded ==
  ASSUME RowsTyped, NEW w \in Workers, NEW s \in Sources, Result(w, s)
  PROVE  /\ retries' \in [Sources -> 0..MaxRetries] /\ rowId' \in [Sources -> 0..added]
         /\ \A x \in Sources : x # s => rowId'[x] = rowId[x]
         /\ rowId'[s] \in {0, rowId[s]}
<1> DEFINE count == IF job[w][s].ok THEN 0
                    ELSE IF retries[s] < MaxRetries THEN retries[s] + 1 ELSE MaxRetries
           again == ~job[w][s].ok /\ ~flag[w] /\ count < MaxRetries
<1>1. retries' = [retries EXCEPT ![s] = count]
      /\ rowId' = [rowId EXCEPT ![s] = IF again THEN @ ELSE 0]
  BY DEF Result
<1>2. count \in 0..MaxRetries
  BY ProbeBoundAssumption DEF RowsTyped
<1>3. 0 \in 0..added
  BY ProbeBoundAssumption DEF RowsTyped
<1> HIDE DEF count, again
<1> QED
  BY <1>1, <1>2, <1>3 DEF RowsTyped

LEMMA InitQueueInv == ProbeInit => QueueInv
  BY WorkerAssumption, SourceAssumption, ProbeBoundAssumption
  DEF ProbeInit, QueueInv, RowsTyped, ClaimTyped, JobTyped, JobNamesRow, Claimants, Jobs,
      BatchPlaces, OneHolder, OpenJob, NoJob, Unclaimed, InHand

\* Every action keeps the invariant: one step per action.
LEMMA NextQueueInv == QueueInv /\ [ProbeNext]_probeVars => QueueInv'
<1> SUFFICES ASSUME QueueInv, [ProbeNext]_probeVars PROVE QueueInv'
  OBVIOUS
<1> USE TokensDiffer, SourceAssumption, ProbeBoundAssumption
    DEF QueueInv, RowsTyped, ClaimTyped, JobTyped, JobNamesRow, Claimants, Jobs,
         BatchPlaces, OneHolder, OpenJob, NoJob, Unclaimed, InHand
<1>1. ASSUME NEW s \in Sources, Collect(s) PROVE QueueInv'
  <2>1. RowsTyped'
    BY <1>1 DEF Collect, queueVars, workVars
  <2>2. ClaimTyped'
    BY <1>1 DEF Collect, queueVars, workVars
  <2>3. JobTyped'
    BY <1>1 DEF Collect, queueVars, workVars
  <2>4. JobNamesRow'
    BY <1>1 DEF Collect, queueVars, workVars
  <2>5. BatchPlaces'
    BY <1>1 DEF Collect, queueVars, workVars
  <2>6. OneHolder'
    BY <1>1 DEF Collect, queueVars, workVars
  <2> QED
    BY <2>1, <2>2, <2>3, <2>4, <2>5, <2>6 DEF QueueInv
<1>2. ASSUME Flush PROVE QueueInv'
  <2>1. RowsTyped'
    <3>1. CASE Insert(found) /\ UNCHANGED retries
      BY <1>2, <3>1, Inserted DEF Flush, workVars
    <3>2. CASE UNCHANGED queueVars
      BY <1>2, <3>2 DEF Flush, queueVars, workVars
    <3> QED
      BY <1>2, <3>1, <3>2 DEF Flush
  <2>2. ClaimTyped'
    <3>1. CASE Insert(found) /\ UNCHANGED retries
      BY <1>2, <3>1, Inserted DEF Flush, workVars
    <3>2. CASE UNCHANGED queueVars
      BY <1>2, <3>2 DEF Flush, queueVars, workVars
    <3> QED
      BY <1>2, <3>1, <3>2 DEF Flush
  <2>3. JobTyped'
    <3>1. CASE Insert(found) /\ UNCHANGED retries
      BY <1>2, <3>1, Inserted DEF Flush, workVars
    <3>2. CASE UNCHANGED queueVars
      BY <1>2, <3>2 DEF Flush, queueVars, workVars
    <3> QED
      BY <1>2, <3>1, <3>2 DEF Flush
  <2>4. JobNamesRow'
    BY <1>2 DEF Flush, Insert, MakesWay, Generic, Queued, queueVars, workVars
  <2>5. BatchPlaces'
    <3>1. CASE Insert(found) /\ UNCHANGED retries
      <4>1. found \in Sources /\ UNCHANGED workVars
        BY <1>2 DEF Flush
      <4> HIDE DEF QueueInv, RowsTyped, ClaimTyped, JobTyped, BatchPlaces, OneHolder
      <4> QED
        BY <3>1, <4>1, InsertKeeps
    <3>2. CASE UNCHANGED queueVars
      BY <1>2, <3>2 DEF Flush, queueVars, workVars
    <3> QED
      BY <1>2, <3>1, <3>2 DEF Flush
  <2>6. OneHolder'
    <3>1. CASE Insert(found) /\ UNCHANGED retries
      <4>1. found \in Sources /\ UNCHANGED workVars
        BY <1>2 DEF Flush
      <4> HIDE DEF QueueInv, RowsTyped, ClaimTyped, JobTyped, BatchPlaces, OneHolder
      <4> QED
        BY <3>1, <4>1, InsertKeeps
    <3>2. CASE UNCHANGED queueVars
      BY <1>2, <3>2 DEF Flush, queueVars, workVars
    <3> QED
      BY <1>2, <3>1, <3>2 DEF Flush
  <2> QED
    BY <2>1, <2>2, <2>3, <2>4, <2>5, <2>6 DEF QueueInv
<1>3. ASSUME NEW s \in Sources, RetryItem(s) PROVE QueueInv'
  <2>1. RowsTyped'
    BY <1>3, Inserted DEF RetryItem, workVars
  <2>2. ClaimTyped'
    BY <1>3, Inserted DEF RetryItem, workVars
  <2>3. JobTyped'
    BY <1>3, Inserted DEF RetryItem, workVars
  <2>4. JobNamesRow'
    BY <1>3 DEF RetryItem, Insert, MakesWay, Generic, Queued, Fault, workVars
  <2>5. BatchPlaces'
    <3> HIDE DEF QueueInv, RowsTyped, ClaimTyped, JobTyped, BatchPlaces, OneHolder
    <3> QED
      BY <1>3, InsertKeeps DEF RetryItem
  <2>6. OneHolder'
    <3> HIDE DEF QueueInv, RowsTyped, ClaimTyped, JobTyped, BatchPlaces, OneHolder
    <3> QED
      BY <1>3, InsertKeeps DEF RetryItem
  <2> QED
    BY <2>1, <2>2, <2>3, <2>4, <2>5, <2>6 DEF QueueInv
<1>4. ASSUME NEW s \in Sources, RemoveItem(s) PROVE QueueInv'
  <2>1. RowsTyped'
    BY <1>4 DEF RemoveItem, DeleteRow, Queued, Fault, workVars
  <2>2. ClaimTyped'
    BY <1>4 DEF RemoveItem, DeleteRow, Queued, Fault, workVars
  <2>3. JobTyped'
    BY <1>4 DEF RemoveItem, DeleteRow, Queued, Fault, workVars
  <2>4. JobNamesRow'
    BY <1>4 DEF RemoveItem, DeleteRow, Queued, Fault, workVars
  <2>5. BatchPlaces'
    BY <1>4 DEF RemoveItem, DeleteRow, Queued, Fault, workVars
  <2>6. OneHolder'
    BY <1>4 DEF RemoveItem, DeleteRow, Queued, Fault, workVars
  <2> QED
    BY <2>1, <2>2, <2>3, <2>4, <2>5, <2>6 DEF QueueInv
<1>5. ASSUME NEW s \in Sources, RemoveIdle(s) PROVE QueueInv'
  <2>1. RowsTyped'
    BY <1>5 DEF RemoveIdle, DeleteRow, Queued, Fault, workVars
  <2>2. ClaimTyped'
    BY <1>5 DEF RemoveIdle, DeleteRow, Queued, Fault, workVars
  <2>3. JobTyped'
    BY <1>5 DEF RemoveIdle, DeleteRow, Queued, Fault, workVars
  <2>4. JobNamesRow'
    BY <1>5 DEF RemoveIdle, DeleteRow, Queued, Fault, workVars
  <2>5. BatchPlaces'
    BY <1>5 DEF RemoveIdle, DeleteRow, Queued, Fault, workVars
  <2>6. OneHolder'
    BY <1>5 DEF RemoveIdle, DeleteRow, Queued, Fault, workVars
  <2> QED
    BY <2>1, <2>2, <2>3, <2>4, <2>5, <2>6 DEF QueueInv
<1>6. ASSUME NEW s \in Sources, RowExpires(s) PROVE QueueInv'
  <2>1. RowsTyped'
    BY <1>6 DEF RowExpires, Renewed, Waits, OwnsRow, Fault
  <2>2. ClaimTyped'
    <3> HIDE DEF Claimants
    <3>1. claim' = [claim EXCEPT ![s] = [claim[s] EXCEPT !.live = FALSE]] /\ claim[s] \in Claimants
      BY <1>6 DEF RowExpires
    <3>2. [claim[s] EXCEPT !.live = FALSE] \in Claimants
      BY <3>1, ClaimUpdates
    <3> QED
      BY <3>1, <3>2, ClaimReplaced
  <2>3. JobTyped'
    BY <1>6 DEF RowExpires, Renewed, Waits, OwnsRow, Fault
  <2>4. JobNamesRow'
    BY <1>6 DEF RowExpires, Renewed, Waits, OwnsRow, Fault
  <2>5. BatchPlaces'
    BY <1>6 DEF RowExpires, Renewed, Waits, OwnsRow, Fault
  <2>6. OneHolder'
    BY <1>6 DEF RowExpires, Renewed, Waits, OwnsRow, Fault
  <2> QED
    BY <2>1, <2>2, <2>3, <2>4, <2>5, <2>6 DEF QueueInv
<1>7. ASSUME NEW w \in Workers, StartWorker(w) PROVE QueueInv'
  <2>1. RowsTyped'
    BY <1>7 DEF StartWorker, queueVars
  <2>2. ClaimTyped'
    BY <1>7 DEF StartWorker, queueVars
  <2>3. JobTyped'
    BY <1>7 DEF StartWorker, queueVars
  <2>4. JobNamesRow'
    BY <1>7 DEF StartWorker, queueVars
  <2>5. BatchPlaces'
    BY <1>7 DEF StartWorker, queueVars
  <2>6. OneHolder'
    BY <1>7 DEF StartWorker, queueVars
  <2> QED
    BY <2>1, <2>2, <2>3, <2>4, <2>5, <2>6 DEF QueueInv
<1>8. ASSUME NEW w \in Workers, NothingToDo(w) PROVE QueueInv'
  <2>1. RowsTyped'
    BY <1>8 DEF NothingToDo, WorkerEnds, queueVars
  <2>2. ClaimTyped'
    BY <1>8 DEF NothingToDo, WorkerEnds, queueVars
  <2>3. JobTyped'
    BY <1>8 DEF NothingToDo, WorkerEnds, queueVars
  <2>4. JobNamesRow'
    BY <1>8 DEF NothingToDo, WorkerEnds, queueVars
  <2>5. BatchPlaces'
    BY <1>8 DEF NothingToDo, WorkerEnds, queueVars
  <2>6. OneHolder'
    BY <1>8 DEF NothingToDo, WorkerEnds, queueVars
  <2> QED
    BY <2>1, <2>2, <2>3, <2>4, <2>5, <2>6 DEF QueueInv
<1>9. ASSUME NEW w \in Workers, NEW B \in SUBSET Sources, TakeBatch(w, B) PROVE QueueInv'
  <2> DEFINE new == [x \in Sources |->
                      IF x \in B THEN [at |-> "unstarted", id |-> rowId[x], kept |-> FALSE, ok |-> FALSE]
                      ELSE [at |-> "none", id |-> 0, kept |-> FALSE, ok |-> FALSE]]
  <2>0. /\ job' = [job EXCEPT ![w] = new]
        /\ rowId' = rowId /\ added' = added /\ outlived' = outlived
    BY <1>9 DEF TakeBatch
  <2>b. \A x \in Sources : job'[w][x] =
          IF x \in B THEN [at |-> "unstarted", id |-> rowId[x], kept |-> FALSE, ok |-> FALSE]
          ELSE [at |-> "none", id |-> 0, kept |-> FALSE, ok |-> FALSE]
    <3>1. job'[w] = new
      <4> HIDE DEF new
      <4> QED
        BY <2>0
    <3> QED
      BY <3>1
  <2>c. \A v \in Workers : v # w => job'[v] = job[v]
    BY <2>0
  <2>d. \A x \in B : x \in Sources /\ rowId[x] # 0 /\ claim'[x] = [by |-> w, live |-> TRUE]
                   /\ (claim[x].by = NoWorker \/ ~claim[x].live)
    BY <1>9 DEF TakeBatch, Candidates, Fit, Queued, RowClaimable, Claimed
  <2>e. \A x \in Sources \ B : claim'[x] = claim[x]
    BY <1>9 DEF TakeBatch, Claimed
  <2>1. RowsTyped'
    BY <1>9 DEF TakeBatch, Candidates, Fit, Queued, RowClaimable, Claimed
  <2>2. ClaimTyped'
    BY <1>9 DEF TakeBatch, Candidates, Fit, Queued, RowClaimable, Claimed
  <2>3. JobTyped'
    <3>1. new \in [Sources -> Jobs] /\ Jobs' = Jobs
      BY <2>0
    <3> HIDE DEF new, Jobs
    <3> QED
      BY <3>1, <2>0
  <2>4. JobNamesRow'
    <3>1. ASSUME NEW v \in Workers, NEW x \in Sources
          PROVE  /\ job'[v][x].at = "none" <=> job'[v][x].id = 0
                 /\ job'[v][x].kept => job'[v][x].at \in InHand
      <4>1. CASE v # w
        BY <4>1, <2>c
      <4>2. CASE v = w
        <5>1. CASE x \in B
          <6>1. job'[v][x] = [at |-> "unstarted", id |-> rowId[x], kept |-> FALSE, ok |-> FALSE]
            BY <4>2, <5>1, <2>b
          <6>2. job'[v][x].at = "unstarted" /\ job'[v][x].id # 0 /\ ~job'[v][x].kept
            BY <5>1, <6>1, <2>d
          <6> QED
            BY <6>2
        <5>2. CASE x \notin B
          <6>1. job'[v][x] = [at |-> "none", id |-> 0, kept |-> FALSE, ok |-> FALSE]
            BY <4>2, <5>2, <2>b
          <6> QED
            BY <6>1
        <5> QED
          BY <5>1, <5>2
      <4> QED
        BY <4>1, <4>2
    <3> QED
      BY <3>1
  <2>5. BatchPlaces'
    <3>1. wpc[w] = "cycle" /\ wpc' = [wpc EXCEPT ![w] = "batch"]
      BY <1>9 DEF TakeBatch
    <3> QED
      BY <2>0, <2>b, <2>c, <2>d, <2>e, <3>1
  <2>6. OneHolder'
    BY <2>0, <2>b, <2>c, <2>d, <2>e
  <2> QED
    BY <2>1, <2>2, <2>3, <2>4, <2>5, <2>6 DEF QueueInv
<1>10. ASSUME NEW w \in Workers, NEW B \in SUBSET Sources, BatchClaimRaises(w, B) PROVE QueueInv'
  <2>1. RowsTyped'
    BY <1>10 DEF BatchClaimRaises, Candidates, Fit, Queued, RowClaimable, Claimed, Fault, WorkerEnds
  <2>2. ClaimTyped'
    BY <1>10 DEF BatchClaimRaises, Candidates, Fit, Queued, RowClaimable, Claimed, Fault, WorkerEnds
  <2>3. JobTyped'
    BY <1>10 DEF BatchClaimRaises, Candidates, Fit, Queued, RowClaimable, Claimed, Fault, WorkerEnds
  <2>4. JobNamesRow'
    BY <1>10 DEF BatchClaimRaises, Candidates, Fit, Queued, RowClaimable, Claimed, Fault, WorkerEnds
  <2>5. BatchPlaces'
    BY <1>10 DEF BatchClaimRaises, Candidates, Fit, Queued, RowClaimable, Claimed, Fault, WorkerEnds
  <2>6. OneHolder'
    BY <1>10 DEF BatchClaimRaises, Candidates, Fit, Queued, RowClaimable, Claimed, Fault, WorkerEnds
  <2> QED
    BY <2>1, <2>2, <2>3, <2>4, <2>5, <2>6 DEF QueueInv
<1>11. ASSUME NEW w \in Workers, EndBatch(w) PROVE QueueInv'
  <2>1. RowsTyped'
    BY <1>11 DEF EndBatch, queueVars
  <2>2. ClaimTyped'
    BY <1>11 DEF EndBatch, queueVars
  <2>3. JobTyped'
    BY <1>11 DEF EndBatch, queueVars
  <2>4. JobNamesRow'
    BY <1>11 DEF EndBatch, queueVars
  <2>5. BatchPlaces'
    BY <1>11 DEF EndBatch, queueVars
  <2>6. OneHolder'
    BY <1>11 DEF EndBatch, queueVars
  <2> QED
    BY <2>1, <2>2, <2>3, <2>4, <2>5, <2>6 DEF QueueInv
<1>12. ASSUME NEW w \in Workers, Abort(w) PROVE QueueInv'
  <2>1. RowsTyped'
    BY <1>12 DEF Abort, WorkerEnds, queueVars
  <2>2. ClaimTyped'
    BY <1>12 DEF Abort, WorkerEnds, queueVars
  <2>3. JobTyped'
    BY <1>12 DEF Abort, WorkerEnds, queueVars
  <2>4. JobNamesRow'
    BY <1>12 DEF Abort, WorkerEnds, queueVars
  <2>5. BatchPlaces'
    BY <1>12 DEF Abort, WorkerEnds, queueVars
  <2>6. OneHolder'
    BY <1>12 DEF Abort, WorkerEnds, queueVars
  <2> QED
    BY <2>1, <2>2, <2>3, <2>4, <2>5, <2>6 DEF QueueInv
<1>13. ASSUME NEW w \in Workers, StopWorker(w) PROVE QueueInv'
  <2>1. RowsTyped'
    BY <1>13 DEF StopWorker, Stops, Fault, jobStep, queueVars
  <2>2. ClaimTyped'
    BY <1>13 DEF StopWorker, Stops, Fault, jobStep, queueVars
  <2>3. JobTyped'
    BY <1>13 DEF StopWorker, Stops, Fault, jobStep, queueVars
  <2>4. JobNamesRow'
    BY <1>13 DEF StopWorker, Stops, Fault, jobStep, queueVars
  <2>5. BatchPlaces'
    BY <1>13 DEF StopWorker, Stops, Fault, jobStep, queueVars
  <2>6. OneHolder'
    BY <1>13 DEF StopWorker, Stops, Fault, jobStep, queueVars
  <2> QED
    BY <2>1, <2>2, <2>3, <2>4, <2>5, <2>6 DEF QueueInv
<1>14. ASSUME NEW w \in Workers, CrashWorker(w) PROVE QueueInv'
  <2>1. RowsTyped'
    BY <1>14 DEF CrashWorker, WorkerEnds, Fault, queueVars
  <2>2. ClaimTyped'
    BY <1>14 DEF CrashWorker, WorkerEnds, queueVars
  <2>3. JobTyped'
    BY <1>14 DEF CrashWorker, WorkerEnds, Fault, queueVars
  <2>4. JobNamesRow'
    BY <1>14 DEF CrashWorker, WorkerEnds, Fault, queueVars
  <2>5. BatchPlaces'
    BY <1>14 DEF CrashWorker, WorkerEnds, Fault, queueVars
  <2>6. OneHolder'
    BY <1>14 DEF CrashWorker, WorkerEnds, Fault, queueVars
  <2> QED
    BY <2>1, <2>2, <2>3, <2>4, <2>5, <2>6 DEF QueueInv
<1>15. ASSUME NEW w \in Workers, NEW s \in Sources, Start(w, s) PROVE QueueInv'
  <2>1. RowsTyped'
    BY <1>15 DEF Start, At, jobStep, queueVars
  <2>2. ClaimTyped'
    BY <1>15 DEF Start, At, jobStep, queueVars
  <2>3. JobTyped'
    <3> HIDE DEF Jobs
    <3>1. job' = [job EXCEPT ![w] = [job[w] EXCEPT ![s] = [job[w][s] EXCEPT !.at = IF flag[w] THEN "ending" ELSE "probing",
                                                            !.kept = TRUE]]]
           /\ Jobs' = Jobs
      BY <1>15 DEF Jobs, Start, jobStep, queueVars
    <3>2. job[w][s] \in Jobs
      OBVIOUS
    <3>3. [job[w][s] EXCEPT !.at = IF flag[w] THEN "ending" ELSE "probing", !.kept = TRUE] \in Jobs
      BY <3>2, JobUpdated
    <3> QED
      BY <3>1, <3>3, JobReplaced
  <2>4. JobNamesRow'
    BY <1>15 DEF Start, At, jobStep, queueVars
  <2>5. BatchPlaces'
    BY <1>15 DEF Start, At, jobStep, queueVars
  <2>6. OneHolder'
    BY <1>15 DEF Start, At, jobStep, queueVars
  <2> QED
    BY <2>1, <2>2, <2>3, <2>4, <2>5, <2>6 DEF QueueInv
<1>16. ASSUME NEW w \in Workers, NEW s \in Sources, Probed(w, s) PROVE QueueInv'
  <2>1. RowsTyped'
    BY <1>16 DEF Probed, At, Goes, jobStep, queueVars
  <2>2. ClaimTyped'
    BY <1>16 DEF Probed, At, Goes, jobStep, queueVars
  <2>3. JobTyped'
    <3> HIDE DEF Jobs
    <3>1. job' = [job EXCEPT ![w] = [job[w] EXCEPT ![s] = [job[w][s] EXCEPT !.at = IF flag[w] THEN "ending" ELSE "probed"]]]
           /\ Jobs' = Jobs
      BY <1>16 DEF Jobs, Probed, Goes, jobStep, queueVars
    <3>2. job[w][s] \in Jobs
      OBVIOUS
    <3>3. [job[w][s] EXCEPT !.at = IF flag[w] THEN "ending" ELSE "probed"] \in Jobs
      BY <3>2, JobUpdated, (IF flag[w] THEN "ending" ELSE "probed") \in InHand
    <3> QED
      BY <3>1, <3>3, JobReplaced
  <2>4. JobNamesRow'
    BY <1>16 DEF Probed, At, Goes, jobStep, queueVars
  <2>5. BatchPlaces'
    BY <1>16 DEF Probed, At, Goes, jobStep, queueVars
  <2>6. OneHolder'
    BY <1>16 DEF Probed, At, Goes, jobStep, queueVars
  <2> QED
    BY <2>1, <2>2, <2>3, <2>4, <2>5, <2>6 DEF QueueInv
<1>17. ASSUME NEW w \in Workers, NEW s \in Sources, FinalRenew(w, s) PROVE QueueInv'
  <2>1. RowsTyped'
    BY <1>17 DEF FinalRenew, At, OwnsRow
  <2>2. ClaimTyped'
    <3> HIDE DEF Claimants
    <3>0. \A x \in Sources : claim[x] \in Claimants
      OBVIOUS
    <3>1. claim' = [claim EXCEPT ![s] = [claim[s] EXCEPT !.live = TRUE]]
      BY <1>17 DEF FinalRenew
    <3>2. [claim[s] EXCEPT !.live = TRUE] \in Claimants
      BY <3>0, ClaimUpdates
    <3> QED
      BY <3>1, <3>2, ClaimReplaced
  <2>3. JobTyped'
    <3> HIDE DEF Jobs
    <3>0. PICK b \in BOOLEAN : job' = [job EXCEPT ![w][s] = [@ EXCEPT !.at = "fenced", !.ok = b]]
      BY <1>17 DEF FinalRenew
    <3>1. job' = [job EXCEPT ![w] = [job[w] EXCEPT ![s] = [job[w][s] EXCEPT !.at = "fenced", !.ok = b]]] /\ Jobs' = Jobs
      BY <3>0, <1>17 DEF Jobs, FinalRenew
    <3>2. job[w][s] \in Jobs
      OBVIOUS
    <3>3. [job[w][s] EXCEPT !.at = "fenced", !.ok = b] \in Jobs
      BY <3>2, JobUpdated
    <3> QED
      BY <3>1, <3>3, JobReplaced
  <2>4. JobNamesRow'
    BY <1>17 DEF FinalRenew, At, OwnsRow
  <2>5. BatchPlaces'
    BY <1>17 DEF FinalRenew, At, OwnsRow
  <2>6. OneHolder'
    BY <1>17 DEF FinalRenew, At, OwnsRow
  <2> QED
    BY <2>1, <2>2, <2>3, <2>4, <2>5, <2>6 DEF QueueInv
<1>18. ASSUME NEW w \in Workers, NEW s \in Sources, FinalRenewFails(w, s) PROVE QueueInv'
  <2>1. RowsTyped'
    BY <1>18 DEF FinalRenewFails, At, Goes, Stops, OwnsRow, Fault, jobStep, queueVars
  <2>2. ClaimTyped'
    BY <1>18 DEF FinalRenewFails, At, Goes, Stops, OwnsRow, Fault, jobStep, queueVars
  <2>3. JobTyped'
    <3> HIDE DEF Jobs
    <3>1. job' = [job EXCEPT ![w] = [job[w] EXCEPT ![s] = [job[w][s] EXCEPT !.at = "ending"]]] /\ Jobs' = Jobs
      BY <1>18 DEF Jobs, FinalRenewFails, Goes, jobStep, queueVars
    <3>2. job[w][s] \in Jobs
      OBVIOUS
    <3>3. [job[w][s] EXCEPT !.at = "ending"] \in Jobs
      BY <3>2, JobUpdated
    <3> QED
      BY <3>1, <3>3, JobReplaced
  <2>4. JobNamesRow'
    BY <1>18 DEF FinalRenewFails, At, Goes, Stops, OwnsRow, Fault, jobStep, queueVars
  <2>5. BatchPlaces'
    BY <1>18 DEF FinalRenewFails, At, Goes, Stops, OwnsRow, Fault, jobStep, queueVars
  <2>6. OneHolder'
    BY <1>18 DEF FinalRenewFails, At, Goes, Stops, OwnsRow, Fault, jobStep, queueVars
  <2> QED
    BY <2>1, <2>2, <2>3, <2>4, <2>5, <2>6 DEF QueueInv
<1>19. ASSUME NEW w \in Workers, NEW s \in Sources, Commit(w, s) PROVE QueueInv'
  <2>1. RowsTyped'
    BY <1>19 DEF Commit, At, OwnsRow, Result, Leaves
  <2>2. ClaimTyped'
    BY <1>19 DEF Commit, At, OwnsRow, Result, Leaves
  <2>3. JobTyped'
    BY <1>19 DEF Commit, At, OwnsRow, Result, Leaves
  <2>4. JobNamesRow'
    BY <1>19 DEF Commit, At, OwnsRow, Result, Leaves
  <2>5. BatchPlaces'
    BY <1>19 DEF Commit, At, OwnsRow, Result, Leaves
  <2>6. OneHolder'
    BY <1>19 DEF Commit, At, OwnsRow, Result, Leaves
  <2> QED
    BY <2>1, <2>2, <2>3, <2>4, <2>5, <2>6 DEF QueueInv
<1>20. ASSUME NEW w \in Workers, NEW s \in Sources, CommitRefused(w, s) PROVE QueueInv'
  <2>1. RowsTyped'
    BY <1>20 DEF CommitRefused, At, OwnsRow, Goes, Stops, jobStep, queueVars
  <2>2. ClaimTyped'
    BY <1>20 DEF CommitRefused, At, OwnsRow, Goes, Stops, jobStep, queueVars
  <2>3. JobTyped'
    <3> HIDE DEF Jobs
    <3>1. job' = [job EXCEPT ![w] = [job[w] EXCEPT ![s] = [job[w][s] EXCEPT !.at = "ending"]]] /\ Jobs' = Jobs
      BY <1>20 DEF Jobs, CommitRefused, Goes, jobStep, queueVars
    <3>2. job[w][s] \in Jobs
      OBVIOUS
    <3>3. [job[w][s] EXCEPT !.at = "ending"] \in Jobs
      BY <3>2, JobUpdated
    <3> QED
      BY <3>1, <3>3, JobReplaced
  <2>4. JobNamesRow'
    BY <1>20 DEF CommitRefused, At, OwnsRow, Goes, Stops, jobStep, queueVars
  <2>5. BatchPlaces'
    BY <1>20 DEF CommitRefused, At, OwnsRow, Goes, Stops, jobStep, queueVars
  <2>6. OneHolder'
    BY <1>20 DEF CommitRefused, At, OwnsRow, Goes, Stops, jobStep, queueVars
  <2> QED
    BY <2>1, <2>2, <2>3, <2>4, <2>5, <2>6 DEF QueueInv
<1>21. ASSUME NEW w \in Workers, NEW s \in Sources, CommitRaises(w, s) PROVE QueueInv'
  <2>1. RowsTyped'
    <3>1. CASE OwnsRow(w, s) /\ Result(w, s)
      BY <1>21, <3>1, Concluded DEF CommitRaises, Fault
    <3>2. CASE UNCHANGED <<rowId, claim, retries>>
      BY <1>21, <3>2 DEF CommitRaises, Fault
    <3> QED
      BY <1>21, <3>1, <3>2 DEF CommitRaises
  <2>2. ClaimTyped'
    <3> HIDE DEF Claimants
    <3>0. \A x \in Sources : claim[x] \in Claimants
      OBVIOUS
    <3>1. claim' = [claim EXCEPT ![s] = Unclaimed] \/ claim' = claim
      BY <1>21 DEF CommitRaises, Result
    <3>2. Unclaimed \in Claimants
      BY ClaimUpdates
    <3>3. [claim EXCEPT ![s] = Unclaimed] \in [Sources -> Claimants]
      BY <3>2, ClaimReplaced
    <3>4. claim \in [Sources -> Claimants] /\ Claimants' = Claimants
      BY DEF Claimants
    <3> HIDE DEF Unclaimed
    <3> QED
      BY <3>1, <3>3, <3>4
  <2>3. JobTyped'
    <3> HIDE DEF Jobs
    <3>1. job' = [job EXCEPT ![w] = [job[w] EXCEPT ![s] = [job[w][s] EXCEPT !.at = "ending"]]] /\ Jobs' = Jobs
      BY <1>21 DEF Jobs, CommitRaises, Goes
    <3>2. job[w][s] \in Jobs
      OBVIOUS
    <3>3. [job[w][s] EXCEPT !.at = "ending"] \in Jobs
      BY <3>2, JobUpdated
    <3> QED
      BY <3>1, <3>3, JobReplaced
  <2>4. JobNamesRow'
    BY <1>21 DEF CommitRaises, At, OwnsRow, Result, Goes, Fault
  <2>5. BatchPlaces'
    BY <1>21 DEF CommitRaises, At, OwnsRow, Result, Goes, Fault
  <2>6. OneHolder'
    BY <1>21 DEF CommitRaises, At, OwnsRow, Result, Goes, Fault
  <2> QED
    BY <2>1, <2>2, <2>3, <2>4, <2>5, <2>6 DEF QueueInv
<1>22. ASSUME NEW w \in Workers, NEW s \in Sources, Renew(w, s) PROVE QueueInv'
  <2>1. RowsTyped'
    BY <1>22 DEF Renew, OwnsRow, workVars
  <2>2. ClaimTyped'
    <3> HIDE DEF Claimants
    <3>0. \A x \in Sources : claim[x] \in Claimants
      OBVIOUS
    <3>1. claim' = [claim EXCEPT ![s] = [claim[s] EXCEPT !.live = TRUE]]
      BY <1>22 DEF Renew
    <3>2. [claim[s] EXCEPT !.live = TRUE] \in Claimants
      BY <3>0, ClaimUpdates
    <3> QED
      BY <3>1, <3>2, ClaimReplaced
  <2>3. JobTyped'
    BY <1>22 DEF Renew, OwnsRow, workVars
  <2>4. JobNamesRow'
    BY <1>22 DEF Renew, OwnsRow, workVars
  <2>5. BatchPlaces'
    BY <1>22 DEF Renew, OwnsRow, workVars
  <2>6. OneHolder'
    BY <1>22 DEF Renew, OwnsRow, workVars
  <2> QED
    BY <2>1, <2>2, <2>3, <2>4, <2>5, <2>6 DEF QueueInv
<1>23. ASSUME NEW w \in Workers, NEW s \in Sources, RenewFails(w, s) PROVE QueueInv'
  <2>1. RowsTyped'
    BY <1>23 DEF RenewFails, OwnsRow, Stops, Fault, jobStep, queueVars
  <2>2. ClaimTyped'
    BY <1>23 DEF RenewFails, OwnsRow, Stops, Fault, jobStep, queueVars
  <2>3. JobTyped'
    <3> HIDE DEF Jobs
    <3>1. job' = [job EXCEPT ![w] = [job[w] EXCEPT ![s] = [job[w][s] EXCEPT !.kept = FALSE]]] /\ Jobs' = Jobs
      BY <1>23 DEF Jobs, RenewFails, Stops, jobStep, queueVars
    <3>2. job[w][s] \in Jobs
      OBVIOUS
    <3>3. [job[w][s] EXCEPT !.kept = FALSE] \in Jobs
      BY <3>2, JobUpdated
    <3> QED
      BY <3>1, <3>3, JobReplaced
  <2>4. JobNamesRow'
    BY <1>23 DEF RenewFails, OwnsRow, Stops, Fault, jobStep, queueVars
  <2>5. BatchPlaces'
    BY <1>23 DEF RenewFails, OwnsRow, Stops, Fault, jobStep, queueVars
  <2>6. OneHolder'
    BY <1>23 DEF RenewFails, OwnsRow, Stops, Fault, jobStep, queueVars
  <2> QED
    BY <2>1, <2>2, <2>3, <2>4, <2>5, <2>6 DEF QueueInv
<1>24. ASSUME NEW w \in Workers, NEW s \in Sources, Release(w, s) PROVE QueueInv'
  <2>1. RowsTyped'
    BY <1>24 DEF Release, Ends, At, Held, RowReleased, OwnsRow, Leaves
  <2>2. ClaimTyped'
    BY <1>24 DEF Release, Ends, At, Held, RowReleased, OwnsRow, Leaves
  <2>3. JobTyped'
    BY <1>24 DEF Release, Ends, At, Held, RowReleased, OwnsRow, Leaves
  <2>4. JobNamesRow'
    BY <1>24 DEF Release, Ends, At, Held, RowReleased, OwnsRow, Leaves
  <2>5. BatchPlaces'
    BY <1>24 DEF Release, Ends, At, Held, RowReleased, OwnsRow, Leaves
  <2>6. OneHolder'
    BY <1>24 DEF Release, Ends, At, Held, RowReleased, OwnsRow, Leaves
  <2> QED
    BY <2>1, <2>2, <2>3, <2>4, <2>5, <2>6 DEF QueueInv
<1>25. ASSUME NEW w \in Workers, NEW s \in Sources, ReleaseRaises(w, s) PROVE QueueInv'
  <2>1. RowsTyped'
    BY <1>25 DEF ReleaseRaises, Ends, At, Held, RowReleased, OwnsRow, Leaves, Fault
  <2>2. ClaimTyped'
    <3>1. CASE UNCHANGED claim
      BY <3>1
    <3>2. CASE RowReleased(w, s)
      BY <3>2 DEF RowReleased
    <3> QED
      BY <1>25, <3>1, <3>2 DEF ReleaseRaises
  <2>3. JobTyped'
    BY <1>25 DEF ReleaseRaises, Ends, At, Held, RowReleased, OwnsRow, Leaves, Fault
  <2>4. JobNamesRow'
    BY <1>25 DEF ReleaseRaises, Ends, At, Held, RowReleased, OwnsRow, Leaves, Fault
  <2>5. BatchPlaces'
    <3>1. job' = [job EXCEPT ![w] = [job[w] EXCEPT ![s] = NoJob]] /\ UNCHANGED <<rowId, wpc>>
      BY <1>25 DEF ReleaseRaises, Leaves
    <3>2. \A x \in Sources : claim'[x] = claim[x] \/ claim'[x] = Unclaimed
      <4>1. CASE UNCHANGED claim
        BY <4>1
      <4>2. CASE RowReleased(w, s)
        BY <4>2 DEF RowReleased
      <4> QED
        BY <1>25, <4>1, <4>2 DEF ReleaseRaises
    <3>3. \A v \in Workers : wpc'[v] \in {"off", "cycle"} => \A x \in Sources : job'[v][x].at = "none"
      BY <3>1
    <3>4. \A x \in Sources : claim'[x].by # NoWorker => rowId'[x] # 0
      <4>1. \A x \in Sources : claim[x].by # NoWorker => rowId[x] # 0
        BY DEF BatchPlaces
      <4>2. rowId' = rowId /\ Unclaimed.by = NoWorker
        BY <3>1
      <4> HIDE DEF QueueInv, RowsTyped, ClaimTyped, JobTyped, JobNamesRow, BatchPlaces, OneHolder, Unclaimed
      <4> QED
        BY <3>2, <4>1, <4>2
    <3> QED
      BY <3>1, <3>3, <3>4
  <2>6. OneHolder'
    BY <1>25 DEF ReleaseRaises, Ends, At, Held, RowReleased, OwnsRow, Leaves, Fault
  <2> QED
    BY <2>1, <2>2, <2>3, <2>4, <2>5, <2>6 DEF QueueInv
<1>26. CASE UNCHANGED probeVars
  <2>1. RowsTyped'
    BY <1>26 DEF probeVars, queueVars
  <2>2. ClaimTyped'
    BY <1>26 DEF probeVars, queueVars
  <2>3. JobTyped'
    BY <1>26 DEF probeVars, queueVars
  <2>4. JobNamesRow'
    BY <1>26 DEF probeVars, queueVars
  <2>5. BatchPlaces'
    BY <1>26 DEF probeVars, queueVars
  <2>6. OneHolder'
    BY <1>26 DEF probeVars, queueVars
  <2> QED
    BY <2>1, <2>2, <2>3, <2>4, <2>5, <2>6 DEF QueueInv
<1> QED
  BY <1>1, <1>2, <1>3, <1>4, <1>5, <1>6, <1>7, <1>8, <1>9, <1>10, <1>11, <1>12, <1>13, <1>14,
     <1>15, <1>16, <1>17, <1>18, <1>19, <1>20, <1>21, <1>22, <1>23, <1>24, <1>25, <1>26
  DEF ProbeNext, QueueStep, WorkerStep, RowStep

LEMMA QueueInvariance == ProbeSpec => []QueueInv
  BY InitQueueInv, NextQueueInv, PTL DEF ProbeSpec

(***************************************************************************)
(* What follows for the code.                                              *)
(***************************************************************************)

\* Rows, claims and batches are what they are said to be, however many workers and
\* faults there are; a job names a row, and only a row in hand is renewed.
THEOREM ProbeTypeCorrect == ProbeSpec => []ProbeTypeOK
  BY QueueInvariance, TypeParts, PTL DEF QueueInv

\* Two workers are at Emby with the same row only if its claim ran out while one of them
\* had it (claim_probe_queue_items), whatever is removed, retried, stopped or killed.
THEOREM AlwaysOneProber == ProbeSpec => []OneProber
<1>1. QueueInv => OneProber
  BY DEF QueueInv, OneHolder, OpenJob, Probing, OneProber
<1> QED
  BY QueueInvariance, <1>1, PTL

\* A row that keeps its claim and its jobs, or that loses its claim, is not stranded anew.
LEMMA StaysOfABatch ==
  ASSUME ClaimTyped, NEW s \in Sources,
         \/ rowId'[s] = rowId[s] /\ claim'[s].by = claim[s].by
         \/ claim'[s].by = NoWorker,
         \A v \in Workers : job'[v][s].id = job[v][s].id
  PROVE  s \in Stranded' => s \in Stranded
<1>1. claim[s].by \in Workers \cup {NoWorker}
  BY DEF ClaimTyped, Claimants
<1> QED
  BY <1>1 DEF Stranded, OwnsRow

LEMMA StrandedByFaults ==
  ASSUME QueueInv, ProbeNext, NEW s \in Sources, s \in Stranded', s \notin Stranded
  PROVE  \/ faults' > faults
         \/ \E w \in Workers : claim'[s].by = w /\ wpc[w] = "aborting" /\ Slots[w] = 1
<1> USE DEF QueueInv
<1>0. /\ faults \in Nat /\ claim[s].by \in Workers \cup {NoWorker}
      /\ \A v \in Workers, x \in Sources : job[v][x].at = "none" <=> job[v][x].id = 0
      /\ s \in Stranded => FALSE
  BY ProbeBoundAssumption DEF RowsTyped, ClaimTyped, Claimants, JobNamesRow
<1> DEFINE SameJobs == \A v \in Workers : job'[v][s].id = job[v][s].id
           Kept == rowId'[s] = rowId[s] /\ claim'[s].by = claim[s].by
<1>a. ASSUME SameJobs, Kept \/ claim'[s].by = NoWorker PROVE FALSE
  BY <1>0, <1>a, StaysOfABatch
<1>b. ASSUME NEW k \in ProbeEvents, Fault(k) PROVE faults' > faults
  BY <1>0, <1>b DEF Fault
<1>c. ASSUME NEW w \in Workers, WorkerEnds(w), wpc[w] \in {"off", "cycle"} PROVE SameJobs
  <2>1. job' = [job EXCEPT ![w] = [x \in Sources |-> NoJob]] /\ job[w][s].id = 0
    BY <1>0, <1>c DEF WorkerEnds, BatchPlaces
  <2> QED
    BY <2>1 DEF JobTyped, NoJob
<1>d. ASSUME NEW x \in Sources, Insert(x), UNCHANGED job PROVE FALSE
  <2>1. Kept \/ claim'[s].by = NoWorker
    BY <1>d, Inserted DEF Unclaimed
  <2> QED
    BY <1>a, <1>d, <2>1
<1>e. ASSUME UNCHANGED <<rowId, claim, job>> PROVE FALSE
  BY <1>a, <1>e
<1>f. ASSUME NEW x \in Sources, DeleteRow(x), UNCHANGED job PROVE FALSE
  <2>1. Kept \/ claim'[s].by = NoWorker
    BY <1>f DEF DeleteRow, Unclaimed, RowsTyped, ClaimTyped
  <2> QED
    BY <1>a, <1>f, <2>1
<1>1. CASE \E x \in Sources : QueueStep(x)
  <2> PICK x \in Sources : QueueStep(x)
    BY <1>1
  <2>1. CASE Collect(x)
    BY <1>e, <2>1 DEF Collect, queueVars, workVars
  <2>2. CASE RetryItem(x)
    BY <1>d, <2>2 DEF RetryItem, workVars
  <2>3. CASE RemoveItem(x) \/ RemoveIdle(x)
    BY <1>f, <2>3 DEF RemoveItem, RemoveIdle, workVars
  <2>4. CASE RowExpires(x)
    <3>1. claim' = [claim EXCEPT ![x] = [claim[x] EXCEPT !.live = FALSE]] /\ UNCHANGED <<rowId, job>>
      BY <2>4 DEF RowExpires
    <3>2. Kept
      BY <3>1 DEF ClaimTyped, Claimants
    <3> QED
      BY <1>a, <3>1, <3>2
  <2> QED
    BY <2>1, <2>2, <2>3, <2>4 DEF QueueStep
<1>2. CASE Flush
  <2>1. found \in Sources /\ UNCHANGED job
    BY <1>2 DEF Flush, RowsTyped, workVars
  <2> QED
    BY <1>2, <1>d, <1>e, <2>1 DEF Flush, queueVars
<1>3. ASSUME NEW w \in Workers, WorkerStep(w) \/ StopWorker(w) \/ CrashWorker(w)
      PROVE  \/ faults' > faults
             \/ \E v \in Workers : claim'[s].by = v /\ wpc[v] = "aborting" /\ Slots[v] = 1
  <2>1. CASE StartWorker(w) \/ EndBatch(w) \/ StopWorker(w)
    BY <1>e, <2>1 DEF StartWorker, EndBatch, StopWorker, jobStep, queueVars
  <2>2. CASE NothingToDo(w)
    BY <1>a, <1>c, <2>2 DEF NothingToDo, queueVars
  <2>3. CASE Abort(w)
    <3>1. UNCHANGED <<rowId, claim>> /\ job' = [job EXCEPT ![w] = [x \in Sources |-> NoJob]]
          /\ wpc[w] = "aborting"
      BY <2>3 DEF Abort, WorkerEnds, queueVars
    <3>2. CASE claim[s].by = w
      BY <3>1, <3>2 DEF BatchPlaces
    <3>3. CASE claim[s].by # w
      <4>1. claim[s].by \in Workers => job'[claim[s].by][s] = job[claim[s].by][s]
        BY <3>1, <3>3 DEF JobTyped
      <4> QED
        BY <1>0, <3>1, <4>1 DEF Stranded, OwnsRow
    <3> QED
      BY <3>2, <3>3
  <2>4. CASE CrashWorker(w) \/ \E B \in SUBSET Sources : BatchClaimRaises(w, B)
    BY <1>0, <2>4 DEF CrashWorker, BatchClaimRaises, Fault
  <2>5. ASSUME NEW B \in SUBSET Sources, TakeBatch(w, B) PROVE FALSE
    <3> DEFINE j == [x \in Sources |->
                 IF x \in B THEN [at |-> "unstarted", id |-> rowId[x], kept |-> FALSE, ok |-> FALSE]
                            ELSE NoJob]
    <3>1. UNCHANGED rowId /\ job' = [job EXCEPT ![w] = j] /\ wpc[w] = "cycle"
          /\ claim' = [x \in Sources |-> IF x \in B THEN [by |-> w, live |-> TRUE] ELSE claim[x]]
      BY <2>5 DEF TakeBatch, Claimed
    <3>2. CASE s \in B
      <4>1. claim'[s].by = w /\ job'[w][s].id = rowId'[s]
        BY <3>1, <3>2 DEF JobTyped
      <4> QED
        BY <4>1 DEF Stranded, OwnsRow
    <3>3. CASE s \notin B
      <4>1. job[w][s].id = 0 /\ j[s].id = 0
        BY <1>0, <3>1, <3>3 DEF BatchPlaces, NoJob
      <4>2. SameJobs /\ Kept
        BY <3>1, <3>3, <4>1 DEF JobTyped
      <4> QED
        BY <1>a, <4>2
    <3> QED
      BY <3>2, <3>3
  <2> QED
    BY <1>3, <2>1, <2>2, <2>3, <2>4, <2>5 DEF WorkerStep
<1>4. ASSUME NEW w \in Workers, NEW x \in Sources, RowStep(w, x) PROVE faults' > faults
  <2>1. ASSUME NEW j \in Jobs, j.id = job[w][x].id, job' = [job EXCEPT ![w] = [job[w] EXCEPT ![x] = j]]
        PROVE  SameJobs
    BY <2>1 DEF JobTyped
  <2>2. job[w][x] \in Jobs
    BY DEF JobTyped
  <2>3. ASSUME NEW at \in InHand, Goes(w, x, at) PROVE SameJobs
    <3>1. [job[w][x] EXCEPT !.at = at] \in Jobs /\ [job[w][x] EXCEPT !.at = at].id = job[w][x].id
      BY <2>2 DEF Jobs
    <3> QED
      BY <2>1, <2>3, <3>1 DEF Goes
  <2>4. CASE Start(w, x) \/ Probed(w, x) \/ FinalRenewFails(w, x) \/ CommitRefused(w, x) \/ RenewFails(w, x)
    <3>1. UNCHANGED <<rowId, claim>>
      BY <2>4 DEF Start, Probed, FinalRenewFails, CommitRefused, RenewFails, jobStep, queueVars
    <3>2. CASE Start(w, x)
      <4> DEFINE j == [job[w][x] EXCEPT !.at = IF flag[w] THEN "ending" ELSE "probing", !.kept = TRUE]
      <4>1. j \in Jobs /\ j.id = job[w][x].id
        BY <2>2 DEF Jobs, InHand
      <4>2. job' = [job EXCEPT ![w] = [job[w] EXCEPT ![x] = j]]
        BY <3>2 DEF Start
      <4> QED
        BY <1>a, <2>1, <3>1, <4>1, <4>2
    <3>3. CASE RenewFails(w, x)
      <4> DEFINE j == [job[w][x] EXCEPT !.kept = FALSE]
      <4>1. j \in Jobs /\ j.id = job[w][x].id
        BY <2>2 DEF Jobs
      <4>2. job' = [job EXCEPT ![w] = [job[w] EXCEPT ![x] = j]]
        BY <3>3 DEF RenewFails
      <4> QED
        BY <1>a, <2>1, <3>1, <4>1, <4>2
    <3>4. CASE Probed(w, x) \/ FinalRenewFails(w, x) \/ CommitRefused(w, x)
      BY <1>a, <2>3, <3>1, <3>4 DEF Probed, FinalRenewFails, CommitRefused, InHand
    <3> QED
      BY <2>4, <3>2, <3>3, <3>4
  <2>5. CASE FinalRenew(w, x) \/ Renew(w, x)
    <3>1. claim' = [claim EXCEPT ![x] = [claim[x] EXCEPT !.live = TRUE]] /\ UNCHANGED rowId
      BY <2>5 DEF FinalRenew, Renew
    <3>2. Kept
      BY <3>1 DEF ClaimTyped, Claimants
    <3>3. CASE Renew(w, x)
      BY <1>a, <3>2, <3>3 DEF Renew, workVars
    <3>4. ASSUME NEW ok \in BOOLEAN, job' = [job EXCEPT ![w][x] = [@ EXCEPT !.at = "fenced", !.ok = ok]]
          PROVE  SameJobs
      <4> DEFINE j == [job[w][x] EXCEPT !.at = "fenced", !.ok = ok]
      <4>1. j \in Jobs /\ j.id = job[w][x].id
        BY <2>2 DEF Jobs, InHand
      <4>2. job' = [job EXCEPT ![w] = [job[w] EXCEPT ![x] = j]]
        BY <3>4
      <4> QED
        BY <2>1, <4>1, <4>2
    <3> QED
      BY <1>a, <2>5, <3>2, <3>3, <3>4 DEF FinalRenew
  <2>6. CASE Commit(w, x)
    <3>1. job' = [job EXCEPT ![w] = [job[w] EXCEPT ![x] = NoJob]]
      BY <2>6 DEF Commit, Leaves
    <3>2. claim' = [claim EXCEPT ![x] = Unclaimed] /\ \A y \in Sources : y # x => rowId'[y] = rowId[y]
      BY <2>6, Concluded DEF Commit, Result
    <3>3. CASE s = x
      BY <1>0, <3>2, <3>3 DEF Stranded, Unclaimed, ClaimTyped
    <3>4. CASE s # x
      <4>1. SameJobs /\ Kept
        BY <3>1, <3>2, <3>4 DEF JobTyped, ClaimTyped
      <4> QED
        BY <1>a, <4>1
    <3> QED
      BY <3>3, <3>4
  <2>7. CASE Release(w, x)
    <3>1. /\ job' = [job EXCEPT ![w] = [job[w] EXCEPT ![x] = NoJob]] /\ UNCHANGED rowId
          /\ claim' = [claim EXCEPT ![x] = IF OwnsRow(w, x) THEN Unclaimed ELSE claim[x]]
      BY <2>7 DEF Release, Leaves, RowReleased
    <3>2. CASE s = x /\ OwnsRow(w, x)
      BY <3>1, <3>2 DEF Stranded, Unclaimed, ClaimTyped
    <3>3. CASE s = x /\ ~OwnsRow(w, x)
      <4>1. claim'[s] = claim[s] /\ claim[s].by # w
        BY <1>0, <3>1, <3>3 DEF Stranded, ClaimTyped
      <4>2. claim[s].by \in Workers => job'[claim[s].by][s] = job[claim[s].by][s]
        BY <3>1, <4>1 DEF JobTyped
      <4> QED
        BY <1>0, <3>1, <4>1, <4>2 DEF Stranded, OwnsRow
    <3>4. CASE s # x
      <4>1. SameJobs /\ Kept
        BY <3>1, <3>4 DEF JobTyped, ClaimTyped
      <4> QED
        BY <1>a, <4>1
    <3> QED
      BY <3>2, <3>3, <3>4
  <2>8. CASE CommitRaises(w, x) \/ ReleaseRaises(w, x)
    BY <1>0, <2>8 DEF CommitRaises, ReleaseRaises, Fault
  <2> QED
    BY <1>4, <2>4, <2>5, <2>6, <2>7, <2>8 DEF RowStep
<1> QED
  BY <1>1, <1>2, <1>3, <1>4 DEF ProbeNext

\* A claim stays behind without a batch only where a process dies, the claim or the release
\* raises, or an exception ends a worker of one slot (_handle_queue_items): no stop, failed
\* row or lost claim leaves one, and no exception of a pool.
THEOREM ClaimsLeftByFaultsOnly == ProbeSpec => NoClaimLeftBehind
<1>1. ASSUME QueueInv, [ProbeNext]_probeVars
      PROVE  [\A s \in Stranded' \ Stranded :
                \/ faults' > faults
                \/ \E w \in Workers : claim'[s].by = w /\ wpc[w] = "aborting" /\ Slots[w] = 1]_probeVars
  <2>1. Stranded \subseteq Sources /\ Stranded' \subseteq Sources
    BY DEF Stranded
  <2>2. CASE ProbeNext
    BY <1>1, <2>1, <2>2, StrandedByFaults
  <2> QED
    BY <1>1, <2>2
<1> QED
  BY QueueInvariance, <1>1, PTL DEF ProbeSpec, NoClaimLeftBehind

(***************************************************************************)
(* Who may run a probe.                                                    *)
(***************************************************************************)

ThreadRecords ==
  [pc : {"none", "run", "closing", "done"}, gen : Gens, stop : BOOLEAN, run : Runs \cup {NoRun}]
SeqRecords ==
  [pc : {"none", "run", "waits", "closing", "done"}, gen : Gens, stop : BOOLEAN,
   todo : SUBSET Servers, at : Servers \cup {NoServer}, child : Gens]
ComboRecords ==
  [phase : 1..2, at : {"begin", "checked", "called", "waits"}, begun : BOOLEAN, child : Gens, own : Gens]
DeletionRecords ==
  [server : Servers \cup {NoServer}, at : {"none", "joins", "quiet"},
   local : SUBSET Handles, global : SUBSET SeqHandles]
ClosingRecords ==
  [at : {"no", "refuses", "joins", "closed"}, local : SUBSET Handles, global : SUBSET SeqHandles]

ThreadsTyped ==
  /\ thread \in [Servers -> [Keys -> ThreadRecords]]
  /\ starts \in [Servers -> [Keys -> Gens]]
  /\ \A s \in Servers, k \in Keys : thread[s][k].gen <= starts[s][k]
PausesTyped == pause \in [Servers -> BOOLEAN]
CombosTyped == combo \in [Servers -> [ComboKeys -> ComboRecords]]
SequencesTyped == seq \in [Sequences -> SeqRecords] /\ seqStarts \in [Sequences -> Gens]
DeletionTyped == quiescing \subseteq Servers /\ deletion \in DeletionRecords
ClosingTyped == accept \in BOOLEAN /\ closing \in ClosingRecords
RunsTyped == cancelled \subseteq Runs /\ begun \subseteq Runs /\ stopped \subseteq Runs

\* A thread that lives has a number.
Numbered == \A s \in Servers, k \in Keys : Alive(s, k) => thread[s][k].gen # 0

\* A deletion has the fence of its server, and there is none without a server.
Fenced ==
  /\ deletion.at # "none" => deletion.server \in quiescing
  /\ deletion.at = "none" => deletion.server = NoServer

\* No thread lives behind a fence, unless its deletion still waits for it.
QuietBehindFence ==
  \A s \in quiescing : (deletion.server = s => deletion.at = "quiet") => \A k \in Keys : ~Alive(s, k)

\* A shutdown lets nobody in, waits for everybody who lives, and when it has returned nobody does.
ClosingWaits ==
  /\ closing.at # "no" => ~accept
  /\ closing.at = "joins" =>
       /\ \A s \in Servers, k \in Keys : Alive(s, k) => <<s, k, thread[s][k].gen>> \in closing.local
       /\ \A q \in Sequences : Lives(seq[q]) => <<q, seq[q].gen>> \in closing.global
  /\ closing.at = "closed" =>
       /\ \A s \in Servers, k \in Keys : ~Alive(s, k)
       /\ \A q \in Sequences : ~Lives(seq[q])

LifeInv ==
  /\ ThreadsTyped /\ PausesTyped /\ CombosTyped /\ SequencesTyped /\ DeletionTyped /\ ClosingTyped
  /\ RunsTyped /\ Numbered /\ Fenced /\ QuietBehindFence /\ ClosingWaits

LEMMA KeysOfThreads ==
  /\ PlainKeys \subseteq Keys /\ ComboKeys \subseteq Keys
  /\ \A c \in ComboKeys, n \in 1..2 : ChildOf[c][n] \in PlainKeys
  /\ \A q \in Sequences : StepOf[q] \in PlainKeys
  /\ PlainKeys \cap ComboKeys = {} /\ (Runs # {} => RunKey \in ComboKeys)
  BY ProbeKeyAssumption DEF Keys

LEMMA NothingYet ==
  NoThread \in ThreadRecords /\ NoThread.pc = "none" /\ NoThread.gen = 0
  BY DEF NoThread, ThreadRecords, Gens

LEMMA InitLifeInv == LifeInit => LifeInv
<1> SUFFICES ASSUME LifeInit PROVE LifeInv
  OBVIOUS
<1> USE DEF LifeInit
<1>1. ThreadsTyped /\ PausesTyped
  BY NothingYet DEF ThreadsTyped, PausesTyped, Gens
<1>2. CombosTyped
  <2>1. NoCombo \in ComboRecords
    BY DEF NoCombo, ComboRecords, Gens
  <2> QED
    BY <2>1 DEF CombosTyped
<1>3. SequencesTyped /\ NoSeq.pc = "none"
  <2>1. NoSeq \in SeqRecords /\ NoSeq.pc = "none"
    BY DEF NoSeq, SeqRecords, Gens
  <2> QED
    BY <2>1 DEF SequencesTyped, Gens
<1>4. DeletionTyped /\ Fenced /\ QuietBehindFence
  BY DEF DeletionTyped, Fenced, QuietBehindFence, NoDeletion, DeletionRecords
<1>5. ClosingTyped /\ ClosingWaits
  BY DEF ClosingTyped, ClosingWaits, NotClosing, ClosingRecords
<1>6. RunsTyped /\ Numbered
  BY NothingYet DEF RunsTyped, Numbered, Alive, Lives
<1> QED
  BY <1>1, <1>2, <1>3, <1>4, <1>5, <1>6 DEF LifeInv

-----------------------------------------------------------------------------

\* A thread is alive after a step only if it was, or was started where that is allowed.
NoneRises ==
  \A s \in Servers, k \in Keys :
    thread'[s][k].pc \in {"run", "waits", "closing"} =>
      \/ Alive(s, k) /\ thread'[s][k].gen = thread[s][k].gen
      \/ MayStart(s) /\ thread'[s][k].gen # 0
NoSequenceRises ==
  \A q \in Sequences :
    seq'[q].pc \in {"run", "waits", "closing"} =>
      (Lives(seq[q]) /\ seq'[q].gen = seq[q].gen) \/ accept

LEMMA RequestsKeep ==
  ASSUME LifeInv, ThreadsTyped', PausesTyped', CombosTyped', SequencesTyped', RunsTyped',
         UNCHANGED <<accept, quiescing, deletion, closing>>, NoneRises, NoSequenceRises
  PROVE  LifeInv'
<1> USE DEF LifeInv
<1>1. DeletionTyped' /\ ClosingTyped' /\ Fenced'
  BY DEF DeletionTyped, ClosingTyped, Fenced
<1>2. Numbered'
  BY DEF Numbered, NoneRises, Alive, Lives
<1>3. QuietBehindFence'
  BY DEF QuietBehindFence, NoneRises, Alive, Lives, MayStart, DeletionTyped
<1>4. ClosingWaits'
  BY DEF ClosingWaits, NoneRises, NoSequenceRises, Alive, Lives, MayStart
<1> QED
  BY <1>1, <1>2, <1>3, <1>4

\* One thread becomes another.
Becomes(s, k, t) == thread' = [thread EXCEPT ![s][k] = t]

LEMMA OneThreadIs ==
  ASSUME ThreadsTyped, NEW s \in Servers, NEW k \in Keys, NEW t \in ThreadRecords,
         Becomes(s, k, t)
  PROVE  /\ thread' \in [Servers -> [Keys -> ThreadRecords]] /\ thread'[s][k] = t
         /\ \A u \in Servers, j \in Keys : u # s \/ j # k => thread'[u][j] = thread[u][j]
<1>0. thread \in [Servers -> [Keys -> ThreadRecords]]
  BY DEF ThreadsTyped
<1> DEFINE row == [thread[s] EXCEPT ![k] = t]
<1>1. row \in [Keys -> ThreadRecords] /\ row[k] = t /\ \A j \in Keys : j # k => row[j] = thread[s][j]
  BY <1>0
<1>2. thread' = [thread EXCEPT ![s] = row]
  BY DEF Becomes
<1> HIDE DEF row
<1>3. /\ thread' \in [Servers -> [Keys -> ThreadRecords]] /\ thread'[s] = row
      /\ \A u \in Servers : u # s => thread'[u] = thread[u]
  BY <1>0, <1>1, <1>2
<1> QED
  BY <1>1, <1>3

\* A thread that is over, or that may start, in the place of another.
LEMMA OneThreadTurns ==
  ASSUME ThreadsTyped, NEW s \in Servers, NEW k \in Keys, NEW t \in ThreadRecords,
         Becomes(s, k, t),
         starts' \in [Servers -> [Keys -> Gens]],
         \A u \in Servers, j \in Keys : starts[u][j] <= starts'[u][j],
         t.gen <= starts'[s][k],
         Lives(t) => \/ Alive(s, k) /\ t.gen = thread[s][k].gen
                     \/ MayStart(s) /\ t.gen # 0
  PROVE  ThreadsTyped' /\ NoneRises
<1>1. /\ thread' \in [Servers -> [Keys -> ThreadRecords]] /\ thread'[s][k] = t
      /\ \A u \in Servers, j \in Keys : u # s \/ j # k => thread'[u][j] = thread[u][j]
  BY OneThreadIs
<1>2. \A u \in Servers, j \in Keys : thread'[u][j].gen <= starts'[u][j]
  <2> SUFFICES ASSUME NEW u \in Servers, NEW j \in Keys PROVE thread'[u][j].gen <= starts'[u][j]
    OBVIOUS
  <2>1. CASE u = s /\ j = k
    BY <1>1, <2>1
  <2>2. CASE u # s \/ j # k
    <3>1. thread'[u][j] = thread[u][j] /\ thread[u][j].gen <= starts[u][j]
          /\ starts[u][j] <= starts'[u][j]
      BY <1>1, <2>2 DEF ThreadsTyped
    <3>2. thread[u][j].gen \in Nat /\ starts[u][j] \in Nat /\ starts'[u][j] \in Nat
      BY DEF ThreadsTyped, ThreadRecords, Gens
    <3> QED
      BY <3>1, <3>2
  <2> QED
    BY <2>1, <2>2
<1>3. NoneRises
  BY <1>1 DEF NoneRises, Alive, Lives
<1> QED
  BY <1>1, <1>2, <1>3 DEF ThreadsTyped

\* One thread goes from one place to another.
LEMMA OneThreadGoes ==
  ASSUME ThreadsTyped, NEW s \in Servers, NEW k \in Keys,
         NEW place \in {"run", "closing", "done"},
         thread' = [thread EXCEPT ![s][k].pc = place], starts' = starts,
         place = "done" \/ Alive(s, k)
  PROVE  ThreadsTyped' /\ NoneRises
<1>1. \E t \in ThreadRecords :
        t.pc = place /\ t.gen = thread[s][k].gen /\ Becomes(s, k, t)
  <2> DEFINE t == [thread[s][k] EXCEPT !.pc = place]
  <2>1. thread[s][k] \in ThreadRecords
    BY DEF ThreadsTyped
  <2>2. t \in ThreadRecords /\ t.pc = place /\ t.gen = thread[s][k].gen
    BY <2>1 DEF ThreadRecords
  <2>3. Becomes(s, k, t)
    BY DEF ThreadsTyped, Becomes
  <2> HIDE DEF t
  <2> QED
    BY <2>2, <2>3
<1>2. PICK t \in ThreadRecords :
        t.pc = place /\ t.gen = thread[s][k].gen /\ Becomes(s, k, t)
  BY <1>1
<1>3. /\ starts' \in [Servers -> [Keys -> Gens]]
      /\ \A u \in Servers, j \in Keys : starts[u][j] <= starts'[u][j]
      /\ thread[s][k].gen <= starts'[s][k]
  BY DEF ThreadsTyped, Gens
<1> QED
  BY <1>2, <1>3, OneThreadTurns DEF Lives

\* No thread keeps its number and is lost; a new one has the next.
LEMMA OneThreadGone ==
  ASSUME ThreadsTyped, NEW s \in Servers, NEW k \in Keys,
         thread' = [thread EXCEPT ![s][k] = NoThread], starts' = starts
  PROVE  ThreadsTyped' /\ NoneRises
<1>1. Becomes(s, k, NoThread)
  BY DEF Becomes
<1>2. /\ starts' \in [Servers -> [Keys -> Gens]]
      /\ \A u \in Servers, j \in Keys : starts[u][j] <= starts'[u][j]
      /\ NoThread.gen <= starts'[s][k]
  BY NothingYet DEF ThreadsTyped, Gens
<1> QED
  BY <1>1, <1>2, NothingYet, OneThreadTurns DEF Lives

LEMMA OneThreadStarts ==
  ASSUME ThreadsTyped, NEW s \in Servers, NEW k \in Keys, NEW r \in Runs \cup {NoRun}, MayStart(s),
         thread' = [thread EXCEPT ![s][k] = New(s, k, r)],
         starts' = [starts EXCEPT ![s][k] = @ + 1]
  PROVE  ThreadsTyped' /\ NoneRises
<1>1. starts \in [Servers -> [Keys -> Nat]] /\ starts[s][k] \in Nat
  BY DEF ThreadsTyped, Gens
<1>2. \E t \in ThreadRecords : t.gen = starts[s][k] + 1 /\ Becomes(s, k, t)
  <2>1. New(s, k, r) \in ThreadRecords /\ New(s, k, r).gen = starts[s][k] + 1
    BY <1>1 DEF New, ThreadRecords, Gens
  <2>2. Becomes(s, k, New(s, k, r))
    BY DEF Becomes
  <2> QED
    BY <2>1, <2>2
<1>3. PICK t \in ThreadRecords : t.gen = starts[s][k] + 1 /\ Becomes(s, k, t)
  BY <1>2
<1>4. /\ starts' \in [Servers -> [Keys -> Nat]] /\ starts'[s][k] = starts[s][k] + 1
      /\ \A u \in Servers, j \in Keys : u # s \/ j # k => starts'[u][j] = starts[u][j]
  <2> DEFINE row == [starts[s] EXCEPT ![k] = starts[s][k] + 1]
  <2>1. /\ row \in [Keys -> Nat] /\ row[k] = starts[s][k] + 1
        /\ \A j \in Keys : j # k => row[j] = starts[s][j]
    BY <1>1
  <2>2. starts' = [starts EXCEPT ![s] = row]
    OBVIOUS
  <2> HIDE DEF row
  <2>3. /\ starts' \in [Servers -> [Keys -> Nat]] /\ starts'[s] = row
        /\ \A u \in Servers : u # s => starts'[u] = starts[u]
    BY <1>1, <2>1, <2>2
  <2> QED
    BY <2>1, <2>3
<1>5. \A u \in Servers, j \in Keys : starts[u][j] <= starts'[u][j]
  <2> SUFFICES ASSUME NEW u \in Servers, NEW j \in Keys PROVE starts[u][j] <= starts'[u][j]
    OBVIOUS
  <2>1. starts[u][j] \in Nat
    BY <1>1
  <2> QED
    BY <1>4, <2>1
<1>6. starts' \in [Servers -> [Keys -> Gens]] /\ t.gen <= starts'[s][k] /\ t.gen # 0
  BY <1>1, <1>3, <1>4 DEF Gens
<1> QED
  BY <1>3, <1>5, <1>6, OneThreadTurns DEF Lives

LEMMA PauseStaysTyped ==
  ASSUME PausesTyped, NEW s \in Servers, NEW b \in BOOLEAN,
         pause' = [pause EXCEPT ![s] = b]
  PROVE  PausesTyped'
  BY DEF PausesTyped

LEMMA StartThreadKeeps ==
  ASSUME ThreadsTyped, PausesTyped, NEW s \in Servers, NEW k \in Keys, NEW r \in Runs \cup {NoRun},
         NEW got, StartThread(s, k, r, got)
  PROVE  ThreadsTyped' /\ PausesTyped' /\ NoneRises
<1>1. CASE UNCHANGED <<thread, starts, pause>>
  BY <1>1 DEF ThreadsTyped, PausesTyped, NoneRises, Alive, Lives
<1>2. CASE UNCHANGED <<thread, starts>> /\ pause' = [pause EXCEPT ![s] = @ \/ k = RecentProcessing]
  <2>1. PausesTyped'
    BY <1>2 DEF PausesTyped
  <2> QED
    BY <1>2, <2>1 DEF ThreadsTyped, NoneRises, Alive, Lives
<1>3. CASE /\ MayStart(s) /\ starts' = [starts EXCEPT ![s][k] = @ + 1]
           /\ thread' = [thread EXCEPT ![s][k] = New(s, k, r)]
           /\ pause' = [pause EXCEPT ![s] = @ \/ k = RecentProcessing]
  <2>1. PausesTyped'
    BY <1>3 DEF PausesTyped
  <2>2. ThreadsTyped' /\ NoneRises
    BY <1>3, OneThreadStarts
  <2> QED
    BY <2>1, <2>2
<1>4. CASE /\ thread' = [thread EXCEPT ![s][k] = NoThread] /\ starts' = starts
           /\ pause' = [pause EXCEPT ![s] = @ /\ k # RecentProcessing]
  <2>1. PausesTyped'
    BY <1>4 DEF PausesTyped
  <2>2. ThreadsTyped' /\ NoneRises
    BY <1>4, OneThreadGone
  <2> QED
    BY <2>1, <2>2
<1> QED
  BY <1>1, <1>2, <1>3, <1>4 DEF StartThread

-----------------------------------------------------------------------------

LEMMA NoSequence ==
  ASSUME seq' = seq
  PROVE  NoSequenceRises
  BY DEF NoSequenceRises, Lives

LEMMA FreshCombo ==
  /\ NoCombo \in ComboRecords /\ [NoCombo EXCEPT !.phase = 2] \in ComboRecords
<1>1. NoCombo \in ComboRecords
  BY DEF NoCombo, ComboRecords, Gens
<1> QED
  BY <1>1 DEF ComboRecords

LEMMA CallStartKeeps ==
  ASSUME LifeInv, NEW s \in Servers, NEW k \in Keys, CallStart(s, k)
  PROVE  LifeInv'
<1> USE DEF LifeInv
<1>1. PICK got : StartThread(s, k, NoRun, got)
  BY DEF CallStart
<1>2. ThreadsTyped' /\ PausesTyped' /\ NoneRises
  BY <1>1, StartThreadKeeps
<1>3. CombosTyped'
  <2>1. CASE combo' = combo
    BY <2>1 DEF CombosTyped
  <2>2. CASE k \in ComboKeys /\ combo' = [combo EXCEPT ![s][k] = NoCombo]
    <3> DEFINE row == [combo[s] EXCEPT ![k] = NoCombo]
    <3>1. row \in [ComboKeys -> ComboRecords]
      BY <2>2, FreshCombo DEF CombosTyped
    <3>2. combo' = [combo EXCEPT ![s] = row]
      BY <2>2
    <3> HIDE DEF row
    <3> QED
      BY <3>1, <3>2 DEF CombosTyped
  <2> QED
    BY <2>1, <2>2 DEF CallStart
<1>4. SequencesTyped' /\ RunsTyped' /\ seq' = seq
      /\ UNCHANGED <<accept, quiescing, deletion, closing>>
  BY DEF CallStart, registryVars, SequencesTyped, RunsTyped
<1> QED
  BY <1>2, <1>3, <1>4, NoSequence, RequestsKeep

LEMMA StartRunKeeps ==
  ASSUME LifeInv, NEW r \in Runs, StartRun(r)
  PROVE  LifeInv'
<1> USE DEF LifeInv
<1>0. RunKey \in Keys /\ RunKey \in ComboKeys
  BY KeysOfThreads
<1>1. ThreadsTyped' /\ NoneRises /\ CombosTyped'
  <2>1. CASE UNCHANGED <<thread, starts, combo>>
    BY <2>1 DEF ThreadsTyped, CombosTyped, NoneRises, Alive, Lives
  <2>2. CASE ~ UNCHANGED <<thread, starts, combo>>
    <3> DEFINE into == {s \in Servers : MayStart(s) /\ ~Alive(s, RunKey)}
    <3>1. /\ starts' = [s \in Servers |-> IF s \in into
                              THEN [starts[s] EXCEPT ![RunKey] = @ + 1] ELSE starts[s]]
          /\ thread' = [s \in Servers |-> IF s \in into
                              THEN [thread[s] EXCEPT ![RunKey] = New(s, RunKey, r)] ELSE thread[s]]
          /\ combo' = [s \in Servers |-> IF s \in into
                              THEN [combo[s] EXCEPT ![RunKey] = NoCombo] ELSE combo[s]]
      BY <2>2 DEF StartRun
    <3>2. CombosTyped'
      <4>1. ASSUME NEW s \in Servers PROVE combo'[s] \in [ComboKeys -> ComboRecords]
        BY <1>0, <3>1, FreshCombo DEF CombosTyped
      <4> QED
        BY <3>1, <4>1 DEF CombosTyped
    <3>3. ASSUME NEW s \in Servers
          PROVE  /\ thread'[s] \in [Keys -> ThreadRecords] /\ starts'[s] \in [Keys -> Gens]
                 /\ \A k \in Keys : thread'[s][k].gen <= starts'[s][k]
                 /\ \A k \in Keys :
                      \/ thread'[s][k] = thread[s][k]
                      \/ MayStart(s) /\ thread'[s][k].gen # 0
      <4>0. /\ thread[s] \in [Keys -> ThreadRecords] /\ starts[s] \in [Keys -> Nat]
            /\ \A k \in Keys : thread[s][k].gen <= starts[s][k]
        BY DEF ThreadsTyped, Gens
      <4>1. CASE s \notin into
        <5>1. thread'[s] = thread[s] /\ starts'[s] = starts[s]
          BY <3>1, <4>1
        <5> QED
          BY <4>0, <5>1 DEF Gens
      <4>2. CASE s \in into
        <5>1. PICK t : /\ t \in ThreadRecords /\ t.gen = starts[s][RunKey] + 1
                       /\ thread'[s] = [thread[s] EXCEPT ![RunKey] = t]
          <6>1. starts[s][RunKey] + 1 \in Nat
            BY <1>0, <4>0
          <6>2. New(s, RunKey, r) \in ThreadRecords /\ New(s, RunKey, r).gen = starts[s][RunKey] + 1
            BY <6>1 DEF New, ThreadRecords, Gens
          <6>3. thread'[s] = [thread[s] EXCEPT ![RunKey] = New(s, RunKey, r)]
            BY <3>1, <4>2
          <6> QED
            BY <6>2, <6>3
        <5>2. starts'[s] = [starts[s] EXCEPT ![RunKey] = starts[s][RunKey] + 1] /\ MayStart(s)
          BY <3>1, <4>2
        <5> QED
          BY <1>0, <4>0, <5>1, <5>2 DEF Gens
      <4> QED
        BY <4>1, <4>2
    <3>4. ThreadsTyped'
      <4>1. thread' \in [Servers -> [Keys -> ThreadRecords]]
        BY <3>1, <3>3
      <4>2. starts' \in [Servers -> [Keys -> Gens]]
        BY <3>1, <3>3
      <4> QED
        BY <3>3, <4>1, <4>2 DEF ThreadsTyped
    <3>5. NoneRises
      BY <3>3 DEF NoneRises, Alive, Lives
    <3> QED
      BY <3>2, <3>4, <3>5
  <2> QED
    BY <2>1, <2>2
<1>2. RunsTyped'
  BY DEF StartRun, RunsTyped
<1>3. /\ PausesTyped' /\ SequencesTyped' /\ seq' = seq
      /\ UNCHANGED <<accept, quiescing, deletion, closing>>
  BY DEF StartRun, PausesTyped, SequencesTyped
<1> QED
  BY <1>1, <1>2, <1>3, NoSequence, RequestsKeep

LEMMA SequenceFresh ==
  ASSUME NEW g \in Gens, NEW S \in SUBSET Servers
  PROVE  [NoSeq EXCEPT !.pc = "run", !.gen = g, !.todo = S] \in SeqRecords
<1>1. NoSeq \in SeqRecords
  BY DEF NoSeq, SeqRecords, Gens
<1>2. \A b \in SeqRecords : [b EXCEPT !.pc = "run", !.gen = g, !.todo = S] \in SeqRecords
  BY DEF SeqRecords
<1> QED
  BY <1>1, <1>2

LEMMA CallSequenceKeeps ==
  ASSUME LifeInv, NEW q \in Sequences, CallSequence(q)
  PROVE  LifeInv'
<1> USE DEF LifeInv
<1>1. seqStarts[q] \in Nat /\ seqStarts \in [Sequences -> Nat] /\ seq \in [Sequences -> SeqRecords]
  BY DEF SequencesTyped, Gens
<1>2. PICK rec \in SeqRecords : seq' = [seq EXCEPT ![q] = rec]
  <2> DEFINE rec == [NoSeq EXCEPT !.pc = "run", !.gen = seqStarts[q] + 1,
                                  !.todo = Servers \ {deletion.server}]
  <2>1. seqStarts[q] + 1 \in Gens /\ Servers \ {deletion.server} \in SUBSET Servers
    BY <1>1 DEF Gens
  <2>2. rec \in SeqRecords
    BY <2>1, SequenceFresh
  <2>3. seq' = [seq EXCEPT ![q] = rec]
    BY DEF CallSequence
  <2> HIDE DEF rec
  <2> QED
    BY <2>2, <2>3
<1>3. SequencesTyped' /\ NoSequenceRises
  <2>1. seq' \in [Sequences -> SeqRecords]
    BY <1>1, <1>2
  <2>2. seqStarts' \in [Sequences -> Gens]
    BY <1>1 DEF CallSequence, Gens
  <2>3. accept
    BY DEF CallSequence
  <2> QED
    BY <2>1, <2>2, <2>3 DEF SequencesTyped, NoSequenceRises
<1>4. /\ ThreadsTyped' /\ PausesTyped' /\ CombosTyped' /\ RunsTyped' /\ NoneRises
      /\ UNCHANGED <<accept, quiescing, deletion, closing>>
  BY DEF CallSequence, registryVars, ThreadsTyped, PausesTyped, CombosTyped, RunsTyped,
         NoneRises, Alive, Lives
<1> QED
  BY <1>3, <1>4, RequestsKeep

\* The work of threads, combos and sequences: what stays typed.
LEMMA ThreadStepKeeps ==
  ASSUME LifeInv, NEW s \in Servers, NEW k \in Keys, ThreadStep(s, k)
  PROVE  LifeInv'
<1> USE DEF LifeInv
<1>1. ThreadsTyped' /\ NoneRises
  <2>1. PICK place \in {"run", "closing", "done"} :
          /\ thread' = [thread EXCEPT ![s][k].pc = place] /\ starts' = starts
          /\ place = "done" \/ Alive(s, k)
    BY DEF ThreadStep, WorkEnds, ThreadEnds, plainStep, Alive, Lives
  <2> QED
    BY <2>1, OneThreadGoes
<1>2. PausesTyped'
  BY DEF ThreadStep, WorkEnds, ThreadEnds, PausesTyped
<1>3. /\ CombosTyped' /\ SequencesTyped' /\ RunsTyped' /\ seq' = seq
      /\ UNCHANGED <<accept, quiescing, deletion, closing>>
  BY DEF ThreadStep, WorkEnds, ThreadEnds, plainStep, registryVars, CombosTyped, SequencesTyped,
         RunsTyped
<1> QED
  BY <1>1, <1>2, <1>3, NoSequence, RequestsKeep

\* What a combo changes of its own record.
LEMMA ComboBecomes ==
  ASSUME CombosTyped, NEW s \in Servers, NEW c \in ComboKeys, NEW b \in ComboRecords,
         combo' = [combo EXCEPT ![s][c] = b]
  PROVE  CombosTyped'
<1> DEFINE row == [combo[s] EXCEPT ![c] = b]
<1>1. row \in [ComboKeys -> ComboRecords]
  BY DEF CombosTyped
<1>2. combo' = [combo EXCEPT ![s] = row]
  OBVIOUS
<1> HIDE DEF row
<1> QED
  BY <1>1, <1>2 DEF CombosTyped

LEMMA ChildIsPlain ==
  ASSUME CombosTyped, NEW s \in Servers, NEW c \in ComboKeys
  PROVE  /\ ChildKey(s, c) \in PlainKeys /\ ChildKey(s, c) \in Keys /\ c \in Keys
         /\ ChildKey(s, c) # c
<1>1. combo[s][c] \in ComboRecords
  BY DEF CombosTyped
<1>2. combo[s][c].phase \in 1..2
  BY <1>1 DEF ComboRecords
<1> QED
  BY <1>2, KeysOfThreads DEF ChildKey

LEMMA ThreadIsTyped ==
  ASSUME ThreadsTyped, NEW s \in Servers, NEW k \in Keys
  PROVE  /\ thread[s][k] \in ThreadRecords /\ thread[s][k].run \in Runs \cup {NoRun}
         /\ thread[s][k].gen \in Gens /\ thread[s][k].stop \in BOOLEAN
<1>1. thread[s][k] \in ThreadRecords
  BY DEF ThreadsTyped
<1> QED
  BY <1>1 DEF ThreadRecords

\* The threads of one server change, and none of them comes to life.
LEMMA OneRowGoes ==
  ASSUME ThreadsTyped, NEW s \in Servers, NEW row \in [Keys -> ThreadRecords],
         thread' = [thread EXCEPT ![s] = row], starts' = starts,
         \A k \in Keys : row[k].gen \in {0, thread[s][k].gen},
         \A k \in Keys : Lives(row[k]) => Alive(s, k) /\ row[k].gen = thread[s][k].gen
  PROVE  ThreadsTyped' /\ NoneRises
<1>1. /\ thread' \in [Servers -> [Keys -> ThreadRecords]] /\ thread'[s] = row
      /\ \A u \in Servers : u # s => thread'[u] = thread[u]
  BY DEF ThreadsTyped
<1>2. \A u \in Servers, k \in Keys : thread'[u][k].gen <= starts'[u][k]
  <2> SUFFICES ASSUME NEW u \in Servers, NEW k \in Keys PROVE thread'[u][k].gen <= starts[u][k]
    OBVIOUS
  <2>1. starts[u][k] \in Nat /\ thread[u][k].gen <= starts[u][k]
    BY DEF ThreadsTyped, Gens
  <2>2. CASE u = s
    BY <1>1, <2>1, <2>2
  <2>3. CASE u # s
    BY <1>1, <2>1, <2>3
  <2> QED
    BY <2>2, <2>3
<1>3. NoneRises
  BY <1>1 DEF NoneRises, Alive, Lives
<1> QED
  BY <1>1, <1>2, <1>3 DEF ThreadsTyped

LEMMA ComboRecordGoes ==
  ASSUME NEW b \in ComboRecords, NEW g \in Gens, NEW h \in Gens, NEW begins \in BOOLEAN
  PROVE  /\ [b EXCEPT !.at = "checked"] \in ComboRecords
         /\ [b EXCEPT !.at = "called", !.begun = begins] \in ComboRecords
         /\ [b EXCEPT !.at = "waits", !.child = g, !.own = h] \in ComboRecords
  BY DEF ComboRecords

LEMMA ThreadRecordGoes ==
  ASSUME NEW t \in ThreadRecords, NEW b \in BOOLEAN
  PROVE  /\ [t EXCEPT !.pc = "closing"] \in ThreadRecords
         /\ [t EXCEPT !.pc = "closing"].gen = t.gen
         /\ [t EXCEPT !.stop = b] \in ThreadRecords
         /\ [t EXCEPT !.stop = b].gen = t.gen /\ [t EXCEPT !.stop = b].pc = t.pc
  BY DEF ThreadRecords

\* The step of a combo is a change of its record, of one row of threads, or of both.
LEMMA ComboTypes ==
  ASSUME LifeInv, NEW s \in Servers, NEW c \in ComboKeys, ComboStep(s, c)
  PROVE  CombosTyped'
<1> USE DEF LifeInv
<1>1. combo[s][c] \in ComboRecords
  BY DEF CombosTyped
<1>2. CASE ComboChecks(s, c)
  <2> DEFINE b == [combo[s][c] EXCEPT !.at = "checked"]
  <2>1. b \in ComboRecords
    BY <1>1, ComboRecordGoes DEF Gens
  <2>2. combo' = [combo EXCEPT ![s][c] = b]
    BY <1>2 DEF ComboChecks
  <2> HIDE DEF b
  <2>3. \E x \in ComboRecords : combo' = [combo EXCEPT ![s][c] = x]
    BY <2>1, <2>2
  <2> QED
    BY <2>3, ComboBecomes
<1>3. CASE ComboCalls(s, c)
  <2>1. PICK begins \in BOOLEAN :
          combo' = [combo EXCEPT ![s][c].at = "called", ![s][c].begun = begins]
    BY <1>3 DEF ComboCalls
  <2> DEFINE b == [combo[s][c] EXCEPT !.at = "called", !.begun = begins]
  <2>2. b \in ComboRecords
    BY <1>1, ComboRecordGoes DEF Gens
  <2>3. combo' = [combo EXCEPT ![s][c] = b]
    BY <2>1 DEF CombosTyped
  <2> HIDE DEF b
  <2>4. \E x \in ComboRecords : combo' = [combo EXCEPT ![s][c] = x]
    BY <2>2, <2>3
  <2> QED
    BY <2>4, ComboBecomes
<1>4. CASE ComboLooksUp(s, c)
  <2> DEFINE g == thread[s][ChildKey(s, c)].gen
             h == IF combo[s][c].begun THEN g ELSE 0
             b == [combo[s][c] EXCEPT !.at = "waits", !.child = g, !.own = h]
  <2>1. g \in Gens /\ h \in Gens
    BY ChildIsPlain, ThreadIsTyped DEF Gens
  <2>2. combo' = [combo EXCEPT ![s][c] = b]
    BY <1>4 DEF ComboLooksUp, CombosTyped
  <2>3. b \in ComboRecords
    <3> HIDE DEF g, h
    <3> QED
      BY <1>1, <2>1, ComboRecordGoes
  <2> HIDE DEF b
  <2>4. \E x \in ComboRecords : combo' = [combo EXCEPT ![s][c] = x]
    BY <2>2, <2>3
  <2> QED
    BY <2>4, ComboBecomes
<1>5. CASE ComboGoesOn(s, c)
  <2>1. CASE combo' = combo
    BY <2>1 DEF CombosTyped
  <2>2. CASE combo' = [combo EXCEPT ![s][c] = [NoCombo EXCEPT !.phase = 2]]
    <3>1. \E x \in ComboRecords : combo' = [combo EXCEPT ![s][c] = x]
      BY <2>2, FreshCombo
    <3> QED
      BY <3>1, ComboBecomes
  <2> QED
    BY <1>5, <2>1, <2>2 DEF ComboGoesOn
<1>6. CASE ComboCallRaises(s, c) \/ ComboStops(s, c)
  BY <1>6 DEF ComboCallRaises, ComboStops, CombosTyped
<1> QED
  BY <1>2, <1>3, <1>4, <1>5, <1>6 DEF ComboStep

LEMMA ComboThreads ==
  ASSUME LifeInv, NEW s \in Servers, NEW c \in ComboKeys, ComboStep(s, c)
  PROVE  ThreadsTyped' /\ PausesTyped' /\ NoneRises
<1> USE DEF LifeInv
<1>1. c \in Keys /\ ChildKey(s, c) \in Keys /\ ChildKey(s, c) # c
  BY ChildIsPlain
<1>2. CASE UNCHANGED <<thread, starts, pause>>
  BY <1>2 DEF ThreadsTyped, PausesTyped, NoneRises, Alive, Lives
<1>3. CASE ComboCalls(s, c)
  <2>1. \E got : StartThread(s, ChildKey(s, c), thread[s][c].run, got)
    BY <1>3 DEF ComboCalls
  <2>2. thread[s][c].run \in Runs \cup {NoRun}
    BY <1>1, ThreadIsTyped
  <2> QED
    BY <1>1, <2>1, <2>2, StartThreadKeeps
<1>4. CASE ComboCloses(s, c) /\ UNCHANGED <<starts, pause>> /\ thread[s][c].pc = "run"
  <2>1. ThreadsTyped' /\ NoneRises
    BY <1>1, <1>4, OneThreadGoes DEF ComboCloses, Alive, Lives
  <2> QED
    BY <1>4, <2>1 DEF PausesTyped
<1>5. CASE ComboCallRaises(s, c)
  <2>1. PausesTyped'
    BY <1>5 DEF ComboCallRaises, PausesTyped
  <2> DEFINE t == [thread[s][c] EXCEPT !.pc = "closing"]
             row == [[thread[s] EXCEPT ![c] = t] EXCEPT ![ChildKey(s, c)] = NoThread]
  <2>2. t \in ThreadRecords /\ t.gen = thread[s][c].gen
    BY <1>1, ThreadIsTyped, ThreadRecordGoes
  <2>3. thread' = [thread EXCEPT ![s] = row]
    BY <1>5 DEF ComboCallRaises, ThreadsTyped
  <2>4. /\ thread[s] \in [Keys -> ThreadRecords] /\ Alive(s, c) /\ starts' = starts
    BY <1>5 DEF ThreadsTyped, ComboCallRaises, InCombo, Alive, Lives
  <2> HIDE DEF t
  <2>5. /\ row \in [Keys -> ThreadRecords] /\ row[c] = t /\ row[ChildKey(s, c)] = NoThread
        /\ \A k \in Keys : k # c /\ k # ChildKey(s, c) => row[k] = thread[s][k]
    BY <1>1, <2>2, <2>4, NothingYet
  <2> HIDE DEF row
  <2>6. \A k \in Keys : row[k].gen \in {0, thread[s][k].gen}
    BY <2>2, <2>5, NothingYet
  <2>7. \A k \in Keys : Lives(row[k]) => Alive(s, k) /\ row[k].gen = thread[s][k].gen
    BY <2>2, <2>4, <2>5, NothingYet DEF Alive, Lives
  <2> QED
    BY <2>1, <2>3, <2>4, <2>5, <2>6, <2>7, OneRowGoes
<1>6. CASE ComboStops(s, c)
  <2>1. PausesTyped' /\ starts' = starts /\ thread[s][c].pc = "run"
    BY <1>6 DEF ComboStops, PausesTyped
  <2>2. /\ thread[s] \in [Keys -> ThreadRecords]
    BY DEF ThreadsTyped
  <2>3. /\ PassesStop(s, c) \in [Keys -> ThreadRecords]
        /\ \A k \in Keys : /\ PassesStop(s, c)[k].gen = thread[s][k].gen
                           /\ PassesStop(s, c)[k].pc = thread[s][k].pc
    <3>1. CASE PassesStop(s, c) = thread[s]
      BY <2>2, <3>1
    <3>2. CASE PassesStop(s, c) = [thread[s] EXCEPT ![ChildKey(s, c)].stop = TRUE]
      <4> DEFINE t == [thread[s][ChildKey(s, c)] EXCEPT !.stop = TRUE]
      <4>1. /\ t \in ThreadRecords /\ t.gen = thread[s][ChildKey(s, c)].gen
            /\ t.pc = thread[s][ChildKey(s, c)].pc
        BY <1>1, ThreadIsTyped, ThreadRecordGoes
      <4>2. PassesStop(s, c) = [thread[s] EXCEPT ![ChildKey(s, c)] = t]
        BY <3>2
      <4> HIDE DEF t
      <4> QED
        BY <1>1, <2>2, <4>1, <4>2
    <3> QED
      BY <3>1, <3>2 DEF PassesStop
  <2> DEFINE told == PassesStop(s, c)
             t == [told[c] EXCEPT !.pc = "closing"]
             row == [told EXCEPT ![c] = t]
  <2>4. thread' = [thread EXCEPT ![s] = row]
    BY <1>6 DEF ComboStops
  <2> HIDE DEF told
  <2>5. told \in [Keys -> ThreadRecords]
        /\ \A k \in Keys : told[k].gen = thread[s][k].gen /\ told[k].pc = thread[s][k].pc
    BY <2>3 DEF told
  <2>6. t \in ThreadRecords /\ t.gen = told[c].gen
    BY <1>1, <2>5, ThreadRecordGoes
  <2> HIDE DEF t
  <2>7. /\ row \in [Keys -> ThreadRecords] /\ row[c] = t
        /\ \A k \in Keys : k # c => row[k] = told[k]
    BY <1>1, <2>5, <2>6
  <2> HIDE DEF row
  <2>8. \A k \in Keys : row[k].gen = thread[s][k].gen
    BY <1>1, <2>5, <2>6, <2>7
  <2>9. \A k \in Keys : row[k].gen \in {0, thread[s][k].gen}
    BY <2>8
  <2>10. \A k \in Keys : Lives(row[k]) => Alive(s, k) /\ row[k].gen = thread[s][k].gen
    BY <1>1, <2>1, <2>5, <2>7, <2>8 DEF Alive, Lives
  <2> QED
    BY <2>1, <2>4, <2>7, <2>9, <2>10, OneRowGoes
<1> QED
  BY <1>2, <1>3, <1>4, <1>5, <1>6
     DEF ComboStep, ComboChecks, ComboLooksUp, ComboGoesOn, InCombo

LEMMA ComboStepKeeps ==
  ASSUME LifeInv, NEW s \in Servers, NEW c \in ComboKeys, ComboStep(s, c)
  PROVE  LifeInv'
<1> USE DEF LifeInv
<1>1. UNCHANGED comboStep
  BY DEF ComboStep, ComboChecks, ComboCalls, ComboCallRaises, ComboLooksUp, ComboGoesOn, ComboStops
<1>2. /\ SequencesTyped' /\ RunsTyped' /\ seq' = seq
      /\ UNCHANGED <<accept, quiescing, deletion, closing>>
  BY <1>1 DEF comboStep, registryVars, SequencesTyped, RunsTyped
<1> QED
  BY <1>2, ComboTypes, ComboThreads, NoSequence, RequestsKeep

-----------------------------------------------------------------------------

\* A record of a sequence that waits for a server, goes from place to place, or is told to stop.
SeqPlaces == {"none", "run", "waits", "closing", "done"}
Calls(b, place, S, s, g) == [b EXCEPT !.pc = place, !.todo = S, !.at = s, !.child = g]

LEMMA SeqRecordCalls ==
  ASSUME NEW b \in SeqRecords, NEW place \in SeqPlaces, NEW S \in SUBSET Servers, NEW s \in Servers,
         NEW g \in Gens
  PROVE  Calls(b, place, S, s, g) \in SeqRecords /\ Calls(b, place, S, s, g).gen = b.gen
  BY DEF SeqRecords, SeqPlaces, Calls

LEMMA SeqRecordGoes ==
  ASSUME NEW b \in SeqRecords, NEW place \in {"run", "waits", "closing", "done"}
  PROVE  /\ [b EXCEPT !.pc = place] \in SeqRecords /\ [b EXCEPT !.pc = place].gen = b.gen
  BY DEF SeqRecords

LEMMA SeqRecordTold ==
  ASSUME NEW b \in SeqRecords, NEW told \in BOOLEAN
  PROVE  /\ [b EXCEPT !.stop = told] \in SeqRecords /\ [b EXCEPT !.stop = told].gen = b.gen
         /\ [b EXCEPT !.stop = told].pc = b.pc
  BY DEF SeqRecords

\* One sequence becomes another of the same number, and it lives only if it did.
LEMMA OneSequenceGoes ==
  ASSUME SequencesTyped, NEW q \in Sequences, NEW b \in SeqRecords,
         seq' = [seq EXCEPT ![q] = b], seqStarts' = seqStarts,
         b.gen = seq[q].gen, Lives(b) => Lives(seq[q])
  PROVE  SequencesTyped' /\ NoSequenceRises
<1>1. /\ seq' \in [Sequences -> SeqRecords] /\ seq'[q] = b
      /\ \A p \in Sequences : p # q => seq'[p] = seq[p]
  BY DEF SequencesTyped
<1> QED
  BY <1>1 DEF SequencesTyped, NoSequenceRises, Lives

LEMMA SeqStepThreads ==
  ASSUME LifeInv, NEW q \in Sequences, SeqStep(q)
  PROVE  ThreadsTyped' /\ PausesTyped' /\ NoneRises
<1> USE DEF LifeInv
<1>1. CASE UNCHANGED <<thread, starts, pause>>
  BY <1>1 DEF ThreadsTyped, PausesTyped, NoneRises, Alive, Lives
<1>2. ASSUME NEW s \in Servers, SeqCalls(q, s) PROVE ThreadsTyped' /\ PausesTyped' /\ NoneRises
  <2>1. \E got : StartThread(s, StepOf[q], NoRun, got)
    BY <1>2 DEF SeqCalls
  <2>2. StepOf[q] \in Keys
    BY KeysOfThreads
  <2> QED
    BY <2>1, <2>2, StartThreadKeeps
<1>3. CASE SeqStops(q)
  <2>1. PausesTyped' /\ starts' = starts
    BY <1>3 DEF SeqStops, PausesTyped
  <2> DEFINE s == seq[q].at
             k == StepOf[q]
             told == thread[s][k].pc # "none"
             t == [thread[s][k] EXCEPT !.stop = told]
             row == [thread[s] EXCEPT ![k] = t]
  <2>2. thread' = [thread EXCEPT ![s] = row] /\ k \in Keys
    BY <1>3, KeysOfThreads DEF SeqStops
  <2>3. CASE s \notin Servers
    <3>1. thread' = thread
      <4> HIDE DEF row
      <4> QED
        BY <2>2, <2>3 DEF ThreadsTyped
    <3> QED
      BY <2>1, <3>1 DEF ThreadsTyped, NoneRises, Alive, Lives
  <2>4. CASE s \in Servers
    <3>1. thread[s] \in [Keys -> ThreadRecords] /\ thread[s][k] \in ThreadRecords /\ told \in BOOLEAN
      BY <2>2, <2>4 DEF ThreadsTyped
    <3> HIDE DEF told
    <3>2. t \in ThreadRecords /\ t.gen = thread[s][k].gen /\ t.pc = thread[s][k].pc
      BY <3>1, ThreadRecordGoes
    <3> HIDE DEF t
    <3>3. /\ row \in [Keys -> ThreadRecords] /\ row[k] = t
          /\ \A j \in Keys : j # k => row[j] = thread[s][j]
      BY <2>2, <3>1, <3>2
    <3> HIDE DEF row
    <3>4. \A j \in Keys : row[j].gen \in {0, thread[s][j].gen}
      BY <3>2, <3>3
    <3>5. \A j \in Keys : Lives(row[j]) => Alive(s, j) /\ row[j].gen = thread[s][j].gen
      BY <3>2, <3>3 DEF Alive, Lives
    <3>6. \E u \in Servers : /\ thread' = [thread EXCEPT ![u] = row]
                             /\ \A j \in Keys : row[j].gen \in {0, thread[u][j].gen}
                             /\ \A j \in Keys : Lives(row[j]) => Alive(u, j) /\ row[j].gen = thread[u][j].gen
      BY <2>2, <2>4, <3>4, <3>5
    <3>7. ThreadsTyped' /\ NoneRises
      <4> HIDE DEF s
      <4> QED
        BY <2>1, <3>3, <3>6, OneRowGoes
    <3> QED
      BY <2>1, <3>7
  <2> QED
    BY <2>3, <2>4
<1> QED
  BY <1>1, <1>2, <1>3 DEF SeqStep, SeqGoesOn, SeqDone, SeqEnds

LEMMA SeqStepSequences ==
  ASSUME LifeInv, NEW q \in Sequences, SeqStep(q)
  PROVE  SequencesTyped' /\ NoSequenceRises
<1> USE DEF LifeInv
<1>1. seq[q] \in SeqRecords /\ seqStarts' = seqStarts
  BY DEF SequencesTyped, SeqStep, SeqGoesOn, SeqStops, SeqDone, SeqEnds, SeqCalls, seqStep
<1>2. PICK b \in SeqRecords :
        seq' = [seq EXCEPT ![q] = b] /\ b.gen = seq[q].gen /\ (Lives(b) => Lives(seq[q]))
  <2>1. CASE SeqGoesOn(q) \/ SeqStops(q) \/ SeqDone(q) \/ SeqEnds(q)
    <3>1. PICK place \in {"run", "waits", "closing", "done"} :
            seq' = [seq EXCEPT ![q].pc = place] /\ (place = "done" \/ Lives(seq[q]))
      BY <2>1 DEF SeqGoesOn, SeqStops, SeqDone, SeqEnds, SeqCloses, Lives
    <3> DEFINE b == [seq[q] EXCEPT !.pc = place]
    <3>2. b \in SeqRecords /\ b.gen = seq[q].gen
      BY <1>1, SeqRecordGoes
    <3>3. b.pc = place
      BY <1>1 DEF SeqRecords
    <3>4. seq' = [seq EXCEPT ![q] = b]
      BY <3>1
    <3> HIDE DEF b
    <3> QED
      BY <3>1, <3>2, <3>3, <3>4 DEF Lives
  <2>2. ASSUME NEW s \in Servers, SeqCalls(q, s)
        PROVE  \E b \in SeqRecords :
                 seq' = [seq EXCEPT ![q] = b] /\ b.gen = seq[q].gen /\ (Lives(b) => Lives(seq[q]))
    <3> DEFINE g == thread'[s][StepOf[q]].gen
    <3>1. g \in Gens
      <4>1. ThreadsTyped' /\ StepOf[q] \in Keys
        BY SeqStepThreads, KeysOfThreads
      <4>2. thread'[s][StepOf[q]] \in ThreadRecords
        BY <4>1 DEF ThreadsTyped
      <4> QED
        BY <4>2 DEF ThreadRecords
    <3>2. PICK got \in Results :
            seq' = [seq EXCEPT ![q].pc = IF got = "failed" THEN "closing" ELSE "waits",
                               ![q].todo = @ \ {s}, ![q].at = s, ![q].child = g]
      BY <2>2 DEF SeqCalls
    <3> DEFINE place == IF got = "failed" THEN "closing" ELSE "waits"
               S == seq[q].todo \ {s}
               b == Calls(seq[q], place, S, s, g)
    <3>3. seq' = [seq EXCEPT ![q] = b]
      BY <3>2 DEF SequencesTyped, Calls
    <3>4. S \in SUBSET Servers /\ place \in SeqPlaces
      BY <1>1 DEF SeqRecords, SeqPlaces
    <3> HIDE DEF g, place, S
    <3>5. b \in SeqRecords /\ b.gen = seq[q].gen
      BY <1>1, <3>1, <3>4, SeqRecordCalls
    <3>6. Lives(seq[q])
      BY <2>2 DEF SeqCalls, Lives
    <3> HIDE DEF b
    <3> QED
      BY <3>3, <3>5, <3>6
  <2> QED
    BY <2>1, <2>2 DEF SeqStep
<1> QED
  BY <1>1, <1>2, OneSequenceGoes

LEMMA SeqStepKeeps ==
  ASSUME LifeInv, NEW q \in Sequences, SeqStep(q)
  PROVE  LifeInv'
<1> USE DEF LifeInv
<1>1. UNCHANGED seqStep
  BY DEF SeqStep, SeqGoesOn, SeqStops, SeqDone, SeqEnds, SeqCalls
<1>2. CombosTyped' /\ RunsTyped' /\ UNCHANGED <<accept, quiescing, deletion, closing>>
  BY <1>1 DEF seqStep, registryVars, CombosTyped, RunsTyped
<1> QED
  BY <1>2, SeqStepThreads, SeqStepSequences, RequestsKeep

-----------------------------------------------------------------------------

\* Threads are told to stop, and nothing else happens to them.
OnlyTold ==
  /\ thread' \in [Servers -> [Keys -> ThreadRecords]]
  /\ \A s \in Servers, k \in Keys :
       thread'[s][k].pc = thread[s][k].pc /\ thread'[s][k].gen = thread[s][k].gen
SequencesTold ==
  /\ seq' \in [Sequences -> SeqRecords]
  /\ \A q \in Sequences : seq'[q].pc = seq[q].pc /\ seq'[q].gen = seq[q].gen

LEMMA TellingKeeps ==
  ASSUME ThreadsTyped, NEW told \in [Servers -> [Keys -> BOOLEAN]],
         thread' = [s \in Servers |-> [k \in Keys |->
           IF told[s][k] THEN [thread[s][k] EXCEPT !.stop = TRUE] ELSE thread[s][k]]]
  PROVE  OnlyTold
<1>1. ASSUME NEW s \in Servers, NEW k \in Keys
      PROVE  /\ thread'[s][k] \in ThreadRecords /\ thread'[s][k].pc = thread[s][k].pc
             /\ thread'[s][k].gen = thread[s][k].gen
  <2>1. thread[s][k] \in ThreadRecords
    BY DEF ThreadsTyped
  <2>2. CASE told[s][k]
    <3>1. thread'[s][k] = [thread[s][k] EXCEPT !.stop = TRUE]
      BY <2>2
    <3> QED
      BY <2>1, <3>1, ThreadRecordGoes
  <2>3. CASE ~told[s][k]
    <3>1. thread'[s][k] = thread[s][k]
      BY <2>3
    <3> QED
      BY <2>1, <3>1
  <2> QED
    BY <2>2, <2>3
<1>2. thread' \in [Servers -> [Keys -> ThreadRecords]]
  <2>1. ASSUME NEW s \in Servers PROVE thread'[s] \in [Keys -> ThreadRecords]
    <3>1. thread'[s] = [k \in Keys |->
            IF told[s][k] THEN [thread[s][k] EXCEPT !.stop = TRUE] ELSE thread[s][k]]
      OBVIOUS
    <3>2. DOMAIN thread'[s] = Keys
      BY <3>1
    <3>3. thread'[s] = [k \in Keys |-> thread'[s][k]]
      BY <3>1
    <3> QED
      BY <1>1, <3>3
  <2>2. thread' = [s \in Servers |-> thread'[s]]
    OBVIOUS
  <2> QED
    BY <2>1, <2>2
<1> QED
  BY <1>1, <1>2 DEF OnlyTold

LEMMA TellingSequencesKeeps ==
  ASSUME SequencesTyped, TellSequences
  PROVE  SequencesTold
<1>1. ASSUME NEW q \in Sequences
      PROVE  /\ seq'[q] \in SeqRecords /\ seq'[q].pc = seq[q].pc /\ seq'[q].gen = seq[q].gen
  <2>1. seq[q] \in SeqRecords /\ seq[q].stop \in BOOLEAN
    BY DEF SequencesTyped, SeqRecords
  <2> DEFINE told == seq[q].stop \/ Lives(seq[q])
  <2>2. told \in BOOLEAN
    OBVIOUS
  <2>3. seq'[q] = [seq[q] EXCEPT !.stop = told]
    BY DEF TellSequences
  <2> HIDE DEF told
  <2> QED
    BY <2>1, <2>2, <2>3, SeqRecordTold
<1>2. seq' = [q \in Sequences |-> seq'[q]]
  BY DEF TellSequences
<1> QED
  BY <1>1, <1>2 DEF SequencesTold

LEMMA ToldThreads ==
  ASSUME ThreadsTyped, OnlyTold, starts' = starts
  PROVE  ThreadsTyped' /\ NoneRises /\ \A s \in Servers, k \in Keys : Alive(s, k)' <=> Alive(s, k)
  BY DEF ThreadsTyped, OnlyTold, NoneRises, Alive, Lives

LEMMA ToldSequences ==
  ASSUME SequencesTyped, SequencesTold, seqStarts' = seqStarts
  PROVE  SequencesTyped' /\ NoSequenceRises /\ \A q \in Sequences : Lives(seq[q])' <=> Lives(seq[q])
  BY DEF SequencesTyped, SequencesTold, NoSequenceRises, Lives

LEMMA CallStopKeeps ==
  ASSUME LifeInv, NEW s \in Servers, NEW k \in Keys, CallStop(s, k)
  PROVE  LifeInv'
<1> USE DEF LifeInv
<1> DEFINE of(t, j) == t = s /\ (j = k \/ (k \in ComboKeys /\ j \in {ChildOf[k][1], ChildOf[k][2]}))
           told == [t \in Servers |-> [j \in Keys |-> thread[t][j].pc # "none" /\ of(t, j)]]
<1>1. told \in [Servers -> [Keys -> BOOLEAN]]
  OBVIOUS
<1>2. thread' = [t \in Servers |-> [j \in Keys |->
        IF told[t][j] THEN [thread[t][j] EXCEPT !.stop = TRUE] ELSE thread[t][j]]]
  BY DEF CallStop, TellAll
<1> HIDE DEF told
<1>3. OnlyTold
  BY <1>1, <1>2, TellingKeeps
<1>4. /\ PausesTyped' /\ CombosTyped' /\ SequencesTyped' /\ RunsTyped' /\ starts' = starts /\ seq' = seq
      /\ UNCHANGED <<accept, quiescing, deletion, closing>>
  BY DEF CallStop, stopStep, PausesTyped, CombosTyped, SequencesTyped, RunsTyped
<1> QED
  BY <1>3, <1>4, ToldThreads, NoSequence, RequestsKeep

LEMMA StopRunKeeps ==
  ASSUME LifeInv, NEW r \in Runs, StopRun(r)
  PROVE  LifeInv'
<1> USE DEF LifeInv
<1> DEFINE of(s, k) == thread[s][k].run = r /\ thread[s][RunKey].run = r
                       /\ k \in {RunKey, ChildOf[RunKey][1], ChildOf[RunKey][2]}
           told == [s \in Servers |-> [k \in Keys |-> thread[s][k].pc # "none" /\ of(s, k)]]
<1>1. told \in [Servers -> [Keys -> BOOLEAN]]
  OBVIOUS
<1>2. thread' = [s \in Servers |-> [k \in Keys |->
        IF told[s][k] THEN [thread[s][k] EXCEPT !.stop = TRUE] ELSE thread[s][k]]]
  BY DEF StopRun, TellAll
<1> HIDE DEF told
<1>3. OnlyTold
  BY <1>1, <1>2, TellingKeeps
<1>4. RunsTyped'
  <2>1. cancelled' \in {cancelled, cancelled \cup {r}} /\ stopped' = stopped \cup {r} /\ begun' = begun
    BY DEF StopRun, stopStep
  <2> QED
    BY <2>1 DEF RunsTyped
<1>5. /\ PausesTyped' /\ CombosTyped' /\ SequencesTyped' /\ starts' = starts /\ seq' = seq
      /\ UNCHANGED <<accept, quiescing, deletion, closing>>
  BY DEF StopRun, stopStep, PausesTyped, CombosTyped, SequencesTyped
<1> QED
  BY <1>3, <1>4, <1>5, ToldThreads, NoSequence, RequestsKeep

LEMMA CallStopSequenceKeeps ==
  ASSUME LifeInv, NEW q \in Sequences, CallStopSequence(q)
  PROVE  LifeInv'
<1> USE DEF LifeInv
<1> DEFINE b == [seq[q] EXCEPT !.stop = TRUE]
<1>1. b \in SeqRecords /\ b.gen = seq[q].gen /\ b.pc = seq[q].pc
  BY SeqRecordTold DEF SequencesTyped
<1>2. seq' = [seq EXCEPT ![q] = b] /\ seqStarts' = seqStarts
  BY DEF CallStopSequence, stopStep
<1> HIDE DEF b
<1>3. SequencesTyped' /\ NoSequenceRises
  BY <1>1, <1>2, OneSequenceGoes DEF Lives
<1>4. /\ ThreadsTyped' /\ PausesTyped' /\ CombosTyped' /\ RunsTyped' /\ NoneRises
      /\ UNCHANGED <<accept, quiescing, deletion, closing>>
  BY DEF CallStopSequence, stopStep, ThreadsTyped, PausesTyped, CombosTyped, RunsTyped, NoneRises,
         Alive, Lives
<1> QED
  BY <1>3, <1>4, RequestsKeep

-----------------------------------------------------------------------------

\* What a deletion and a shutdown leave alone.
LEMMA RegisteredAreHandles ==
  ASSUME ThreadsTyped, SequencesTyped, NEW S \in SUBSET Servers
  PROVE  RegisteredWorkers(S) \subseteq Handles /\ SeqRegistered \subseteq SeqHandles
<1>1. \A s \in Servers, k \in Keys : thread[s][k].gen \in Gens
  BY ThreadIsTyped
<1>2. \A q \in Sequences : seq[q].gen \in Gens
  BY DEF SequencesTyped, SeqRecords
<1> QED
  BY <1>1, <1>2 DEF RegisteredWorkers, SeqRegistered, Handles, SeqHandles

LEMMA QuiesceBeginsKeeps ==
  ASSUME LifeInv, NEW s \in Servers, QuiesceBegins(s)
  PROVE  LifeInv'
<1> USE DEF LifeInv
<1> DEFINE told == [t \in Servers |-> [j \in Keys |-> thread[t][j].pc # "none" /\ t = s]]
<1>1. told \in [Servers -> [Keys -> BOOLEAN]]
  OBVIOUS
<1>2. thread' = [t \in Servers |-> [j \in Keys |->
        IF told[t][j] THEN [thread[t][j] EXCEPT !.stop = TRUE] ELSE thread[t][j]]]
  BY DEF QuiesceBegins, TellAll
<1> HIDE DEF told
<1>3. OnlyTold
  BY <1>1, <1>2, TellingKeeps
<1>4. /\ starts' = starts /\ seqStarts' = seqStarts /\ TellSequences
      /\ UNCHANGED <<accept, closing>> /\ quiescing' = quiescing \cup {s} /\ deletion.at = "none"
      /\ deletion' = [server |-> s, at |-> "joins", local |-> RegisteredWorkers({s}),
                      global |-> SeqRegistered]
  BY DEF QuiesceBegins
<1>5. ThreadsTyped' /\ NoneRises /\ \A u \in Servers, k \in Keys : Alive(u, k)' <=> Alive(u, k)
  BY <1>3, <1>4, ToldThreads
<1>6. SequencesTyped' /\ NoSequenceRises
  BY <1>4, TellingSequencesKeeps, ToldSequences
<1>7. PausesTyped' /\ CombosTyped' /\ RunsTyped'
  BY DEF QuiesceBegins, PausesTyped, CombosTyped, RunsTyped
<1>8. DeletionTyped'
  <2>1. RegisteredWorkers({s}) \subseteq Handles /\ SeqRegistered \subseteq SeqHandles
    BY RegisteredAreHandles
  <2> QED
    BY <1>4, <2>1 DEF DeletionTyped, DeletionRecords
<1>9. ClosingTyped' /\ Fenced'
  BY <1>4 DEF ClosingTyped, Fenced
<1>10. Numbered'
  BY <1>5 DEF Numbered, NoneRises, Alive, Lives
<1>11. QuietBehindFence'
  <2> SUFFICES ASSUME NEW u \in quiescing', (deletion.server = u => deletion.at = "quiet")',
                      NEW k \in Keys
               PROVE  ~Alive(u, k)'
    BY DEF QuietBehindFence
  <2>1. u # s /\ u \in quiescing /\ u \in Servers /\ (deletion.server = u => deletion.at = "quiet")
    <3>1. u # s
      BY <1>4
    <3> QED
      BY <1>4, <3>1, ProbeKeyAssumption DEF DeletionTyped, Fenced
  <2>2. ~Alive(u, k)
    BY <2>1 DEF QuietBehindFence
  <2> QED
    BY <1>5, <2>1, <2>2
<1>12. ClosingWaits'
  BY <1>4, <1>5, <1>6 DEF ClosingWaits, NoneRises, NoSequenceRises, Alive, Lives, MayStart
<1> QED
  BY <1>5, <1>6, <1>7, <1>8, <1>9, <1>10, <1>11, <1>12

LEMMA DeletedIsAServer ==
  ASSUME DeletionTyped, Fenced, deletion.at # "none"
  PROVE  deletion.server \in Servers /\ deletion.server \in quiescing
  BY DEF DeletionTyped, Fenced

LEMMA DeletionPlaces ==
  ASSUME DeletionTyped, NEW place \in {"none", "joins", "quiet"},
         deletion' = [deletion EXCEPT !.at = place]
  PROVE  /\ deletion' \in DeletionRecords /\ deletion'.server = deletion.server
         /\ deletion'.at = place
  BY DEF DeletionTyped, DeletionRecords

LEMMA QuiesceSucceedsKeeps ==
  ASSUME LifeInv, QuiesceSucceeds
  PROVE  LifeInv'
<1> USE DEF LifeInv
<1>1. /\ deletion.server \in Servers /\ deletion.server \in quiescing
      /\ deletion' \in DeletionRecords /\ deletion'.server = deletion.server /\ deletion'.at = "quiet"
  BY DeletedIsAServer, DeletionPlaces DEF QuiesceSucceeds
<1>2. PICK s \in Servers :
        s = deletion.server /\ thread' = [thread EXCEPT ![s] = [k \in Keys |-> NoThread]]
  BY <1>1 DEF QuiesceSucceeds
<1>3. starts' = starts /\ seq' = seq /\ UNCHANGED <<accept, closing, quiescing>>
  BY DEF QuiesceSucceeds
<1>4. /\ thread' \in [Servers -> [Keys -> ThreadRecords]]
      /\ \A k \in Keys : thread'[s][k] = NoThread
      /\ \A u \in Servers : u # s => thread'[u] = thread[u]
  BY <1>2, NothingYet DEF ThreadsTyped
<1>5. ThreadsTyped' /\ NoneRises
  <2> DEFINE row == [k \in Keys |-> NoThread]
  <2>1. row \in [Keys -> ThreadRecords] /\ \A k \in Keys : row[k] = NoThread
    BY NothingYet
  <2>2. thread' = [thread EXCEPT ![s] = row]
    BY <1>2
  <2> HIDE DEF row
  <2>3. \A k \in Keys : row[k].gen \in {0, thread[s][k].gen}
    BY <2>1, NothingYet
  <2>4. \A k \in Keys : Lives(row[k]) => Alive(s, k) /\ row[k].gen = thread[s][k].gen
    BY <2>1, NothingYet DEF Lives
  <2> QED
    BY <1>3, <2>1, <2>2, <2>3, <2>4, OneRowGoes
<1>6. PausesTyped' /\ CombosTyped' /\ RunsTyped' /\ SequencesTyped'
  BY <1>1 DEF QuiesceSucceeds, PausesTyped, CombosTyped, RunsTyped, SequencesTyped
<1>7. DeletionTyped' /\ ClosingTyped' /\ Fenced'
  BY <1>1, <1>3 DEF DeletionTyped, ClosingTyped, Fenced
<1>8. Numbered'
  BY <1>4, NothingYet DEF Numbered, Alive, Lives
<1>9. QuietBehindFence'
  <2> SUFFICES ASSUME NEW u \in quiescing', NEW k \in Keys PROVE ~Alive(u, k)'
    BY DEF QuietBehindFence
  <2>0. u \in Servers /\ u \in quiescing
    BY <1>3 DEF DeletionTyped
  <2>1. CASE u = s
    BY <1>4, <2>0, <2>1, NothingYet DEF Alive, Lives
  <2>2. CASE u # s
    <3>1. ~Alive(u, k)
      BY <1>2, <2>0, <2>2 DEF QuietBehindFence
    <3> QED
      BY <1>4, <2>0, <2>2, <3>1 DEF Alive, Lives
  <2> QED
    BY <2>1, <2>2
<1>10. ClosingWaits'
  BY <1>3, <1>5, <1>4, NothingYet DEF ClosingWaits, NoneRises, Alive, Lives, MayStart
<1> QED
  BY <1>5, <1>6, <1>7, <1>8, <1>9, <1>10

\* A deletion ends, or a server is let in again: no thread changes, and the servers behind
\* a fence were there before.
LEMMA FencesGo ==
  ASSUME LifeInv, DeletionTyped', Fenced',
         UNCHANGED <<accept, cancelled, begun, stopped, closing, thread, starts, pause, combo, seq,
                     seqStarts>>,
         \A s \in quiescing' : (deletion'.server = s => deletion'.at = "quiet") =>
           s \in quiescing /\ (deletion.server = s => deletion.at = "quiet")
  PROVE  LifeInv'
<1> USE DEF LifeInv
<1>1. /\ ThreadsTyped' /\ PausesTyped' /\ CombosTyped' /\ SequencesTyped' /\ ClosingTyped' /\ RunsTyped'
      /\ Numbered' /\ ClosingWaits'
  BY DEF ThreadsTyped, PausesTyped, CombosTyped, SequencesTyped, ClosingTyped, RunsTyped, Numbered,
         ClosingWaits, Alive, Lives
<1>2. QuietBehindFence'
  BY DEF QuietBehindFence, Alive, Lives
<1> QED
  BY <1>1, <1>2

LEMMA NoDeletionIs ==
  NoDeletion \in DeletionRecords /\ NoDeletion.at = "none" /\ NoDeletion.server = NoServer
  BY DEF NoDeletion, DeletionRecords

LEMMA DeletionFailsKeeps ==
  ASSUME LifeInv, DeletionFails
  PROVE  LifeInv'
<1> USE DEF LifeInv
<1>1. /\ deletion' = NoDeletion /\ quiescing' = quiescing \ {deletion.server}
      /\ UNCHANGED <<accept, cancelled, begun, stopped, closing, thread, starts, pause, combo, seq,
                     seqStarts>>
  BY DEF DeletionFails, Readmitted
<1>2. DeletionTyped' /\ Fenced'
  BY <1>1, NoDeletionIs DEF DeletionTyped, Fenced
<1> QED
  BY <1>1, <1>2, FencesGo

LEMMA DeletionCommitsKeeps ==
  ASSUME LifeInv, DeletionCommits
  PROVE  LifeInv'
<1> USE DEF LifeInv
<1>1. /\ deletion' = NoDeletion /\ quiescing' = quiescing /\ deletion.at = "quiet"
      /\ UNCHANGED <<accept, cancelled, begun, stopped, closing, thread, starts, pause, combo, seq,
                     seqStarts>>
  BY DEF DeletionCommits
<1>2. DeletionTyped' /\ Fenced'
  BY <1>1, NoDeletionIs DEF DeletionTyped, Fenced
<1> QED
  BY <1>1, <1>2, FencesGo

LEMMA SaveServerKeeps ==
  ASSUME LifeInv, NEW s \in Servers, SaveServer(s)
  PROVE  LifeInv'
<1> USE DEF LifeInv
<1>1. /\ deletion' = deletion /\ quiescing' = quiescing \ {s} /\ deletion.server # s
      /\ UNCHANGED <<accept, cancelled, begun, stopped, closing, thread, starts, pause, combo, seq,
                     seqStarts>>
  BY DEF SaveServer, Readmitted
<1>2. DeletionTyped' /\ Fenced'
  BY <1>1 DEF DeletionTyped, Fenced
<1> QED
  BY <1>1, <1>2, FencesGo

\* Steps of a shutdown that change no thread.
LEMMA ClosingGoes ==
  ASSUME LifeInv, ClosingTyped', ClosingWaits', UNCHANGED closeStep, UNCHANGED <<thread, seq>>
  PROVE  LifeInv'
<1> USE DEF LifeInv, closeStep
<1>1. /\ ThreadsTyped' /\ PausesTyped' /\ CombosTyped' /\ SequencesTyped' /\ RunsTyped'
      /\ DeletionTyped' /\ Numbered' /\ Fenced' /\ QuietBehindFence'
  BY DEF ThreadsTyped, PausesTyped, CombosTyped, SequencesTyped, RunsTyped, DeletionTyped, Numbered,
         Fenced, QuietBehindFence, Alive, Lives
<1> QED
  BY <1>1

LEMMA ClosingPlaces ==
  /\ NotClosing \in ClosingRecords /\ NotClosing.at = "no"
  /\ [NotClosing EXCEPT !.at = "closed"] \in ClosingRecords
  /\ [NotClosing EXCEPT !.at = "closed"].at = "closed"
<1>1. NotClosing \in ClosingRecords /\ NotClosing.at = "no"
  BY DEF NotClosing, ClosingRecords
<1> QED
  BY <1>1 DEF ClosingRecords

LEMMA ShutdownBeginsKeeps ==
  ASSUME LifeInv, ShutdownBegins
  PROVE  LifeInv'
<1> USE DEF LifeInv
<1>1. /\ accept' = FALSE /\ closing' = [closing EXCEPT !.at = "refuses"]
      /\ UNCHANGED closeStep /\ UNCHANGED <<thread, seq>>
  BY DEF ShutdownBegins
<1>2. ClosingTyped' /\ closing'.at = "refuses"
  BY <1>1 DEF ClosingTyped, ClosingRecords
<1>3. ClosingWaits'
  BY <1>1, <1>2 DEF ClosingWaits
<1> QED
  BY <1>1, <1>2, <1>3, ClosingGoes

LEMMA ShutdownTellsKeeps ==
  ASSUME LifeInv, ShutdownTells
  PROVE  LifeInv'
<1> USE DEF LifeInv
<1> DEFINE told == [s \in Servers |-> [k \in Keys |-> thread[s][k].pc # "none"]]
<1>1. told \in [Servers -> [Keys -> BOOLEAN]]
  OBVIOUS
<1>2. thread' = [s \in Servers |-> [k \in Keys |->
        IF told[s][k] THEN [thread[s][k] EXCEPT !.stop = TRUE] ELSE thread[s][k]]]
  BY DEF ShutdownTells, TellAll
<1> HIDE DEF told
<1>3. OnlyTold
  BY <1>1, <1>2, TellingKeeps
<1>4. /\ UNCHANGED <<quiescing, cancelled, begun, stopped, deletion, starts, pause, combo, seqStarts>>
      /\ accept' = accept /\ closing.at = "refuses" /\ TellSequences
      /\ closing' = [at |-> "joins", local |-> RegisteredWorkers(Servers), global |-> SeqRegistered]
  BY DEF ShutdownTells, closeStep
<1>5. ThreadsTyped' /\ NoneRises /\ \A u \in Servers, k \in Keys : Alive(u, k)' <=> Alive(u, k)
  BY <1>3, <1>4, ToldThreads
<1>6. /\ SequencesTold /\ SequencesTyped'
  BY <1>4, TellingSequencesKeeps, ToldSequences
<1>7. PausesTyped' /\ CombosTyped' /\ RunsTyped' /\ DeletionTyped' /\ Fenced'
  BY <1>4 DEF PausesTyped, CombosTyped, RunsTyped, DeletionTyped, Fenced
<1>8. ClosingTyped'
  <2>1. RegisteredWorkers(Servers) \subseteq Handles /\ SeqRegistered \subseteq SeqHandles
    BY RegisteredAreHandles
  <2> QED
    BY <1>4, <2>1 DEF ClosingTyped, ClosingRecords
<1>9. Numbered' /\ QuietBehindFence'
  <2>1. Numbered'
    BY <1>5 DEF Numbered, NoneRises, Alive, Lives
  <2>2. QuietBehindFence'
    BY <1>4, <1>5 DEF QuietBehindFence, DeletionTyped, Alive, Lives
  <2> QED
    BY <2>1, <2>2
<1>10. ClosingWaits'
  <2>1. \A s \in Servers, k \in Keys : <<s, k, thread'[s][k].gen>> \in closing'.local
    BY <1>3, <1>4 DEF OnlyTold, RegisteredWorkers
  <2>2. \A q \in Sequences : <<q, seq'[q].gen>> \in closing'.global
    BY <1>4, <1>6 DEF SequencesTold, SeqRegistered
  <2>3. ~accept' /\ closing'.at = "joins"
    BY <1>4 DEF ClosingWaits
  <2> QED
    BY <2>1, <2>2, <2>3 DEF ClosingWaits
<1> QED
  BY <1>5, <1>6, <1>7, <1>8, <1>9, <1>10

LEMMA ShutdownEndsKeeps ==
  ASSUME LifeInv, ShutdownReturns \/ ShutdownTimesOut
  PROVE  LifeInv'
<1> USE DEF LifeInv
<1>1. /\ closing.at = "joins" /\ accept' = accept /\ UNCHANGED closeStep /\ UNCHANGED <<thread, seq>>
      /\ closing' \in {NotClosing, [NotClosing EXCEPT !.at = "closed"]}
  BY DEF ShutdownReturns, ShutdownTimesOut
<1>2. ClosingTyped'
  BY <1>1, ClosingPlaces DEF ClosingTyped
<1>3. CASE ShutdownTimesOut
  <2>1. closing'.at = "no"
    BY <1>3, ClosingPlaces DEF ShutdownTimesOut
  <2>2. ClosingWaits'
    BY <2>1 DEF ClosingWaits
  <2> QED
    BY <1>1, <1>2, <2>2, ClosingGoes
<1>4. CASE ShutdownReturns
  <2>1. closing'.at = "closed" /\ Joined(closing.local, closing.global)
    BY <1>4, ClosingPlaces DEF ShutdownReturns
  <2>2. ASSUME NEW s \in Servers, NEW k \in Keys PROVE ~Alive(s, k)
    <3>1. SUFFICES ASSUME Alive(s, k) PROVE FALSE
      OBVIOUS
    <3> DEFINE h == <<s, k, thread[s][k].gen>>
    <3>2. h \in closing.local /\ thread[s][k].gen # 0
      BY <1>1, <3>1 DEF ClosingWaits, Numbered
    <3>3. ~Running(h[1], h[2], h[3])
      BY <2>1, <3>2 DEF Joined
    <3> QED
      BY <3>1, <3>2, <3>3 DEF Running, Same
  <2>3. ASSUME NEW q \in Sequences PROVE ~Lives(seq[q])
    <3>1. SUFFICES ASSUME Lives(seq[q]) PROVE FALSE
      OBVIOUS
    <3> DEFINE h == <<q, seq[q].gen>>
    <3>2. h \in closing.global
      BY <1>1, <3>1 DEF ClosingWaits
    <3>3. ~(seq[h[1]].gen = h[2] /\ Lives(seq[h[1]]))
      BY <2>1, <3>2 DEF Joined
    <3> QED
      BY <3>1, <3>3
  <2>4. ClosingWaits'
    BY <1>1, <2>1, <2>2, <2>3 DEF ClosingWaits, Alive, Lives
  <2> QED
    BY <1>1, <1>2, <2>4, ClosingGoes
<1> QED
  BY <1>3, <1>4

LEMMA ReopenKeeps ==
  ASSUME LifeInv, Reopen
  PROVE  LifeInv'
<1> USE DEF LifeInv
<1>1. accept' = TRUE /\ closing' = NotClosing /\ UNCHANGED closeStep /\ UNCHANGED <<thread, seq>>
  BY DEF Reopen
<1>2. ClosingTyped' /\ ClosingWaits'
  BY <1>1, ClosingPlaces DEF ClosingTyped, ClosingWaits
<1> QED
  BY <1>1, <1>2, ClosingGoes

LEMMA LifeStutter ==
  ASSUME LifeInv, UNCHANGED lifeVars
  PROVE  LifeInv'
<1> USE DEF LifeInv, lifeVars, registryVars
<1>1. ThreadsTyped' /\ PausesTyped' /\ CombosTyped' /\ SequencesTyped' /\ RunsTyped' /\ NoneRises
  BY DEF ThreadsTyped, PausesTyped, CombosTyped, SequencesTyped, RunsTyped, NoneRises, Alive, Lives
<1> QED
  BY <1>1, NoSequence, RequestsKeep

LEMMA LifeStepKeeps == LifeInv /\ [LifeNext]_lifeVars => LifeInv'
<1> SUFFICES ASSUME LifeInv, [LifeNext]_lifeVars PROVE LifeInv'
  OBVIOUS
<1>1. ASSUME NEW s \in Servers, NEW k \in Keys, CallStart(s, k) \/ CallStop(s, k) \/ ThreadStep(s, k)
      PROVE  LifeInv'
  BY <1>1, CallStartKeeps, CallStopKeeps, ThreadStepKeeps
<1>2. ASSUME NEW s \in Servers, NEW c \in ComboKeys, ComboStep(s, c)
      PROVE  LifeInv'
  BY <1>2, ComboStepKeeps
<1>3. ASSUME NEW q \in Sequences, CallSequence(q) \/ CallStopSequence(q) \/ SeqStep(q)
      PROVE  LifeInv'
  BY <1>3, CallSequenceKeeps, CallStopSequenceKeeps, SeqStepKeeps
<1>4. ASSUME NEW r \in Runs, StartRun(r) \/ StopRun(r)
      PROVE  LifeInv'
  BY <1>4, StartRunKeeps, StopRunKeeps
<1>5. ASSUME Deletion
      PROVE  LifeInv'
  BY <1>5, QuiesceSucceedsKeeps, DeletionFailsKeeps, DeletionCommitsKeeps, QuiesceBeginsKeeps,
     SaveServerKeeps DEF Deletion
<1>6. ASSUME Shutdown
      PROVE  LifeInv'
  BY <1>6, ShutdownBeginsKeeps, ShutdownTellsKeeps, ShutdownEndsKeeps, ReopenKeeps DEF Shutdown
<1>7. ASSUME UNCHANGED lifeVars
      PROVE  LifeInv'
  BY <1>7, LifeStutter
<1> QED
  BY <1>1, <1>2, <1>3, <1>4, <1>5, <1>6, <1>7 DEF LifeNext

-----------------------------------------------------------------------------

LEMMA LifeInvImplies == LifeInv => LifeTypeOK /\ QuietWhenAsked
<1> SUFFICES ASSUME LifeInv PROVE LifeTypeOK /\ QuietWhenAsked
  OBVIOUS
<1> USE DEF LifeInv
<1>1. LifeTypeOK
  BY DEF LifeTypeOK, ThreadsTyped, PausesTyped, CombosTyped, SequencesTyped, DeletionTyped,
         ClosingTyped, RunsTyped, ThreadRecords, SeqRecords, ComboRecords, DeletionRecords,
         ClosingRecords
<1>2. QuietWhenAsked
  BY DEF QuietWhenAsked, QuietBehindFence, ClosingWaits
<1> QED
  BY <1>1, <1>2

\* The registry of the probe threads (emby_probe/manager.py) is what it is declared to be.
THEOREM LifeTypeCorrect == LifeSpec => []LifeTypeOK
<1>1. LifeInv => LifeTypeOK
  BY LifeInvImplies
<1> QED
  BY <1>1, InitLifeInv, LifeStepKeeps, PTL DEF LifeSpec

\* quiesce_server and shutdown: once one of them has returned its success, no worker, combo
\* or sequence lives that it was asked to end, whatever keys, combos, sequences and runs
\* there are, and whatever request was on its way.
THEOREM AlwaysQuietWhenAsked == LifeSpec => []QuietWhenAsked
<1>1. LifeInv => QuietWhenAsked
  BY LifeInvImplies
<1> QED
  BY <1>1, InitLifeInv, LifeStepKeeps, PTL DEF LifeSpec
=============================================================================
