----------------------------- MODULE ProbeQueue -----------------------------
(***************************************************************************)
(* The queue of the media probe: the rows and their claims                 *)
(* (core/storage/storage_probe.py), the workers that claim them in batches *)
(* (emby_probe/library_processing.py, library_probe_execution.py), the     *)
(* renewal thread of a row in hand (emby_probe/queue_leases.py) and the    *)
(* discovery that fills the queue (emby_probe/library_discovery.py).       *)
(*                                                                         *)
(* A row is claimed with the token of a batch.  Only the rows that a slot  *)
(* of the worker has in hand are renewed; the others of the batch wait     *)
(* with a claim that runs out after five minutes.                          *)
(*                                                                         *)
(* Abstractions: one server and one scope; a worker stands for the tokens  *)
(* of all its batches, since what tells them apart is whether the present  *)
(* batch has a job for the row; a discovery queues one source at a time;   *)
(* the slots take the rows in any order.                                   *)
(***************************************************************************)
EXTENDS Naturals, FiniteSets

CONSTANTS
  Workers,      \* processing workers of the scope, each of its own process
  NoWorker,     \* no token
  Sources,      \* the (item, media source) pairs that may be queued
  NoSource,
  GenericOf,    \* of a source with an id: the one without, of the same item
  Slots,        \* probe_parallelism of each worker
  MaxRetries,   \* failures after which a source is ruled out: 3 in the code
  MaxAdds,      \* bound: rows ever inserted
  MaxFaults,    \* bound: crashes, stops, database errors, waits beyond the lease
  ProbeEvents   \* the external events this instance explores

ASSUME WorkerAssumption ==
  /\ NoWorker \notin Workers
  /\ Slots \in [Workers -> Nat \ {0}]
ASSUME SourceAssumption ==
  /\ NoSource \notin Sources
  /\ GenericOf \in [Sources -> Sources \cup {NoSource}]
  /\ \A s \in Sources : GenericOf[s] # s
ASSUME ProbeBoundAssumption ==
  MaxRetries \in Nat \ {0} /\ MaxAdds \in Nat /\ MaxFaults \in Nat
ASSUME ProbeEventAssumption ==
  ProbeEvents \subseteq {"longWait",  \* a batch takes longer than its claims last
                         "dbError",   \* a database call raises
                         "crash",     \* a process dies
                         "stop",      \* a worker is told to stop
                         "remove"}    \* an item is removed from the queue, or retried

VARIABLES
  rowId,     \* of each source: the id of its row, 0 if it is not queued
  added,     \* ids handed out so far
  claim,     \* claim_token and whether claimed_at is younger than the lease
  retries,   \* retry_count of the blacklist, 0 if the source is not listed
  found,     \* the source a discovery has collected and not yet queued
  wpc,       \* where each worker is
  flag,      \* its stop flag
  bad,       \* one row of its batch was not concluded
  job,       \* the rows of its batch
  outlived,  \* history: ids whose claim ran out while a worker had them
  faults     \* how many of those there were

queueVars == <<rowId, added, claim, retries>>
probeVars == <<queueVars, found, wpc, flag, bad, job, outlived, faults>>

NoJob == [at |-> "none", id |-> 0, kept |-> FALSE, ok |-> FALSE]
Unclaimed == [by |-> NoWorker, live |-> FALSE]
InHand == {"probing", "probed", "fenced", "ending"}

\* The rows, their claims and the batches; a job names the row it was claimed with,
\* and only a row in hand has a renewal thread.
ProbeTypeOK ==
  /\ added \in 0..MaxAdds /\ faults \in 0..MaxFaults
  /\ rowId \in [Sources -> 0..added]
  /\ claim \in [Sources -> [by : Workers \cup {NoWorker}, live : BOOLEAN]]
  /\ retries \in [Sources -> 0..MaxRetries]
  /\ found \in Sources \cup {NoSource}
  /\ wpc \in [Workers -> {"off", "cycle", "batch", "aborting"}]
  /\ flag \in [Workers -> BOOLEAN] /\ bad \in [Workers -> BOOLEAN]
  /\ job \in [Workers -> [Sources -> [at : InHand \cup {"none", "unstarted"},
                                      id : 0..added, kept : BOOLEAN, ok : BOOLEAN]]]
  /\ outlived \subseteq 1..added
  /\ \A w \in Workers, s \in Sources :
       /\ job[w][s].at = "none" <=> job[w][s].id = 0
       /\ job[w][s].kept => job[w][s].at \in InHand

ProbeInit ==
  /\ rowId = [s \in Sources |-> 0] /\ added = 0
  /\ claim = [s \in Sources |-> Unclaimed]
  /\ retries = [s \in Sources |-> 0]
  /\ found = NoSource
  /\ wpc = [w \in Workers |-> "off"]
  /\ flag = [w \in Workers |-> FALSE] /\ bad = [w \in Workers |-> FALSE]
  /\ job = [w \in Workers |-> [s \in Sources |-> NoJob]]
  /\ outlived = {} /\ faults = 0

Fault(kind) ==
  /\ kind \in ProbeEvents /\ faults < MaxFaults
  /\ faults' = faults + 1

-----------------------------------------------------------------------------
(* Rows are queued and removed *)

Queued(s) == rowId[s] # 0
\* _probe_queue_claim_is_active
Active(s) == claim[s].by # NoWorker /\ claim[s].live

Generic(s) == {g \in {GenericOf[s]} : g \in Sources /\ Queued(g)}

\* _prepare_concrete_probe_queue_entry: the generic row of the item makes way for a
\* concrete one unless it is being probed.
MakesWay(s) == \A g \in Generic(s) : ~Active(g)

Insert(s) ==
  /\ MakesWay(s)
  /\ IF Queued(s)
     THEN /\ rowId' = [x \in Sources |-> IF x \in Generic(s) THEN 0 ELSE rowId[x]]
          /\ UNCHANGED added
     ELSE /\ added < MaxAdds /\ added' = added + 1
          /\ rowId' = [x \in Sources |-> IF x = s THEN added + 1
                                         ELSE IF x \in Generic(s) THEN 0 ELSE rowId[x]]
  /\ claim' = [x \in Sources |-> IF rowId'[x] = rowId[x] THEN claim[x] ELSE Unclaimed]

workVars == <<wpc, flag, bad, job, outlived, faults>>

\* _queue_page: a source without metadata that the blacklist does not rule out.
Collect(s) ==
  /\ found = NoSource /\ retries[s] < MaxRetries
  /\ found' = s
  /\ UNCHANGED <<queueVars, workVars>>

\* _flush_batch, add_to_probe_queue
Flush ==
  /\ found # NoSource
  /\ found' = NoSource
  /\ \/ Insert(found) /\ UNCHANGED retries
     \/ ~MakesWay(found) /\ UNCHANGED queueVars
  /\ UNCHANGED workVars

\* retry_probe_items: rolled back unless it queues something.
RetryItem(s) ==
  /\ "remove" \in ProbeEvents /\ ~Queued(s)
  /\ Insert(s)
  /\ retries' = [retries EXCEPT ![s] = 0]
  /\ UNCHANGED <<found, workVars>>

DeleteRow(s) ==
  /\ rowId' = [rowId EXCEPT ![s] = 0]
  /\ claim' = [claim EXCEPT ![s] = Unclaimed]

\* remove_probe_item_state: the file is gone, whoever has its row.
RemoveItem(s) ==
  /\ "remove" \in ProbeEvents /\ Queued(s)
  /\ DeleteRow(s)
  /\ retries' = [retries EXCEPT ![s] = 0]
  /\ UNCHANGED <<added, found, workVars>>

\* remove_from_probe_queue, clear_probe_queue: rows without a token only.
RemoveIdle(s) ==
  /\ "remove" \in ProbeEvents /\ Queued(s) /\ claim[s].by = NoWorker
  /\ DeleteRow(s)
  /\ UNCHANGED <<added, retries, found, workVars>>

-----------------------------------------------------------------------------
(* A worker takes a batch *)

\* start_processing: a new thread with a new stop flag.
StartWorker(w) ==
  /\ wpc[w] = "off"
  /\ wpc' = [wpc EXCEPT ![w] = "cycle"]
  /\ UNCHANGED <<queueVars, found, flag, bad, job, outlived, faults>>

\* _retry_count
Fit == {s \in Sources : Queued(s) /\ retries[s] < MaxRetries}

\* Mutations of RowClaimable: a claim never keeps another worker away; a claim lasts for ever.
ClaimableAlways(s) == TRUE
ClaimableWhenFree(s) == claim[s].by = NoWorker

\* claim_probe_queue_items: a free row, or one whose claim has run out.
RowClaimable(s) == claim[s].by = NoWorker \/ ~claim[s].live

Candidates == {s \in Fit : RowClaimable(s)}

Claimed(B, token) ==
  claim' = [s \in Sources |-> IF s \in B THEN [by |-> token, live |-> TRUE] ELSE claim[s]]

\* _prepare_cycle, _claim_next_processable; rows that another transaction has locked
\* are skipped.
TakeBatch(w, B) ==
  /\ wpc[w] = "cycle" /\ ~flag[w]
  /\ B # {} /\ B \subseteq Candidates
  /\ Claimed(B, w)
  /\ job' = [job EXCEPT ![w] = [s \in Sources |->
               IF s \in B THEN [at |-> "unstarted", id |-> rowId[s], kept |-> FALSE, ok |-> FALSE]
                          ELSE NoJob]]
  /\ wpc' = [wpc EXCEPT ![w] = "batch"]
  /\ UNCHANGED <<rowId, added, retries, found, flag, bad, outlived, faults>>

WorkerEnds(w) ==
  /\ wpc' = [wpc EXCEPT ![w] = "off"]
  /\ flag' = [flag EXCEPT ![w] = FALSE] /\ bad' = [bad EXCEPT ![w] = FALSE]
  /\ job' = [job EXCEPT ![w] = [s \in Sources |-> NoJob]]

\* Stopped, or no row is fit: the worker ends.  While another worker has all the rows
\* that are, it looks again and again.
NothingToDo(w) ==
  /\ wpc[w] = "cycle" /\ (flag[w] \/ Fit = {})
  /\ WorkerEnds(w)
  /\ UNCHANGED <<queueVars, found, outlived, faults>>

\* The claim raises, before its commit (B is empty) or after: nobody has that token.
BatchClaimRaises(w, B) ==
  /\ wpc[w] = "cycle" /\ B \subseteq Candidates
  /\ Fault("dbError")
  /\ Claimed(B, w)
  /\ WorkerEnds(w)
  /\ UNCHANGED <<rowId, added, retries, found, outlived>>

-----------------------------------------------------------------------------
(* A row in hand: run_with_claim_renewal *)

At(w, s, place) == wpc[w] \in {"batch", "aborting"} /\ job[w][s].at = place
Held(w) == {s \in Sources : job[w][s].at \in InHand}
\* The statements of storage ask for the id and the token.
OwnsRow(w, s) == rowId[s] = job[w][s].id /\ claim[s].by = w

Goes(w, s, place) == job' = [job EXCEPT ![w][s].at = place]
Leaves(w, s) == job' = [job EXCEPT ![w][s] = NoJob]
Stops(w) == flag' = [flag EXCEPT ![w] = TRUE]

jobStep == <<queueVars, found, wpc, bad, outlived>>

\* _handle_queue_items, _fill_slots; the row is probed when the pause flag and the active
\* streams let it through.
Start(w, s) ==
  /\ At(w, s, "unstarted") /\ wpc[w] = "batch" /\ ~bad[w]
  /\ Cardinality(Held(w)) < Slots[w]
  /\ job' = [job EXCEPT ![w][s] = [@ EXCEPT !.at = IF flag[w] THEN "ending" ELSE "probing",
                                            !.kept = TRUE]]
  /\ UNCHANGED <<jobStep, flag, faults>>

\* _probe: PlaybackInfo has answered; a stop flag that is set by now drops the answer,
\* and one that is set while the metadata is polled makes it an incomplete one.
Probed(w, s) ==
  /\ At(w, s, "probing")
  /\ Goes(w, s, IF flag[w] THEN "ending" ELSE "probed")
  /\ UNCHANGED <<jobStep, flag, faults>>

\* The last renewal before the result, good or bad, is written.
FinalRenew(w, s) ==
  /\ At(w, s, "probed") /\ OwnsRow(w, s)
  /\ \E ok \in BOOLEAN : job' = [job EXCEPT ![w][s] = [@ EXCEPT !.at = "fenced", !.ok = ok]]
  /\ claim' = [claim EXCEPT ![s].live = TRUE]
  /\ UNCHANGED <<rowId, added, retries, found, wpc, flag, bad, outlived, faults>>

\* It finds the claim gone, or raises.
FinalRenewFails(w, s) ==
  /\ At(w, s, "probed")
  /\ \/ ~OwnsRow(w, s) /\ UNCHANGED faults
     \/ Fault("dbError")
  /\ Goes(w, s, "ending") /\ Stops(w)
  /\ UNCHANGED jobStep

\* commit_probe_queue_result
Result(w, s) ==
  LET count == IF job[w][s].ok THEN 0
               ELSE IF retries[s] < MaxRetries THEN retries[s] + 1 ELSE MaxRetries
      again == ~job[w][s].ok /\ ~flag[w] /\ count < MaxRetries
  IN  /\ retries' = [retries EXCEPT ![s] = count]
      /\ rowId' = [rowId EXCEPT ![s] = IF again THEN @ ELSE 0]
      /\ claim' = [claim EXCEPT ![s] = Unclaimed]

Commit(w, s) ==
  /\ At(w, s, "fenced") /\ OwnsRow(w, s)
  /\ Result(w, s) /\ Leaves(w, s)
  /\ UNCHANGED <<added, found, wpc, flag, bad, outlived, faults>>

CommitRefused(w, s) ==
  /\ At(w, s, "fenced") /\ ~OwnsRow(w, s)
  /\ Goes(w, s, "ending") /\ Stops(w)
  /\ UNCHANGED <<jobStep, faults>>

\* The transaction raises, before or after it is committed.  One slot: the exception
\* ends the worker; a pool: the batch.
CommitRaises(w, s) ==
  /\ At(w, s, "fenced") /\ Fault("dbError")
  /\ Goes(w, s, "ending")
  /\ \/ OwnsRow(w, s) /\ Result(w, s)
     \/ UNCHANGED <<rowId, claim, retries>>
  /\ wpc' = [wpc EXCEPT ![w] = IF Slots[w] = 1 THEN "aborting" ELSE @]
  /\ UNCHANGED <<added, found, flag, bad, outlived>>

Renew(w, s) ==
  /\ job[w][s].kept /\ OwnsRow(w, s) /\ ~claim[s].live
  /\ claim' = [claim EXCEPT ![s].live = TRUE]
  /\ UNCHANGED <<rowId, added, retries, found, workVars>>

\* _mark_claim_lost: the renewal finds the claim gone, or raises.
RenewFails(w, s) ==
  /\ job[w][s].kept
  /\ \/ ~OwnsRow(w, s) /\ UNCHANGED faults
     \/ Fault("dbError")
  /\ job' = [job EXCEPT ![w][s].kept = FALSE]
  /\ Stops(w)
  /\ UNCHANGED jobStep

-----------------------------------------------------------------------------
(* The end of a batch *)

\* _handle_queue_item releases a row that was not concluded; _release_unstarted_claims
\* those that were never begun, when the rows in hand are done.
Ends(w, s) ==
  \/ At(w, s, "ending")
  \/ /\ At(w, s, "unstarted") /\ wpc[w] = "batch"
     /\ Held(w) = {} /\ (bad[w] \/ flag[w])

RowReleased(w, s) ==
  claim' = [claim EXCEPT ![s] = IF OwnsRow(w, s) THEN Unclaimed ELSE @]

Release(w, s) ==
  /\ Ends(w, s)
  /\ RowReleased(w, s)
  /\ Leaves(w, s)
  /\ bad' = [bad EXCEPT ![w] = TRUE]
  /\ UNCHANGED <<rowId, added, retries, found, wpc, flag, outlived, faults>>

\* The release raises, before or after its commit, and is logged; a claim that is still
\* there runs out by itself.
ReleaseRaises(w, s) ==
  /\ Ends(w, s) /\ Fault("dbError")
  /\ RowReleased(w, s) \/ UNCHANGED claim
  /\ Leaves(w, s)
  /\ bad' = [bad EXCEPT ![w] = TRUE]
  /\ UNCHANGED <<rowId, added, retries, found, wpc, flag, outlived>>

\* Mutation of EndBatch: a failed or stopped batch ends without _release_unstarted_claims.
EndBatchUnreleased(w) ==
  /\ wpc[w] = "batch" /\ Held(w) = {}
  /\ bad[w] \/ flag[w] \/ \A s \in Sources : job[w][s].at = "none"
  /\ wpc' = [wpc EXCEPT ![w] = "cycle"]
  /\ bad' = [bad EXCEPT ![w] = FALSE]
  /\ job' = [job EXCEPT ![w] = [s \in Sources |-> NoJob]]
  /\ UNCHANGED <<queueVars, found, flag, outlived, faults>>

EndBatch(w) ==
  /\ wpc[w] = "batch" /\ \A s \in Sources : job[w][s].at = "none"
  /\ wpc' = [wpc EXCEPT ![w] = "cycle"]
  /\ bad' = [bad EXCEPT ![w] = FALSE]
  /\ UNCHANGED <<queueVars, found, flag, job, outlived, faults>>

\* The exception leaves _handle_queue_items and ends the worker, without
\* _release_unstarted_claims: the other rows of the batch stay claimed.
Abort(w) ==
  /\ wpc[w] = "aborting" /\ Held(w) = {}
  /\ WorkerEnds(w)
  /\ UNCHANGED <<queueVars, found, outlived, faults>>

-----------------------------------------------------------------------------
(* Time, stops and crashes *)

Renewed(s) == \E w \in Workers : OwnsRow(w, s) /\ job[w][s].kept
Waits(s) == \E w \in Workers : OwnsRow(w, s) /\ job[w][s].at = "unstarted"

\* Five minutes without a renewal; a batch that waits lasts so long by way of exception.
RowExpires(s) ==
  /\ claim[s].live /\ ~Renewed(s)
  /\ IF Waits(s) THEN Fault("longWait") ELSE UNCHANGED faults
  /\ claim' = [claim EXCEPT ![s].live = FALSE]
  /\ outlived' = outlived \cup {rowId[s] : w \in {v \in Workers : OwnsRow(v, s)}}
  /\ UNCHANGED <<rowId, added, retries, found, wpc, flag, bad, job>>

\* stop_processing
StopWorker(w) ==
  /\ wpc[w] # "off" /\ ~flag[w]
  /\ Fault("stop")
  /\ Stops(w)
  /\ UNCHANGED <<jobStep, job>>

CrashWorker(w) ==
  /\ wpc[w] # "off"
  /\ Fault("crash")
  /\ WorkerEnds(w)
  /\ UNCHANGED <<queueVars, found, outlived>>

RowStep(w, s) ==
  \/ Start(w, s) \/ Probed(w, s)
  \/ FinalRenew(w, s) \/ FinalRenewFails(w, s)
  \/ Commit(w, s) \/ CommitRefused(w, s) \/ CommitRaises(w, s)
  \/ Renew(w, s) \/ RenewFails(w, s)
  \/ Release(w, s) \/ ReleaseRaises(w, s)

WorkerStep(w) ==
  \/ StartWorker(w) \/ NothingToDo(w) \/ EndBatch(w) \/ Abort(w)
  \/ \E B \in SUBSET Sources : TakeBatch(w, B) \/ BatchClaimRaises(w, B)

QueueStep(s) == Collect(s) \/ RetryItem(s) \/ RemoveItem(s) \/ RemoveIdle(s) \/ RowExpires(s)

ProbeNext ==
  \/ \E s \in Sources : QueueStep(s)
  \/ Flush
  \/ \E w \in Workers : WorkerStep(w) \/ StopWorker(w) \/ CrashWorker(w)
  \/ \E w \in Workers, s \in Sources : RowStep(w, s)

\* Workers are started again (by the workflow, whose second step is this probe), their
\* threads run, and time passes.
ProbeFairness ==
  /\ \A w \in Workers : WF_probeVars(WorkerStep(w))
  /\ \A w \in Workers, s \in Sources : WF_probeVars(RowStep(w, s))
  /\ \A s \in Sources : WF_probeVars(RowExpires(s))

ProbeSpec == ProbeInit /\ [][ProbeNext]_probeVars
ProbeFairSpec == ProbeSpec /\ ProbeFairness

-----------------------------------------------------------------------------
(* Properties *)

Probing(w, s) == job[w][s].at \in {"probing", "probed"}

\* claim_probe_queue_items leases rows "so separate workers cannot probe them twice":
\* two workers are at Emby with the same row only if its claim ran out while one of
\* them had it, whatever is removed, retried, stopped or killed meanwhile.
OneProber ==
  \A v, w \in Workers, s \in Sources :
    /\ v # w /\ Probing(v, s) /\ Probing(w, s) /\ job[v][s].id = job[w][s].id
    => job[v][s].id \in outlived

\* The rows whose claim no batch of a worker holds: they wait until it runs out.
Stranded == {s \in Sources : claim[s].by # NoWorker /\ ~OwnsRow(claim[s].by, s)}

\* A batch that ends early, by a stop, a failed row, a lost claim or, in a pool, an
\* exception, gives back every row it never began (_release_unstarted_claims).  A row is
\* left claimed by nobody's batch only in a step in which the process dies or the claim or
\* the release of that row raises, and by an exception that ends a worker of one slot.
NoClaimLeftBehind ==
  [][\A s \in Stranded' \ Stranded :
       \/ faults' > faults
       \/ \E w \in Workers : claim'[s].by = w /\ wpc[w] = "aborting" /\ Slots[w] = 1]_probeVars

\* Every queued row is probed, given up after three failures or removed in the end, even
\* when the worker that claimed it dies; a row that the blacklist rules out is the
\* exception (a discovery can queue it again, section 6 of the README).
RowsSettle ==
  \A s \in Sources, i \in 1..MaxAdds :
    rowId[s] = i ~> (rowId[s] # i \/ retries[s] = MaxRetries)
=============================================================================
