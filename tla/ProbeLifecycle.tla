--------------------------- MODULE ProbeLifecycle ---------------------------
(***************************************************************************)
(* Who may run a media probe: the registry of worker threads, stop flags   *)
(* and pause flags of emby_probe/manager.py, the workers of one server     *)
(* (libraries.py, recent.py), the two-phase combos of one server and of a  *)
(* workflow run (combo.py), the sequences over all servers (recent.py),    *)
(* the deletion of a server (emby_runtime/server_routes.py) and the        *)
(* shutdown of the process.                                                *)
(*                                                                         *)
(* Abstractions: a thread is its key and the number of its start; what a   *)
(* worker does (module ProbeQueue) is a step that may take any time, and   *)
(* looks at its stop flag; a sequence visits the servers in any order.     *)
(***************************************************************************)
EXTENDS Naturals, FiniteSets

CONSTANTS
  Servers,
  PlainKeys,     \* keys of plain workers, a subset of those of ChildOf and of no combo
  ComboKeys,     \* keys of combos
  ChildOf,       \* of a combo and a phase: the key of its worker
  Sequences,     \* sequences over the servers
  StepOf,        \* of a sequence: the key it starts on every server
  Runs,          \* runs of a workflow: each starts the combo RunKey on every server
  RunKey,
  NoRun,
  NoServer,
  MaxStarts,     \* bound: no request starts a key that was started so often
  ProbeCalls     \* the calls this instance explores

ASSUME ProbeKeyAssumption ==
  /\ PlainKeys \cap ComboKeys = {} /\ (Runs = {} \/ RunKey \in ComboKeys)
  /\ ChildOf \in [ComboKeys -> [1..2 -> PlainKeys]]
  /\ StepOf \in [Sequences -> PlainKeys]
  /\ NoRun \notin Runs /\ NoServer \notin Servers /\ MaxStarts \in Nat
ASSUME ProbeCallAssumption ==
  ProbeCalls \subseteq {"stop", "delete", "shutdown", "startFails"}

Keys == PlainKeys \cup ComboKeys
Gens == Nat

VARIABLES
  accept,      \* _accept_workers
  quiescing,   \* _quiescing_servers
  thread,      \* _workers, _stop_flags: the registered thread of a server and a key
  starts,      \* starts of each so far, to tell one thread from the next
  pause,       \* _libraries_pause_flags
  combo,       \* where each combo is
  seq,         \* _global_workers, _global_stop_flags and where each sequence is
  seqStarts,
  cancelled,   \* _cancelled_combo_run_ids
  begun,       \* runs that have asked for their start
  stopped,     \* history: runs that were told to stop
  deletion,    \* the deletion of a server in progress
  closing      \* the shutdown in progress

registryVars == <<accept, quiescing, cancelled, begun, stopped, deletion, closing>>
lifeVars == <<registryVars, thread, starts, pause, combo, seq, seqStarts>>

NoThread == [pc |-> "none", gen |-> 0, stop |-> FALSE, run |-> NoRun]
NoCombo == [phase |-> 1, at |-> "begin", begun |-> FALSE, child |-> 0, own |-> 0]
NoSeq == [pc |-> "none", gen |-> 0, stop |-> FALSE, todo |-> {}, at |-> NoServer, child |-> 0]
NoDeletion == [server |-> NoServer, at |-> "none", local |-> {}, global |-> {}]
NotClosing == [at |-> "no", local |-> {}, global |-> {}]

Handles == Servers \X Keys \X Gens
SeqHandles == Sequences \X Gens

\* The registry names the latest thread of a key, and a combo or sequence waits for a
\* thread that has been started.
LifeTypeOK ==
  /\ accept \in BOOLEAN /\ quiescing \subseteq Servers
  /\ thread \in [Servers -> [Keys ->
       [pc : {"none", "run", "closing", "done"}, gen : Gens, stop : BOOLEAN,
        run : Runs \cup {NoRun}]]]
  /\ starts \in [Servers -> [Keys -> Gens]]
  /\ pause \in [Servers -> BOOLEAN]
  /\ combo \in [Servers -> [ComboKeys -> [phase : 1..2, at : {"begin", "checked", "called", "waits"},
                                          begun : BOOLEAN, child : Gens, own : Gens]]]
  /\ seq \in [Sequences -> [pc : {"none", "run", "waits", "closing", "done"}, gen : Gens,
                            stop : BOOLEAN, todo : SUBSET Servers,
                            at : Servers \cup {NoServer}, child : Gens]]
  /\ seqStarts \in [Sequences -> Gens]
  /\ cancelled \subseteq Runs /\ begun \subseteq Runs /\ stopped \subseteq Runs
  /\ deletion \in [server : Servers \cup {NoServer}, at : {"none", "joins", "quiet"},
                   local : SUBSET Handles, global : SUBSET SeqHandles]
  /\ closing \in [at : {"no", "refuses", "joins", "closed"},
                  local : SUBSET Handles, global : SUBSET SeqHandles]
  /\ \A s \in Servers, k \in Keys : thread[s][k].gen <= starts[s][k]

LifeInit ==
  /\ accept = TRUE /\ quiescing = {} /\ cancelled = {} /\ begun = {} /\ stopped = {}
  /\ thread = [s \in Servers |-> [k \in Keys |-> NoThread]]
  /\ starts = [s \in Servers |-> [k \in Keys |-> 0]]
  /\ pause = [s \in Servers |-> FALSE]
  /\ combo = [s \in Servers |-> [c \in ComboKeys |-> NoCombo]]
  /\ seq = [q \in Sequences |-> NoSeq] /\ seqStarts = [q \in Sequences |-> 0]
  /\ deletion = NoDeletion /\ closing = NotClosing

Lives(t) == t.pc \in {"run", "waits", "closing"}
Alive(s, k) == Lives(thread[s][k])
\* A handle, or an Event, of the thread g of a key.
Same(s, k, g) == thread[s][k].gen = g /\ g # 0
Running(s, k, g) == Same(s, k, g) /\ Alive(s, k)

-----------------------------------------------------------------------------
(* Threads are started, under the lock of the manager *)

\* Mutation of MayStart: a deletion in progress does not keep a worker from starting.
MayStartAlways(s) == accept

\* _can_start_worker_locked
MayStart(s) == accept /\ s \notin quiescing

RecentProcessing == "recent_processing"

New(s, k, r) == [pc |-> "run", gen |-> starts[s][k] + 1, stop |-> FALSE, run |-> r]

\* start_discovery, start_processing, start_recent_discovery, start_recent_processing.
\* The last one sets the pause of the libraries before it looks for a worker of its own.
\* got: "started"; "refused"; "failed", when the thread cannot be created.
StartThread(s, k, r, got) ==
  IF ~MayStart(s)
  THEN got = "refused" /\ UNCHANGED <<thread, starts, pause>>
  ELSE IF Alive(s, k)
  THEN /\ got = "refused"
       /\ pause' = [pause EXCEPT ![s] = @ \/ k = RecentProcessing]
       /\ UNCHANGED <<thread, starts>>
  ELSE \/ /\ got = "started"
          /\ starts' = [starts EXCEPT ![s][k] = @ + 1]
          /\ thread' = [thread EXCEPT ![s][k] = New(s, k, r)]
          /\ pause' = [pause EXCEPT ![s] = @ \/ k = RecentProcessing]
       \/ /\ got = "failed" /\ "startFails" \in ProbeCalls
          /\ thread' = [thread EXCEPT ![s][k] = NoThread]
          /\ pause' = [pause EXCEPT ![s] = @ /\ k # RecentProcessing]
          /\ UNCHANGED starts

Results == {"started", "refused", "failed"}

\* The routes of the plain workers and of the combos of one server.
CallStart(s, k) ==
  /\ starts[s][k] < MaxStarts
  /\ \E got \in Results : StartThread(s, k, NoRun, got)
  /\ combo' = IF k \in ComboKeys /\ starts' # starts
              THEN [combo EXCEPT ![s][k] = NoCombo] ELSE combo
  /\ UNCHANGED <<registryVars, seq, seqStarts>>

\* start_combo_workflow_all_servers of a workflow run, one critical section; a server
\* whose combo lives, or that is being deleted, is left out.
StartRun(r) ==
  LET into == {s \in Servers : MayStart(s) /\ ~Alive(s, RunKey)}
  IN  /\ r \notin begun /\ begun' = begun \cup {r}
      /\ IF r \in cancelled
         THEN /\ cancelled' = cancelled \ {r}
              /\ UNCHANGED <<thread, starts, combo>>
         ELSE /\ starts' = [s \in Servers |-> IF s \in into
                              THEN [starts[s] EXCEPT ![RunKey] = @ + 1] ELSE starts[s]]
              /\ thread' = [s \in Servers |-> IF s \in into
                              THEN [thread[s] EXCEPT ![RunKey] = New(s, RunKey, r)] ELSE thread[s]]
              /\ combo' = [s \in Servers |-> IF s \in into
                              THEN [combo[s] EXCEPT ![RunKey] = NoCombo] ELSE combo[s]]
              /\ UNCHANGED cancelled
      /\ UNCHANGED <<accept, quiescing, stopped, deletion, closing, pause, seq, seqStarts>>

\* start_recent_discovery_sequence, start_recent_processing_sequence
CallSequence(q) ==
  /\ accept /\ ~Lives(seq[q]) /\ seqStarts[q] < MaxStarts
  /\ seqStarts' = [seqStarts EXCEPT ![q] = @ + 1]
  /\ seq' = [seq EXCEPT ![q] = [NoSeq EXCEPT !.pc = "run", !.gen = seqStarts[q] + 1,
                                             !.todo = Servers \ {deletion.server}]]
  /\ UNCHANGED <<registryVars, thread, starts, pause, combo>>

-----------------------------------------------------------------------------
(* A worker of one server *)

plainStep == <<registryVars, starts, combo, seq, seqStarts>>

\* What it waits for besides its work: the pause of the libraries, the recent discovery.
HeldUp(s, k) ==
  \/ k = "processing" /\ pause[s]
  \/ k = RecentProcessing /\ "recent_discovery" \in PlainKeys /\ Alive(s, "recent_discovery")

\* The work is done, stopped or failed; the recent one gives the libraries their turn.
WorkEnds(s, k) ==
  /\ k \in PlainKeys /\ thread[s][k].pc = "run"
  /\ HeldUp(s, k) => thread[s][k].stop
  /\ thread' = [thread EXCEPT ![s][k].pc = "closing"]
  /\ pause' = [pause EXCEPT ![s] = @ /\ k # RecentProcessing]
  /\ UNCHANGED plainStep

\* _finalize_worker_state has had the lock again, and the thread is over.
ThreadEnds(s, k) ==
  /\ thread[s][k].pc = "closing"
  /\ thread' = [thread EXCEPT ![s][k].pc = "done"]
  /\ UNCHANGED <<plainStep, pause>>

-----------------------------------------------------------------------------
(* A combo: discovery, then processing *)

comboStep == <<registryVars, seq, seqStarts>>

InCombo(s, c, place) == thread[s][c].pc = "run" /\ combo[s][c].at = place
ChildKey(s, c) == ChildOf[c][combo[s][c].phase]
ComboCloses(s, c) == thread' = [thread EXCEPT ![s][c].pc = "closing"]

\* _run_combo_phase looks at the stop flag, then _start_combo_child takes the lock.
ComboChecks(s, c) ==
  /\ InCombo(s, c, "begin") /\ ~thread[s][c].stop
  /\ combo' = [combo EXCEPT ![s][c].at = "checked"]
  /\ UNCHANGED <<comboStep, thread, starts, pause>>

ComboCalls(s, c) ==
  /\ InCombo(s, c, "checked")
  /\ \E got \in {"started", "refused"} :
       /\ StartThread(s, ChildKey(s, c), thread[s][c].run, got)
       /\ combo' = [combo EXCEPT ![s][c].at = "called", ![s][c].begun = (got = "started")]
  /\ UNCHANGED comboStep

\* A start that raises ends the combo.
ComboCallRaises(s, c) ==
  /\ InCombo(s, c, "checked")
  /\ "startFails" \in ProbeCalls /\ MayStart(s) /\ ~Alive(s, ChildKey(s, c))
  /\ thread' = [thread EXCEPT ![s][c].pc = "closing", ![s][ChildKey(s, c)] = NoThread]
  /\ pause' = [pause EXCEPT ![s] = @ /\ ChildKey(s, c) # RecentProcessing]
  /\ UNCHANGED <<comboStep, starts, combo>>

\* The worker and its stop flag are looked up after the start has let the lock go.
ComboLooksUp(s, c) ==
  /\ InCombo(s, c, "called")
  /\ LET g == thread[s][ChildKey(s, c)].gen
     IN  combo' = [combo EXCEPT ![s][c].at = "waits", ![s][c].child = g,
                                ![s][c].own = IF combo[s][c].begun THEN g ELSE 0]
  /\ UNCHANGED <<comboStep, thread, starts, pause>>

\* _wait_for_worker: the worker it looked up is over, and the second phase begins.
ComboGoesOn(s, c) ==
  /\ InCombo(s, c, "waits") /\ ~thread[s][c].stop
  /\ ~Running(s, ChildKey(s, c), combo[s][c].child)
  /\ IF combo[s][c].phase = 1
     THEN combo' = [combo EXCEPT ![s][c] = [NoCombo EXCEPT !.phase = 2]] /\ UNCHANGED thread
     ELSE ComboCloses(s, c) /\ UNCHANGED combo
  /\ UNCHANGED <<comboStep, starts, pause>>

\* Mutation of PassesStop: the child of a stopped combo is left alone.
PassesStopNot(s, c) == thread[s]

\* The child that this combo started is stopped, and no other.
PassesStop(s, c) ==
  LET k == ChildKey(s, c)
  IN  IF combo[s][c].at = "waits" /\ Same(s, k, combo[s][c].own)
      THEN [thread[s] EXCEPT ![k].stop = TRUE] ELSE thread[s]

ComboStops(s, c) ==
  /\ thread[s][c].pc = "run" /\ thread[s][c].stop /\ combo[s][c].at \in {"begin", "waits"}
  /\ thread' = [thread EXCEPT ![s] = [PassesStop(s, c) EXCEPT ![c].pc = "closing"]]
  /\ UNCHANGED <<comboStep, starts, pause, combo>>

-----------------------------------------------------------------------------
(* A sequence over the servers *)

seqStep == <<registryVars, combo, seqStarts>>

SeqCloses(q) == seq' = [seq EXCEPT ![q].pc = "closing"]

\* One server, started or refused; an exception ends the sequence.
SeqCalls(q, s) ==
  /\ seq[q].pc = "run" /\ ~seq[q].stop /\ s \in seq[q].todo
  /\ \E got \in Results :
       /\ StartThread(s, StepOf[q], NoRun, got)
       /\ seq' = [seq EXCEPT ![q].pc = IF got = "failed" THEN "closing" ELSE "waits",
                             ![q].todo = @ \ {s}, ![q].at = s,
                             ![q].child = thread'[s][StepOf[q]].gen]
  /\ UNCHANGED seqStep

SeqGoesOn(q) ==
  /\ seq[q].pc = "waits" /\ ~seq[q].stop
  /\ ~Running(seq[q].at, StepOf[q], seq[q].child)
  /\ seq' = [seq EXCEPT ![q].pc = "run"]
  /\ UNCHANGED <<seqStep, thread, starts, pause>>

\* Stopped: whatever worker is registered for the server it waits for is told to stop.
SeqStops(q) ==
  /\ seq[q].pc = "waits" /\ seq[q].stop
  /\ SeqCloses(q)
  /\ thread' = [thread EXCEPT ![seq[q].at][StepOf[q]].stop = (thread[seq[q].at][StepOf[q]].pc # "none")]
  /\ UNCHANGED <<seqStep, starts, pause>>

SeqDone(q) ==
  /\ seq[q].pc = "run" /\ (seq[q].todo = {} \/ seq[q].stop)
  /\ SeqCloses(q)
  /\ UNCHANGED <<seqStep, thread, starts, pause>>

SeqEnds(q) ==
  /\ seq[q].pc = "closing"
  /\ seq' = [seq EXCEPT ![q].pc = "done"]
  /\ UNCHANGED <<seqStep, thread, starts, pause>>

-----------------------------------------------------------------------------
(* Stops *)

stopStep == <<accept, quiescing, begun, deletion, closing, starts, pause, combo, seqStarts>>

TellAll(P(_, _)) ==
  thread' = [s \in Servers |-> [k \in Keys |->
               IF thread[s][k].pc # "none" /\ P(s, k)
               THEN [thread[s][k] EXCEPT !.stop = TRUE] ELSE thread[s][k]]]

\* stop_discovery, stop_processing, stop_recent_discovery, stop_recent_processing; of a
\* combo: stop_combo_workflow, which takes the workers of its scope with it.
CallStop(s, k) ==
  /\ "stop" \in ProbeCalls /\ thread[s][k].pc # "none"
  /\ TellAll(LAMBDA t, j : t = s /\ (j = k \/ (k \in ComboKeys /\ j \in {ChildOf[k][1], ChildOf[k][2]})))
  /\ UNCHANGED <<stopStep, cancelled, stopped, seq>>

CallStopSequence(q) ==
  /\ "stop" \in ProbeCalls /\ Lives(seq[q]) /\ ~seq[q].stop
  /\ seq' = [seq EXCEPT ![q].stop = TRUE]
  /\ UNCHANGED <<stopStep, cancelled, stopped, thread>>

\* stop_combo_workflow_all_servers of a run: its combos and the workers they started; if
\* there are none, the run is remembered for the start that may still come.
StopRun(r) ==
  /\ "stop" \in ProbeCalls /\ r \notin stopped
  /\ stopped' = stopped \cup {r}
  /\ LET Of(s, k) == thread[s][k].run = r /\ thread[s][RunKey].run = r
                     /\ k \in {RunKey, ChildOf[RunKey][1], ChildOf[RunKey][2]}
     IN  /\ TellAll(Of)
         /\ cancelled' = IF \E s \in Servers, k \in Keys : thread[s][k].pc # "none" /\ Of(s, k)
                         THEN cancelled ELSE cancelled \cup {r}
  /\ UNCHANGED <<stopStep, seq>>

-----------------------------------------------------------------------------
(* A server is deleted; the process shuts down *)

RegisteredWorkers(S) == {<<s, k, thread[s][k].gen>> : s \in S, k \in Keys}
SeqRegistered == {<<q, seq[q].gen>> : q \in Sequences}
TellSequences == seq' = [q \in Sequences |-> [seq[q] EXCEPT !.stop = (@ \/ Lives(seq[q]))]]

\* quiesce_server: the fence, then everybody is told; the sequences of other servers too,
\* since they "can start work for this server later".
QuiesceBegins(s) ==
  /\ "delete" \in ProbeCalls /\ deletion.at = "none"
  /\ quiescing' = quiescing \cup {s}
  /\ TellAll(LAMBDA t, k : t = s)
  /\ TellSequences
  /\ deletion' = [server |-> s, at |-> "joins", local |-> RegisteredWorkers({s}), global |-> SeqRegistered]
  /\ UNCHANGED <<accept, cancelled, begun, stopped, closing, starts, pause, combo, seqStarts>>

Joined(local, global) ==
  /\ \A h \in local : ~Running(h[1], h[2], h[3])
  /\ \A h \in global : ~(seq[h[1]].gen = h[2] /\ Lives(seq[h[1]]))

\* All have ended within the deadline: the server is forgotten, and its data may go.
QuiesceSucceeds ==
  /\ deletion.at = "joins" /\ Joined(deletion.local, deletion.global)
  /\ \A k \in Keys : ~Alive(deletion.server, k)
  /\ thread' = [thread EXCEPT ![deletion.server] = [k \in Keys |-> NoThread]]
  /\ pause' = [pause EXCEPT ![deletion.server] = FALSE]
  /\ deletion' = [deletion EXCEPT !.at = "quiet"]
  /\ UNCHANGED <<accept, quiescing, cancelled, begun, stopped, closing, starts, combo, seq, seqStarts>>

Readmitted(s) ==
  /\ quiescing' = quiescing \ {s}
  /\ UNCHANGED <<accept, cancelled, begun, stopped, closing, thread, starts, pause, combo, seq, seqStarts>>

\* The deadline has passed, or the deletion is refused: _restore_server_after_failed_delete.
DeletionFails ==
  /\ deletion.at \in {"joins", "quiet"}
  /\ deletion' = NoDeletion
  /\ Readmitted(deletion.server)

\* remove_emby_server_data: the fence stays.
DeletionCommits ==
  /\ deletion.at = "quiet"
  /\ deletion' = NoDeletion
  /\ UNCHANGED <<accept, quiescing, cancelled, begun, stopped, closing, thread, starts, pause, combo, seq, seqStarts>>

\* _allow_server_runtime: a server with this identity is saved again.
SaveServer(s) ==
  /\ s \in quiescing /\ deletion.server # s
  /\ UNCHANGED deletion
  /\ Readmitted(s)

closeStep == <<quiescing, cancelled, begun, stopped, deletion, starts, pause, combo, seqStarts>>

ShutdownBegins ==
  /\ "shutdown" \in ProbeCalls /\ closing.at = "no"
  /\ accept' = FALSE
  /\ closing' = [closing EXCEPT !.at = "refuses"]
  /\ UNCHANGED <<closeStep, thread, seq>>

ShutdownTells ==
  /\ closing.at = "refuses"
  /\ closing' = [at |-> "joins", local |-> RegisteredWorkers(Servers), global |-> SeqRegistered]
  /\ TellAll(LAMBDA s, k : TRUE) /\ TellSequences
  /\ UNCHANGED <<closeStep, accept>>

\* shutdown returns TRUE; without it the deadline passes and the process goes on closing.
ShutdownReturns ==
  /\ closing.at = "joins" /\ Joined(closing.local, closing.global)
  /\ closing' = [NotClosing EXCEPT !.at = "closed"]
  /\ UNCHANGED <<closeStep, accept, thread, seq>>

ShutdownTimesOut ==
  /\ closing.at = "joins"
  /\ closing' = NotClosing
  /\ UNCHANGED <<closeStep, accept, thread, seq>>

\* configure with reopen: refused while a registered worker lives.
Reopen ==
  /\ ~accept /\ closing.at \in {"no", "closed"}
  /\ \A s \in Servers, k \in Keys : ~Alive(s, k)
  /\ \A q \in Sequences : ~Lives(seq[q])
  /\ accept' = TRUE /\ closing' = NotClosing
  /\ UNCHANGED <<closeStep, thread, seq>>

ThreadStep(s, k) == WorkEnds(s, k) \/ ThreadEnds(s, k)
ComboStep(s, c) ==
  ComboChecks(s, c) \/ ComboCalls(s, c) \/ ComboCallRaises(s, c) \/ ComboLooksUp(s, c) \/ ComboGoesOn(s, c) \/ ComboStops(s, c)
SeqStep(q) == SeqGoesOn(q) \/ SeqStops(q) \/ SeqDone(q) \/ SeqEnds(q) \/ \E s \in Servers : SeqCalls(q, s)
Deletion ==
  \/ QuiesceSucceeds \/ DeletionFails \/ DeletionCommits
  \/ \E s \in Servers : QuiesceBegins(s) \/ SaveServer(s)
Shutdown == ShutdownBegins \/ ShutdownTells \/ ShutdownReturns \/ ShutdownTimesOut \/ Reopen

LifeNext ==
  \/ \E s \in Servers, k \in Keys : CallStart(s, k) \/ CallStop(s, k) \/ ThreadStep(s, k)
  \/ \E s \in Servers, c \in ComboKeys : ComboStep(s, c)
  \/ \E q \in Sequences : CallSequence(q) \/ CallStopSequence(q) \/ SeqStep(q)
  \/ \E r \in Runs : StartRun(r) \/ StopRun(r)
  \/ Deletion \/ Shutdown

\* The threads run, and a worker that is told to stop ends; its work alone may last for
\* ever, and nobody has to call anything.
LifeFairness ==
  /\ \A s \in Servers, k \in Keys :
       WF_lifeVars(ThreadEnds(s, k)) /\ WF_lifeVars(thread[s][k].stop /\ WorkEnds(s, k))
  /\ \A s \in Servers, c \in ComboKeys : WF_lifeVars(ComboStep(s, c))
  /\ \A q \in Sequences : WF_lifeVars(SeqStep(q))

LifeSpec == LifeInit /\ [][LifeNext]_lifeVars
LifeFairSpec == LifeSpec /\ LifeFairness

-----------------------------------------------------------------------------
(* Properties *)

\* quiesce_server: "Stop and join workers that may still write data for one server".  From
\* its success until the server is saved again or the deletion is given up, and from the
\* success of a shutdown until the manager is opened again, no thread lives that may
\* write, whatever combo, sequence, run or request was on its way.
QuietWhenAsked ==
  /\ \A s \in Servers :
       s \in quiescing /\ (deletion.server = s => deletion.at = "quiet")
       => \A k \in Keys : ~Alive(s, k)
  /\ closing.at = "closed" =>
       /\ \A s \in Servers, k \in Keys : ~Alive(s, k)
       /\ \A q \in Sequences : ~Lives(seq[q])

\* _wf_stop_probe stops the workers of its run, "evitando processing/discovery orfani":
\* when a run has been told to stop, before its start or at any moment of it, none of the
\* combos and workers it started goes on for ever, and no other run is needed for that.
StoppedRunEnds ==
  \A r \in Runs : <>[](r \in stopped =>
    \A s \in Servers, k \in Keys : thread[s][k].run = r => ~Alive(s, k))
=============================================================================
