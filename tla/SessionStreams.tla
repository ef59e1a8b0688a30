--------------------------- MODULE SessionStreams ---------------------------
(***************************************************************************)
(* What Emby plays, as OctoHubs keeps it: socket events that ask for a     *)
(* refresh (realtime/manager.py), the dispatcher that coalesces them       *)
(* (realtime/session_refresh_dispatcher.py) and the shared cache of        *)
(* streams with its other readers (emby_runtime/streams.py), over several  *)
(* lifespans of the application in one process.                            *)
(*                                                                         *)
(* Abstractions: a list of streams is the number of events that had        *)
(* arrived when it was asked for; the age of an entry is a choice; the     *)
(* readers are the requests and the transcode guard, which share one code  *)
(* path.  The servers stay configured: the early return of                 *)
(* _handle_sessions_update for one that is not any more, and clear_server, *)
(* which drops the entry and the refresh lock, are left out (section 6 of  *)
(* the README).                                                            *)
(***************************************************************************)
EXTENDS Naturals, Sequences, FiniteSets

CONSTANTS
  EmbyServers,
  Drainers,       \* worker threads of each dispatcher
  StreamReaders,  \* callers of refresh_server that do not force it
  MaxArrivals,    \* bound: events that arrive for a server
  MaxDispatchers  \* bound: dispatchers ever created

ASSUME StreamBoundAssumption == MaxArrivals \in Nat /\ MaxDispatchers \in Nat \ {0}

Dispatchers == 1..MaxDispatchers
\* Who may be inside refresh_server.
Callers == (Dispatchers \X Drainers) \cup StreamReaders
Nobody == <<0, "nobody">>

ASSUME CallerAssumption ==
  /\ EmbyServers # {}
  /\ StreamReaders \cap (Dispatchers \X Drainers) = {} /\ Nobody \notin StreamReaders

VARIABLES
  current,     \* _sessions_dispatcher, 0 for None
  accepting,   \* _sessions_dispatcher_accepting
  disp,        \* _pending, _running, _ready and _closed of every dispatcher
  caller,      \* where each worker and reader is
  arrived,     \* events that have arrived from Emby
  signalled,   \* history: the last of them that this dispatcher accepted
  seen,        \* history: the events that had arrived when a worker last asked Emby
  streams,     \* _streams: what the cached list was built from, or NoStreams
  stale,       \* _stale_servers: the event that marked a server, 0 if it is not marked
  lock         \* _refresh_locks: who holds the lock of a server

cacheVars == <<streams, stale, lock>>
eventVars == <<arrived, signalled>>
lifeOfStreams == <<current, accepting>>
streamVars == <<lifeOfStreams, disp, caller, eventVars, seen, cacheVars>>

NoStreams == MaxArrivals + 1
Versions == 0..MaxArrivals
Resting == [at |-> "rests", server |-> CHOOSE s \in EmbyServers : TRUE, from |-> 0]
NewDispatcher == [pending |-> {}, running |-> {}, ready |-> <<>>, closed |-> FALSE]

\* A server is in the hands of one worker at a time, and waits in the queue at most once.
StreamTypeOK ==
  /\ current \in 0..MaxDispatchers /\ accepting \in BOOLEAN
  /\ \A d \in DOMAIN disp :
       /\ disp[d].pending \subseteq EmbyServers /\ disp[d].running \subseteq EmbyServers
       /\ disp[d].closed \in BOOLEAN /\ disp[d].ready \in Seq(EmbyServers)
       /\ Len(disp[d].ready) <= Cardinality(disp[d].running)
  /\ DOMAIN disp \subseteq Dispatchers
  /\ caller \in [Callers -> [at : {"none", "rests", "drains", "called", "waits", "asks", "answered",
                                   "checked", "gone"},
                             server : EmbyServers, from : Versions]]
  /\ arrived \in [EmbyServers -> Versions] /\ signalled \in [EmbyServers -> Versions]
  /\ seen \in [EmbyServers -> Versions]
  /\ streams \in [EmbyServers -> Versions \cup {NoStreams}]
  /\ stale \in [EmbyServers -> Versions]
  /\ lock \in [EmbyServers -> Callers \cup {Nobody}]
  /\ \A s \in EmbyServers, c \in Callers :
       lock[s] = c <=> caller[c].server = s /\ caller[c].at \in {"asks", "answered", "checked"}

StreamInit ==
  /\ current = 0 /\ accepting = FALSE /\ disp = <<>>
  /\ caller = [c \in Callers |-> IF c \in StreamReaders THEN Resting ELSE [Resting EXCEPT !.at = "none"]]
  /\ arrived = [s \in EmbyServers |-> 0] /\ signalled = [s \in EmbyServers |-> 0]
  /\ seen = [s \in EmbyServers |-> 0]
  /\ streams = [s \in EmbyServers |-> NoStreams]
  /\ stale = [s \in EmbyServers |-> 0]
  /\ lock = [s \in EmbyServers |-> Nobody]

Goto(c, place) == caller' = [caller EXCEPT ![c].at = place]
Of(d) == {<<d, w>> : w \in Drainers}
IsCurrent(d) == accepting /\ current = d

-----------------------------------------------------------------------------
(* Events of the socket *)

Arrives(s) ==
  /\ arrived[s] < MaxArrivals
  /\ arrived' = [arrived EXCEPT ![s] = @ + 1]

\* Mutation of Submitted: while a worker has the server, the event is taken for done.
SubmittedUnlessRunning(d, s) ==
  IF s \in d.running THEN d
  ELSE [d EXCEPT !.pending = @ \cup {s}, !.running = @ \cup {s}, !.ready = Append(@, s)]

\* Mutation of Submitted: a server is queued although a worker has it.
SubmittedTwice(d, s) ==
  [d EXCEPT !.pending = @ \cup {s}, !.running = @ \cup {s}, !.ready = Append(@, s)]

\* SessionRefreshDispatcher.submit
Submitted(d, s) ==
  IF s \in d.running THEN [d EXCEPT !.pending = @ \cup {s}]
  ELSE [d EXCEPT !.pending = @ \cup {s}, !.running = @ \cup {s}, !.ready = Append(@, s)]

\* A Sessions event: _schedule_sessions_update.
SessionsArrive(s) ==
  /\ Arrives(s)
  /\ IF accepting /\ current # 0 /\ ~disp[current].closed
     THEN /\ disp' = [disp EXCEPT ![current] = Submitted(@, s)]
          /\ signalled' = [signalled EXCEPT ![s] = arrived'[s]]
     ELSE UNCHANGED <<disp, signalled>>
  /\ UNCHANGED <<lifeOfStreams, caller, seen, cacheVars>>

\* Another playback event: mark_stale, by setup_stream_session_forwarding.
PlaybackArrives(s) ==
  /\ Arrives(s)
  /\ stale' = [stale EXCEPT ![s] = arrived'[s]]
  /\ UNCHANGED <<lifeOfStreams, disp, caller, signalled, seen, streams, lock>>

-----------------------------------------------------------------------------
(* The workers of a dispatcher *)

\* _worker
TakeServer(d, w) ==
  /\ caller[<<d, w>>].at = "rests" /\ disp[d].ready # <<>>
  /\ caller' = [caller EXCEPT ![<<d, w>>].at = "drains", ![<<d, w>>].server = Head(disp[d].ready)]
  /\ disp' = [disp EXCEPT ![d].ready = Tail(@)]
  /\ UNCHANGED <<lifeOfStreams, eventVars, seen, cacheVars>>

WorkerLeaves(d, w) ==
  /\ caller[<<d, w>>].at = "rests" /\ disp[d].closed /\ disp[d].ready = <<>>
  /\ Goto(<<d, w>>, "gone")
  /\ UNCHANGED <<lifeOfStreams, disp, eventVars, seen, cacheVars>>

\* _drain: the server is let go in the critical section that finds nothing pending.
Drain(d, w) ==
  LET s == caller[<<d, w>>].server
  IN  /\ caller[<<d, w>>].at = "drains"
      /\ disp' = [disp EXCEPT ![d].pending = @ \ {s},
                              ![d].running = IF disp[d].closed \/ s \notin disp[d].pending THEN @ \ {s} ELSE @]
      /\ Goto(<<d, w>>, IF disp[d].closed \/ s \notin disp[d].pending THEN "rests" ELSE "called")
      /\ UNCHANGED <<lifeOfStreams, eventVars, seen, cacheVars>>

\* _handle_sessions_update: refresh_server by force, unless the dispatcher is retired.
Called(d, w) ==
  /\ caller[<<d, w>>].at = "called"
  /\ Goto(<<d, w>>, IF IsCurrent(d) THEN "waits" ELSE "drains")
  /\ UNCHANGED <<lifeOfStreams, disp, eventVars, seen, cacheVars>>

\* The lock of the server is taken, and Emby is asked.
Refreshes(d, w) ==
  LET c == <<d, w>>  s == caller[c].server
  IN  /\ caller[c].at = "waits" /\ lock[s] = Nobody
      /\ lock' = [lock EXCEPT ![s] = c]
      /\ caller' = [caller EXCEPT ![c].at = "asks", ![c].from = arrived[s]]
      /\ seen' = [seen EXCEPT ![s] = arrived[s]]
      /\ UNCHANGED <<lifeOfStreams, disp, eventVars, streams, stale>>

\* is_current, after the answer and before the cache is written.
Answered(d, w) ==
  LET c == <<d, w>>
  IN  /\ caller[c].at = "asks"
      /\ IF IsCurrent(d)
         THEN Goto(c, "checked") /\ UNCHANGED lock
         ELSE Goto(c, "drains") /\ lock' = [lock EXCEPT ![caller[c].server] = Nobody]
      /\ UNCHANGED <<lifeOfStreams, disp, eventVars, seen, streams, stale>>

\* refresh_from_api, or record_refresh_error when Emby answered with an error; then the
\* lock is let go and the list broadcast.
Written(c) ==
  LET s == caller[c].server
  IN  /\ \/ streams' = [streams EXCEPT ![s] = caller[c].from]
         \/ UNCHANGED streams
      /\ stale' = [stale EXCEPT ![s] = 0]
      /\ lock' = [lock EXCEPT ![s] = Nobody]

Writes(d, w) ==
  /\ caller[<<d, w>>].at = "checked"
  /\ Written(<<d, w>>)
  /\ Goto(<<d, w>>, "drains")
  /\ UNCHANGED <<lifeOfStreams, disp, eventVars, seen>>

-----------------------------------------------------------------------------
(* Other readers of the cache: refresh_server without force *)

\* The entry is stale, or too old.
ReaderBegins(r, s) ==
  /\ caller[r].at = "rests"
  /\ caller' = [caller EXCEPT ![r].at = "waits", ![r].server = s]
  /\ UNCHANGED <<lifeOfStreams, disp, eventVars, seen, cacheVars>>

\* Mutation of LockFree: the refresh lock is not waited for.
LockFreeAlways(s) == TRUE

LockFree(s) == lock[s] = Nobody

\* It looks again with the lock: still stale or too old, or refreshed by another meanwhile.
ReaderLocks(r) ==
  LET s == caller[r].server
  IN  /\ caller[r].at = "waits" /\ LockFree(s)
      /\ \/ /\ lock' = [lock EXCEPT ![s] = r]
            /\ caller' = [caller EXCEPT ![r].at = "asks", ![r].from = arrived[s]]
         \/ /\ stale[s] = 0
            /\ Goto(r, "rests") /\ UNCHANGED lock
      /\ UNCHANGED <<lifeOfStreams, disp, eventVars, seen, streams, stale>>

ReaderWrites(r) ==
  /\ caller[r].at = "asks"
  /\ Written(r)
  /\ Goto(r, "rests")
  /\ UNCHANGED <<lifeOfStreams, disp, eventVars, seen>>

-----------------------------------------------------------------------------
(* Lifespans *)

\* initialize_session_refresh_dispatcher; while an earlier one is not drained it raises.
OpenDispatcher ==
  /\ current = 0 /\ Len(disp) < MaxDispatchers
  /\ disp' = Append(disp, NewDispatcher)
  /\ current' = Len(disp) + 1 /\ accepting' = TRUE
  /\ caller' = [c \in Callers |-> IF c \in Of(Len(disp) + 1) THEN Resting ELSE caller[c]]
  /\ signalled' = [s \in EmbyServers |-> 0]
  /\ UNCHANGED <<arrived, seen, cacheVars>>

\* shutdown_session_refresh_dispatcher: admission is closed first ...
Retire ==
  /\ accepting /\ accepting' = FALSE
  /\ UNCHANGED <<current, disp, caller, eventVars, seen, cacheVars>>

\* ... then the dispatcher, whose queues are emptied ...
CloseDispatcher ==
  /\ ~accepting /\ current # 0
  /\ disp' = [disp EXCEPT ![current] = [@ EXCEPT !.pending = {}, !.ready = <<>>, !.closed = TRUE]]
  /\ UNCHANGED <<lifeOfStreams, caller, eventVars, seen, cacheVars>>

\* is_shutdown_complete
Stopped(d) == \A c \in Of(d) : caller[c].at = "gone"

\* ... and it is forgotten when its threads have been joined in time.
ForgetDispatcher ==
  /\ ~accepting /\ current # 0 /\ disp[current].closed
  /\ Stopped(current)
  /\ current' = 0
  /\ UNCHANGED <<accepting, disp, caller, eventVars, seen, cacheVars>>

DrainerStep(d, w) ==
  \/ TakeServer(d, w) \/ WorkerLeaves(d, w) \/ Drain(d, w)
  \/ Called(d, w) \/ Refreshes(d, w) \/ Answered(d, w) \/ Writes(d, w)

ReaderStep(r) == ReaderLocks(r) \/ ReaderWrites(r)

StreamNext ==
  \/ \E s \in EmbyServers : SessionsArrive(s) \/ PlaybackArrives(s)
  \/ \E d \in DOMAIN disp, w \in Drainers : DrainerStep(d, w)
  \/ \E r \in StreamReaders : ReaderStep(r) \/ \E s \in EmbyServers : ReaderBegins(r, s)
  \/ OpenDispatcher \/ Retire \/ CloseDispatcher \/ ForgetDispatcher

StreamSpec == StreamInit /\ [][StreamNext]_streamVars

-----------------------------------------------------------------------------
(* Properties *)

\* A burst of Sessions events is coalesced and none is lost: once the dispatcher has let a
\* server go, Emby was asked after the last event it had accepted for it.
SignalSeen ==
  accepting => \A s \in EmbyServers :
    s \notin disp[current].running => signalled[s] <= seen[s]

\* The cache of a server only advances: refresh_server asks Emby with the lock of the server, so
\* that a slow answer never overwrites a list that was asked for later, whoever asked, and a
\* worker of a dispatcher that was retired writes before the next one is created ("Do not let
\* that retired owner mutate the next lifespan's cache").
CacheOnlyAdvances ==
  [][/\ \A s \in EmbyServers : streams[s] # NoStreams => streams'[s] >= streams[s]
     /\ \A d \in Dispatchers, w \in Drainers : Writes(d, w) => d = Len(disp)]_streamVars

=============================================================================
