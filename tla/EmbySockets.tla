----------------------------- MODULE EmbySockets -----------------------------
(***************************************************************************)
(* The persistent socket to an Emby server and the manager that creates,   *)
(* replaces and removes it (emby_runtime/websocket_manager.py).            *)
(*                                                                         *)
(* A connection has a thread that connects again and again, and at times a *)
(* thread that closes its socket; the manager serialises the operations    *)
(* that replace a connection, and an event is handled inside a fence which *)
(* those operations take too.                                              *)
(*                                                                         *)
(* Abstractions: one server, since the connections of two never meet; an   *)
(* event has no content; the WebSocketApp of the library is its state:     *)
(* made, opening, open or shut, and close does nothing to one that does    *)
(* not run yet.                                                            *)
(***************************************************************************)
EXTENDS Naturals

CONSTANTS
  Endpoints,       \* (url, api key) pairs the server may be saved with
  MaxConnections,  \* bound: connections ever created
  MaxCloseErrors   \* bound: closing a socket, or starting a thread, that raises

ASSUME SocketAssumption ==
  Endpoints # {} /\ MaxConnections \in Nat /\ MaxCloseErrors \in Nat

VARIABLES
  held,       \* connections[server], 0 if there is none
  ending,      \* the server is in _stopping_server_ids
  acceptsConn, \* _accepting_connections
  conn,        \* every connection so far
  made,        \* how many those are
  fence,       \* the connection whose event is being handled, 0 if nobody's is
  op,          \* the operation that holds _connection_lifecycle_lock
  closeErrors

managerVars == <<held, ending, acceptsConn, made>>
socketVars == <<managerVars, conn, fence, op, closeErrors>>

Connections == 1..MaxConnections
NoOp == [kind |-> "none", at |-> "none", to |-> CHOOSE e \in Endpoints : TRUE]
\* again: should_reconnect; app: the WebSocketApp; closer: _stop_io_thread, and whether the
\* app it closes is the one of the thread; closed: _stop_io_succeeded.
NewConn(e) == [at |-> "loop", to |-> e, again |-> TRUE, app |-> "none",
               closer |-> "none", aimed |-> FALSE, closed |-> TRUE]

SocketTypeOK ==
  /\ made \in 0..MaxConnections /\ held \in 0..made /\ fence \in 0..made
  /\ ending \in BOOLEAN /\ acceptsConn \in BOOLEAN /\ closeErrors \in 0..MaxCloseErrors
  /\ conn \in [Connections ->
       [at : {"none", "loop", "connecting", "created", "runs", "handles", "bids", "after", "gone"},
        to : Endpoints, again : BOOLEAN, app : {"none", "made", "opening", "open", "shut"},
        closer : {"none", "closes"}, aimed : BOOLEAN, closed : BOOLEAN]]
  /\ op \in [kind : {"none", "upsert", "remove"}, at : {"none", "joins", "stops", "waits", "builds"},
             to : Endpoints]
  /\ ending => held # 0
  /\ \A c \in Connections : conn[c].at = "none" <=> c > made

SocketInit ==
  /\ held = 0 /\ ending = FALSE /\ acceptsConn = TRUE /\ made = 0 /\ fence = 0
  /\ conn \in {[c \in Connections |-> [NewConn(e) EXCEPT !.at = "none"]] : e \in {NoOp.to}}
  /\ op = NoOp /\ closeErrors = 0

ConnError == closeErrors < MaxCloseErrors /\ closeErrors' = closeErrors + 1
ThreadLives(c) == conn[c].at \notin {"none", "gone"}
Moves(c, place) == conn' = [conn EXCEPT ![c].at = place]
connStep == <<managerVars, fence, op, closeErrors>>

-----------------------------------------------------------------------------
(* The thread of a connection: _run *)

LoopTop(c) ==
  /\ conn[c].at = "loop"
  /\ Moves(c, IF conn[c].again THEN "connecting" ELSE "gone")
  /\ UNCHANGED connStep

\* _connect: a new WebSocketApp; a closer that has picked up the last one misses it.
MakeApp(c) ==
  /\ conn[c].at = "connecting"
  /\ conn' = [conn EXCEPT ![c].at = "created", ![c].app = "made", ![c].aimed = FALSE]
  /\ UNCHANGED connStep

RunForever(c) ==
  /\ conn[c].at = "created"
  /\ conn' = [conn EXCEPT ![c].at = "runs", ![c].app = "opening"]
  /\ UNCHANGED connStep

\* The handshake; it fails, or the server hangs up.
Opens(c) ==
  /\ conn[c].at = "runs" /\ conn[c].app = "opening"
  /\ \E end \in {"open", "shut"} : conn' = [conn EXCEPT ![c].app = end]
  /\ UNCHANGED connStep

HangsUp(c) ==
  /\ conn[c].app = "open"
  /\ conn' = [conn EXCEPT ![c].app = "shut"]
  /\ UNCHANGED connStep

\* _handle_owned_event
Owned(c) == held = c /\ ~ending

\* on_open, on_message, and on_close, after which run_forever returns.
EventArrives(c) ==
  /\ conn[c].at = "runs" /\ conn[c].app \in {"open", "shut"} /\ fence = 0
  /\ IF Owned(c)
     THEN /\ fence' = c
          /\ Moves(c, IF conn[c].app = "shut" THEN "bids" ELSE "handles")
     ELSE /\ Moves(c, IF conn[c].app = "shut" THEN "after" ELSE "runs")
          /\ UNCHANGED fence
  /\ UNCHANGED <<managerVars, op, closeErrors>>

EventHandled(c) ==
  /\ conn[c].at \in {"handles", "bids"}
  /\ fence' = 0
  /\ Moves(c, IF conn[c].at = "bids" THEN "after" ELSE "runs")
  /\ UNCHANGED <<managerVars, op, closeErrors>>

\* _handle_reconnect: the delay is over, or a stop has woken it.
Reconnects(c) ==
  /\ conn[c].at = "after"
  /\ Moves(c, "loop")
  /\ UNCHANGED connStep

\* close_transport; closing an app that does not run yet leaves it as it is.
Closes(c) ==
  /\ conn[c].closer = "closes"
  /\ \/ /\ conn' = [conn EXCEPT ![c].closer = "none", ![c].closed = TRUE,
                      ![c].app = IF conn[c].aimed /\ @ \in {"opening", "open"} THEN "shut" ELSE @]
        /\ UNCHANGED closeErrors
     \/ /\ conn' = [conn EXCEPT ![c].closer = "none"]
        /\ ConnError
  /\ UNCHANGED <<managerVars, fence, op>>

-----------------------------------------------------------------------------
(* Operations of the manager *)

\* EmbyWebSocketConnection.wait_stopped
Quiet(c) == conn[c].closer = "none" /\ ~ThreadLives(c) /\ conn[c].closed

FenceFree == fence = 0

\* upsert_server: nothing to do, a connection to stop first, or none.
BeginUpsert(e) ==
  /\ op = NoOp /\ FenceFree /\ acceptsConn
  /\ held # 0 => ending \/ conn[held].to # e \/ ~ThreadLives(held)
  /\ ending' = (held # 0)
  /\ op' = [kind |-> "upsert", to |-> e,
            at |-> IF held = 0 THEN "builds" ELSE IF ending THEN "joins" ELSE "stops"]
  /\ UNCHANGED <<held, acceptsConn, made, conn, fence, closeErrors>>

\* remove_server, of a server that was deleted or disabled, and stop_all, which closes the
\* admission even when there is no connection to stop.
BeginRemove(forGood) ==
  /\ op = NoOp /\ FenceFree /\ (held # 0 \/ forGood)
  /\ ending' = (held # 0)
  /\ acceptsConn' = (acceptsConn /\ ~forGood)
  /\ op' = IF held = 0 THEN NoOp
           ELSE [NoOp EXCEPT !.kind = "remove", !.at = IF ending THEN "joins" ELSE "stops"]
  /\ UNCHANGED <<held, made, conn, fence, closeErrors>>

Popped ==
  /\ held' = 0 /\ ending' = FALSE
  /\ op' = IF op.kind = "upsert" THEN [op EXCEPT !.at = "builds"] ELSE NoOp

\* Mutation of StopEnds: after the time-out the connection is forgotten.
StopEndsAnyway ==
  /\ op.at \in {"joins", "waits"}
  /\ Popped
  /\ UNCHANGED <<acceptsConn, made, conn, fence, closeErrors>>

\* _stop_connection: wait_stopped has returned TRUE.
StopEnds ==
  /\ op.at \in {"joins", "waits"} /\ Quiet(held)
  /\ Popped
  /\ UNCHANGED <<acceptsConn, made, conn, fence, closeErrors>>

\* A retry first waits for the stop of the last attempt.
JoinTimesOut ==
  /\ op.at = "joins" /\ ~Quiet(held)
  /\ op' = [op EXCEPT !.at = "stops"]
  /\ UNCHANGED <<managerVars, conn, fence, closeErrors>>

\* Mutation of Stopping: a connection is closed once.
StoppingOnce(k) ==
  IF k.closer = "closes" \/ ~k.again \/ k.app = "none" THEN [k EXCEPT !.again = FALSE]
  ELSE [k EXCEPT !.again = FALSE, !.closer = "closes", !.aimed = TRUE, !.closed = FALSE]

\* EmbyWebSocketConnection.stop: the app of this moment is the one to be closed.
Stopping(k) ==
  IF k.closer = "closes" THEN [k EXCEPT !.again = FALSE]
  ELSE IF k.app = "none" THEN [k EXCEPT !.again = FALSE, !.closed = TRUE]
  ELSE [k EXCEPT !.again = FALSE, !.closer = "closes", !.aimed = TRUE, !.closed = FALSE]

StopIt ==
  /\ op.at = "stops"
  /\ conn' = [conn EXCEPT ![held] = Stopping(@)]
  /\ op' = [op EXCEPT !.at = "waits"]
  /\ UNCHANGED <<managerVars, fence, closeErrors>>

\* The thread that would close it does not start.
StopRaises ==
  /\ op.at = "stops" /\ conn[held].closer = "none" /\ conn[held].app # "none" /\ ConnError
  /\ conn' = [conn EXCEPT ![held].again = FALSE, ![held].closed = FALSE]
  /\ op' = NoOp
  /\ UNCHANGED <<managerVars, fence>>

\* The budget is spent: the server stays marked, and the request is told to try again.
StopTimesOut ==
  /\ op.at = "waits" /\ ~Quiet(held)
  /\ op' = NoOp
  /\ UNCHANGED <<managerVars, conn, fence, closeErrors>>

BuildConnection ==
  /\ op.at = "builds" /\ FenceFree /\ made < MaxConnections
  /\ op' = NoOp
  /\ made' = made + 1
  /\ \/ /\ held' = made + 1
        /\ conn' = [conn EXCEPT ![made + 1] = NewConn(op.to)]
        /\ UNCHANGED closeErrors
     \/ /\ conn' = [conn EXCEPT ![made + 1] = [NewConn(op.to) EXCEPT !.at = "gone", !.again = FALSE]]
        /\ ConnError /\ UNCHANGED held
  /\ UNCHANGED <<ending, acceptsConn, fence>>

\* start_accepting, of the next lifespan.
StartAccepting ==
  /\ ~acceptsConn /\ op = NoOp /\ held = 0
  /\ acceptsConn' = TRUE
  /\ UNCHANGED <<held, ending, made, conn, fence, op, closeErrors>>

ConnStep(c) ==
  LoopTop(c) \/ MakeApp(c) \/ RunForever(c) \/ Opens(c) \/ EventArrives(c) \/ EventHandled(c) \/ Reconnects(c)

OpStep == StopEnds \/ JoinTimesOut \/ StopIt \/ StopRaises \/ StopTimesOut \/ BuildConnection

SocketNext ==
  \/ \E c \in Connections : ConnStep(c) \/ HangsUp(c) \/ Closes(c)
  \/ \E e \in Endpoints : BeginUpsert(e)
  \/ \E forGood \in BOOLEAN : BeginRemove(forGood)
  \/ OpStep \/ StartAccepting

\* Threads run, handshakes and closes end, a close at the latest when it is waited for again
\* and again, five seconds each time; and whoever was told that the connection has not
\* stopped yet tries again ("riprova").
SocketFairness ==
  /\ \A c \in Connections :
       /\ WF_socketVars(ConnStep(c)) /\ WF_socketVars(Closes(c))
       /\ SF_socketVars(op.at \in {"joins", "waits"} /\ Closes(c))
  /\ WF_socketVars(OpStep)
  /\ WF_socketVars(ending /\ \E forGood \in BOOLEAN : BeginRemove(forGood))

SocketSpec == SocketInit /\ [][SocketNext]_socketVars
SocketFairSpec == SocketSpec /\ SocketFairness

-----------------------------------------------------------------------------
(* Properties *)

\* A new connection is made when the threads of all earlier ones are over, and only the
\* one that is registered lives: Emby never sees two sessions of OctoHubs.  An event is handled
\* for that one alone, and from the moment an operation has marked the connection no handler
\* runs any more (_handle_owned_event: "Dispatch only while the source still owns this server
\* connection").
OneConnection ==
  /\ \A c \in Connections : ThreadLives(c) \/ conn[c].closer = "closes" => c = held
  /\ fence # 0 => held = fence /\ ~ending

\* A stop that comes while the thread makes its next WebSocketApp closes the last one, and
\* nothing ends the new one before the server hangs up; the next attempt does.
StopConverges == ending ~> ~ending
=============================================================================
