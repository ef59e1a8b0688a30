--------------------------- MODULE RealtimeProofs ---------------------------
(***************************************************************************)
(* Proofs about the realtime components, for every value of the constants: *)
(* the socket to an Emby server (EmbySockets), the journal an external     *)
(* client polls (ChangeFeed), the cache of streams (SessionStreams) and    *)
(* the status of the servers that requests share (StatusSnapshot).         *)
(***************************************************************************)
EXTENDS EmbySockets, ChangeFeed, SessionStreams, StatusSnapshot,
        FiniteSetTheorems, SequenceTheorems, TLAPS

(***************************************************************************)
(* The socket to an Emby server.                                           *)
(***************************************************************************)

ConnRecords ==
  [at : {"none", "loop", "connecting", "created", "runs", "handles", "bids", "after", "gone"},
   to : Endpoints, again : BOOLEAN, app : {"none", "made", "opening", "open", "shut"},
   closer : {"none", "closes"}, aimed : BOOLEAN, closed : BOOLEAN]
SocketOpRecords ==
  [kind : {"none", "upsert", "remove"}, at : {"none", "joins", "stops", "waits", "builds"},
   to : Endpoints]
ManagerTyped ==
  /\ made \in 0..MaxConnections /\ held \in 0..made /\ fence \in 0..made
  /\ ending \in BOOLEAN /\ acceptsConn \in BOOLEAN /\ closeErrors \in 0..MaxCloseErrors
  /\ op \in SocketOpRecords
  /\ ending => held # 0
ConnTyped == conn \in [Connections -> ConnRecords]
MadeSoFar == \A c \in Connections : conn[c].at = "none" <=> c > made

LEMMA SocketTypeParts == SocketTypeOK <=> ManagerTyped /\ ConnTyped /\ MadeSoFar
  BY DEF SocketTypeOK, ManagerTyped, ConnTyped, MadeSoFar, ConnRecords, SocketOpRecords

\* Who waits for the end of a connection has marked it; who builds one has seen the end of
\* the last.
OpKnows ==
  /\ op.at \in {"joins", "stops", "waits"} => ending
  /\ op.at = "builds" => held = 0 /\ op.kind = "upsert"

SocketInv == ManagerTyped /\ ConnTyped /\ MadeSoFar /\ OpKnows /\ OneConnection

LEMMA SomeEndpoint == NoOp.to \in Endpoints /\ NoOp.at = "none" /\ NoOp.kind = "none"
  BY SocketAssumption DEF NoOp

\* Typing of the updates of an operation and of a connection.
LEMMA OpUpdates ==
  /\ NoOp \in SocketOpRecords
  /\ \A o \in SocketOpRecords, at \in {"none", "joins", "stops", "waits", "builds"} :
       [o EXCEPT !.at = at] \in SocketOpRecords
  /\ \A at \in {"none", "joins", "stops", "waits", "builds"} :
       [NoOp EXCEPT !.kind = "remove", !.at = at] \in SocketOpRecords
  BY SocketAssumption DEF NoOp, SocketOpRecords

LEMMA ConnUpdates ==
  ASSUME NEW k \in ConnRecords,
         NEW at \in {"none", "loop", "connecting", "created", "runs", "handles", "bids", "after", "gone"},
         NEW app \in {"none", "made", "opening", "open", "shut"}, NEW b \in BOOLEAN, NEW d \in BOOLEAN
  PROVE  /\ [k EXCEPT !.at = at] \in ConnRecords
         /\ [k EXCEPT !.app = app] \in ConnRecords
         /\ [k EXCEPT !.at = at, !.app = app] \in ConnRecords
         /\ [k EXCEPT !.at = at, !.again = b] \in ConnRecords
         /\ [k EXCEPT !.at = at, !.app = app, !.aimed = b] \in ConnRecords
         /\ [k EXCEPT !.closer = "none", !.closed = b, !.app = app] \in ConnRecords
         /\ [k EXCEPT !.closer = "none"] \in ConnRecords
         /\ [k EXCEPT !.again = b, !.closed = d] \in ConnRecords
<1>1. [k EXCEPT !.at = at] \in ConnRecords /\ [k EXCEPT !.app = app] \in ConnRecords
  BY DEF ConnRecords
<1>2. [k EXCEPT !.at = at, !.app = app] \in ConnRecords
  BY DEF ConnRecords
<1>3. [k EXCEPT !.at = at, !.again = b] \in ConnRecords
  BY DEF ConnRecords
<1>4. [k EXCEPT !.at = at, !.app = app, !.aimed = b] \in ConnRecords
  BY DEF ConnRecords
<1>5. [k EXCEPT !.closer = "none", !.closed = b, !.app = app] \in ConnRecords
  BY DEF ConnRecords
<1>6. [k EXCEPT !.closer = "none"] \in ConnRecords
  BY DEF ConnRecords
<1>7. [k EXCEPT !.again = b, !.closed = d] \in ConnRecords
  BY DEF ConnRecords
<1> QED
  BY <1>1, <1>2, <1>3, <1>4, <1>5, <1>6, <1>7

LEMMA NewConnTyped == \A e \in Endpoints : NewConn(e) \in ConnRecords
  BY DEF NewConn, ConnRecords

LEMMA NewConnPlaces ==
  \A e : /\ NewConn(e).at = "loop" /\ NewConn(e).closer = "none"
        /\ [NewConn(e) EXCEPT !.at = "gone", !.again = FALSE].at = "gone"
        /\ [NewConn(e) EXCEPT !.at = "gone", !.again = FALSE].closer = "none"
        /\ [NewConn(e) EXCEPT !.at = "none"].at = "none"
        /\ [NewConn(e) EXCEPT !.at = "none"].closer = "none"
  BY DEF NewConn

LEMMA StoppingTyped == \A k \in ConnRecords : Stopping(k) \in ConnRecords
  BY DEF Stopping, ConnRecords

LEMMA InitSocketInv == SocketInit => SocketInv
<1> SUFFICES ASSUME SocketInit PROVE SocketInv
  OBVIOUS
<1> DEFINE k == [NewConn(NoOp.to) EXCEPT !.at = "none"]
<1>1. k \in ConnRecords /\ k.at = "none" /\ k.closer = "none"
  BY SomeEndpoint, NewConnTyped, NewConnPlaces, ConnUpdates
<1>2. conn = [c \in Connections |-> k]
  BY DEF SocketInit
<1> HIDE DEF k
<1>3. ConnTyped /\ MadeSoFar /\ \A c \in Connections : conn[c].at = "none" /\ conn[c].closer = "none"
  <2>1. \A c \in Connections : conn[c] = k /\ c > made
    BY <1>2, SocketAssumption DEF SocketInit, Connections
  <2> QED
    BY <1>1, <1>2, <2>1 DEF ConnTyped, MadeSoFar
<1>4. ManagerTyped /\ OpKnows
  <2>1. op = NoOp /\ op \in SocketOpRecords /\ op.at = "none"
    BY OpUpdates, SomeEndpoint DEF SocketInit
  <2>2. /\ held = 0 /\ ending = FALSE /\ acceptsConn = TRUE /\ made = 0 /\ fence = 0
        /\ closeErrors = 0
    BY Zenon DEF SocketInit
  <2> QED
    <3>1. ending \in BOOLEAN /\ acceptsConn \in BOOLEAN /\ ~ending
      BY <2>2
    <3>2. made \in 0..MaxConnections /\ held \in 0..made /\ fence \in 0..made
          /\ closeErrors \in 0..MaxCloseErrors
      BY <2>2, SocketAssumption
    <3> QED
      BY <2>1, <3>1, <3>2 DEF ManagerTyped, OpKnows
<1> QED
  BY <1>3, <1>4 DEF SocketInit, SocketInv, OneConnection, ThreadLives

\* Every action keeps the invariant.
LEMMA NextSocketInv == SocketInv /\ [SocketNext]_socketVars => SocketInv'
<1> SUFFICES ASSUME SocketInv, [SocketNext]_socketVars PROVE SocketInv'
  OBVIOUS
<1> USE SocketAssumption, SomeEndpoint
    DEF SocketInv, ManagerTyped, ConnTyped, MadeSoFar, OpKnows, OneConnection, ConnRecords,
        SocketOpRecords, Connections, ThreadLives
<1>1. ASSUME NEW c \in Connections, LoopTop(c) PROVE SocketInv'
  <2>1. ManagerTyped'
    BY <1>1 DEF LoopTop, Moves, connStep, managerVars
  <2>2. ConnTyped'
    <3> HIDE DEF ConnRecords
    <3>1. conn' = [conn EXCEPT ![c] = [conn[c] EXCEPT !.at = IF conn[c].again THEN "connecting" ELSE "gone"]]
      BY <1>1 DEF LoopTop, Moves
    <3>2. conn[c] \in ConnRecords
      BY <1>1 DEF LoopTop, Moves
    <3>3. [conn[c] EXCEPT !.at = IF conn[c].again THEN "connecting" ELSE "gone"] \in ConnRecords
      BY <3>2, ConnUpdates
    <3> QED
      BY <3>1, <3>3
  <2>3. MadeSoFar'
    BY <1>1 DEF LoopTop, Moves, connStep, managerVars
  <2>4. OpKnows'
    BY <1>1 DEF LoopTop, Moves, connStep, managerVars
  <2>5. OneConnection'
    BY <1>1 DEF LoopTop, Moves, connStep, managerVars
  <2> QED
    BY <2>1, <2>2, <2>3, <2>4, <2>5 DEF SocketInv
<1>2. ASSUME NEW c \in Connections, MakeApp(c) PROVE SocketInv'
  <2>1. ManagerTyped'
    BY <1>2 DEF MakeApp, connStep, managerVars
  <2>2. ConnTyped'
    <3> HIDE DEF ConnRecords
    <3>1. conn' = [conn EXCEPT ![c] = [conn[c] EXCEPT !.at = "created", !.app = "made", !.aimed = FALSE]]
      BY <1>2 DEF MakeApp
    <3>2. conn[c] \in ConnRecords
      BY <1>2 DEF MakeApp
    <3>3. [conn[c] EXCEPT !.at = "created", !.app = "made", !.aimed = FALSE] \in ConnRecords
      BY <3>2, ConnUpdates
    <3> QED
      BY <3>1, <3>3
  <2>3. MadeSoFar'
    BY <1>2 DEF MakeApp, connStep, managerVars
  <2>4. OpKnows'
    BY <1>2 DEF MakeApp, connStep, managerVars
  <2>5. OneConnection'
    BY <1>2 DEF MakeApp, connStep, managerVars
  <2> QED
    BY <2>1, <2>2, <2>3, <2>4, <2>5 DEF SocketInv
<1>3. ASSUME NEW c \in Connections, RunForever(c) PROVE SocketInv'
  <2>1. ManagerTyped'
    BY <1>3 DEF RunForever, connStep, managerVars
  <2>2. ConnTyped'
    <3> HIDE DEF ConnRecords
    <3>1. conn' = [conn EXCEPT ![c] = [conn[c] EXCEPT !.at = "runs", !.app = "opening"]]
      BY <1>3 DEF RunForever
    <3>2. conn[c] \in ConnRecords
      BY <1>3 DEF RunForever
    <3>3. [conn[c] EXCEPT !.at = "runs", !.app = "opening"] \in ConnRecords
      BY <3>2, ConnUpdates
    <3> QED
      BY <3>1, <3>3
  <2>3. MadeSoFar'
    BY <1>3 DEF RunForever, connStep, managerVars
  <2>4. OpKnows'
    BY <1>3 DEF RunForever, connStep, managerVars
  <2>5. OneConnection'
    BY <1>3 DEF RunForever, connStep, managerVars
  <2> QED
    BY <2>1, <2>2, <2>3, <2>4, <2>5 DEF SocketInv
<1>4. ASSUME NEW c \in Connections, Opens(c) PROVE SocketInv'
  <2>1. ManagerTyped'
    BY <1>4 DEF Opens, connStep, managerVars
  <2>2. ConnTyped'
    BY <1>4 DEF Opens, connStep, managerVars
  <2>3. MadeSoFar'
    BY <1>4 DEF Opens, connStep, managerVars
  <2>4. OpKnows'
    BY <1>4 DEF Opens, connStep, managerVars
  <2>5. OneConnection'
    BY <1>4 DEF Opens, connStep, managerVars
  <2> QED
    BY <2>1, <2>2, <2>3, <2>4, <2>5 DEF SocketInv
<1>5. ASSUME NEW c \in Connections, HangsUp(c) PROVE SocketInv'
  <2>1. ManagerTyped'
    BY <1>5 DEF HangsUp, connStep, managerVars
  <2>2. ConnTyped'
    <3> HIDE DEF ConnRecords
    <3>1. conn' = [conn EXCEPT ![c] = [conn[c] EXCEPT !.app = "shut"]]
      BY <1>5 DEF HangsUp
    <3>2. conn[c] \in ConnRecords
      BY <1>5 DEF HangsUp
    <3>3. [conn[c] EXCEPT !.app = "shut"] \in ConnRecords
      BY <3>2, ConnUpdates
    <3> QED
      BY <3>1, <3>3
  <2>3. MadeSoFar'
    BY <1>5 DEF HangsUp, connStep, managerVars
  <2>4. OpKnows'
    BY <1>5 DEF HangsUp, connStep, managerVars
  <2>5. OneConnection'
    BY <1>5 DEF HangsUp, connStep, managerVars
  <2> QED
    BY <2>1, <2>2, <2>3, <2>4, <2>5 DEF SocketInv
<1>6. ASSUME NEW c \in Connections, EventArrives(c) PROVE SocketInv'
  <2>1. ManagerTyped'
    BY <1>6 DEF EventArrives, Owned, Moves, managerVars
  <2>2. ConnTyped'
    <3> HIDE DEF ConnRecords
    <3>1. PICK place \in {"handles", "bids", "after", "runs"} :
            conn' = [conn EXCEPT ![c] = [conn[c] EXCEPT !.at = place]]
      BY <1>6 DEF EventArrives, Moves
    <3>2. [conn[c] EXCEPT !.at = place] \in ConnRecords
      BY ConnUpdates
    <3> QED
      BY <3>1, <3>2
  <2>3. MadeSoFar'
    <3>1. PICK place \in {"handles", "bids", "after", "runs"} :
            conn' = [conn EXCEPT ![c].at = place] /\ conn[c].at = "runs" /\ made' = made
      BY <1>6 DEF EventArrives, Moves, managerVars
    <3> QED
      BY <3>1
  <2>4. OpKnows'
    BY <1>6 DEF EventArrives, Owned, Moves, managerVars
  <2>5. OneConnection'
    BY <1>6 DEF EventArrives, Owned, Moves, managerVars
  <2> QED
    BY <2>1, <2>2, <2>3, <2>4, <2>5 DEF SocketInv
<1>7. ASSUME NEW c \in Connections, EventHandled(c) PROVE SocketInv'
  <2>1. ManagerTyped'
    BY <1>7 DEF EventHandled, Moves, managerVars
  <2>2. ConnTyped'
    <3> HIDE DEF ConnRecords
    <3>1. conn' = [conn EXCEPT ![c] = [conn[c] EXCEPT !.at = IF conn[c].at = "bids" THEN "after" ELSE "runs"]]
      BY <1>7 DEF EventHandled, Moves
    <3>2. conn[c] \in ConnRecords
      BY <1>7 DEF EventHandled, Moves
    <3>3. [conn[c] EXCEPT !.at = IF conn[c].at = "bids" THEN "after" ELSE "runs"] \in ConnRecords
      BY <3>2, ConnUpdates
    <3> QED
      BY <3>1, <3>3
  <2>3. MadeSoFar'
    BY <1>7 DEF EventHandled, Moves, managerVars
  <2>4. OpKnows'
    BY <1>7 DEF EventHandled, Moves, managerVars
  <2>5. OneConnection'
    BY <1>7 DEF EventHandled, Moves, managerVars
  <2> QED
    BY <2>1, <2>2, <2>3, <2>4, <2>5 DEF SocketInv
<1>8. ASSUME NEW c \in Connections, Reconnects(c) PROVE SocketInv'
  <2>1. ManagerTyped'
    BY <1>8 DEF Reconnects, Moves, connStep, managerVars
  <2>2. ConnTyped'
    <3> HIDE DEF ConnRecords
    <3>1. conn' = [conn EXCEPT ![c] = [conn[c] EXCEPT !.at = "loop"]]
      BY <1>8 DEF Reconnects, Moves
    <3>2. conn[c] \in ConnRecords
      BY <1>8 DEF Reconnects, Moves
    <3>3. [conn[c] EXCEPT !.at = "loop"] \in ConnRecords
      BY <3>2, ConnUpdates
    <3> QED
      BY <3>1, <3>3
  <2>3. MadeSoFar'
    BY <1>8 DEF Reconnects, Moves, connStep, managerVars
  <2>4. OpKnows'
    BY <1>8 DEF Reconnects, Moves, connStep, managerVars
  <2>5. OneConnection'
    BY <1>8 DEF Reconnects, Moves, connStep, managerVars
  <2> QED
    BY <2>1, <2>2, <2>3, <2>4, <2>5 DEF SocketInv
<1>9. ASSUME NEW c \in Connections, Closes(c) PROVE SocketInv'
  <2>1. ManagerTyped'
    BY <1>9 DEF Closes, ConnError, managerVars
  <2>2. ConnTyped'
    <3> HIDE DEF ConnRecords
    <3> DEFINE app == IF conn[c].aimed /\ conn[c].app \in {"opening", "open"} THEN "shut" ELSE conn[c].app
    <3>0. conn[c] \in ConnRecords /\ app \in {"none", "made", "opening", "open", "shut"}
      BY DEF ConnRecords
    <3>1. \/ conn' = [conn EXCEPT ![c] = [conn[c] EXCEPT !.closer = "none", !.closed = TRUE, !.app = app]]
          \/ conn' = [conn EXCEPT ![c] = [conn[c] EXCEPT !.closer = "none"]]
      BY <1>9 DEF Closes
    <3> HIDE DEF app
    <3>2. /\ [conn[c] EXCEPT !.closer = "none", !.closed = TRUE, !.app = app] \in ConnRecords
          /\ [conn[c] EXCEPT !.closer = "none"] \in ConnRecords
      BY <3>0, ConnUpdates
    <3> QED
      BY <3>1, <3>2
  <2>3. MadeSoFar'
    BY <1>9 DEF Closes, ConnError, managerVars
  <2>4. OpKnows'
    BY <1>9 DEF Closes, ConnError, managerVars
  <2>5. OneConnection'
    BY <1>9 DEF Closes, ConnError, managerVars
  <2> QED
    BY <2>1, <2>2, <2>3, <2>4, <2>5 DEF SocketInv
<1>10. ASSUME NEW e \in Endpoints, BeginUpsert(e) PROVE SocketInv'
  <2>1. ManagerTyped'
    BY <1>10 DEF BeginUpsert, FenceFree, managerVars
  <2>2. ConnTyped'
    BY <1>10 DEF BeginUpsert, FenceFree, managerVars
  <2>3. MadeSoFar'
    BY <1>10 DEF BeginUpsert, FenceFree, managerVars
  <2>4. OpKnows'
    BY <1>10 DEF BeginUpsert, FenceFree, managerVars
  <2>5. OneConnection'
    BY <1>10 DEF BeginUpsert, FenceFree, managerVars
  <2> QED
    BY <2>1, <2>2, <2>3, <2>4, <2>5 DEF SocketInv
<1>11. ASSUME NEW forGood \in BOOLEAN, BeginRemove(forGood) PROVE SocketInv'
  <2>1. ManagerTyped'
    BY <1>11 DEF BeginRemove, FenceFree, managerVars
  <2>2. ConnTyped'
    BY <1>11 DEF BeginRemove, FenceFree, managerVars
  <2>3. MadeSoFar'
    BY <1>11 DEF BeginRemove, FenceFree, managerVars
  <2>4. OpKnows'
    BY <1>11 DEF BeginRemove, FenceFree, managerVars
  <2>5. OneConnection'
    BY <1>11 DEF BeginRemove, FenceFree, managerVars
  <2> QED
    BY <2>1, <2>2, <2>3, <2>4, <2>5 DEF SocketInv
<1>12. ASSUME StopEnds PROVE SocketInv'
  <2>1. ManagerTyped'
    <3> HIDE DEF SocketOpRecords, ConnRecords
    <3> QED
      BY <1>12, OpUpdates DEF StopEnds, Popped, Quiet, managerVars
  <2>2. ConnTyped'
    BY <1>12 DEF StopEnds, Popped, Quiet, managerVars
  <2>3. MadeSoFar'
    BY <1>12 DEF StopEnds, Popped, Quiet, managerVars
  <2>4. OpKnows'
    BY <1>12 DEF StopEnds, Popped, Quiet, managerVars
  <2>5. OneConnection'
    BY <1>12 DEF StopEnds, Popped, Quiet, managerVars
  <2> QED
    BY <2>1, <2>2, <2>3, <2>4, <2>5 DEF SocketInv
<1>13. ASSUME JoinTimesOut PROVE SocketInv'
  <2>1. ManagerTyped'
    BY <1>13 DEF JoinTimesOut, managerVars
  <2>2. ConnTyped'
    BY <1>13 DEF JoinTimesOut, managerVars
  <2>3. MadeSoFar'
    BY <1>13 DEF JoinTimesOut, managerVars
  <2>4. OpKnows'
    BY <1>13 DEF JoinTimesOut, managerVars
  <2>5. OneConnection'
    BY <1>13 DEF JoinTimesOut, managerVars
  <2> QED
    BY <2>1, <2>2, <2>3, <2>4, <2>5 DEF SocketInv
<1>14. ASSUME StopIt PROVE SocketInv'
  <2>1. ManagerTyped'
    BY <1>14 DEF StopIt, Stopping, managerVars
  <2>2. ConnTyped'
    <3> HIDE DEF ConnRecords
    <3>1. conn' = [conn EXCEPT ![held] = Stopping(conn[held])]
      BY <1>14 DEF StopIt
    <3>2. \A x \in Connections : conn[x] \in ConnRecords
      OBVIOUS
    <3> QED
      BY <3>1, <3>2, StoppingTyped
  <2>3. MadeSoFar'
    BY <1>14 DEF StopIt, Stopping, managerVars
  <2>4. OpKnows'
    BY <1>14 DEF StopIt, Stopping, managerVars
  <2>5. OneConnection'
    BY <1>14 DEF StopIt, Stopping, managerVars
  <2> QED
    BY <2>1, <2>2, <2>3, <2>4, <2>5 DEF SocketInv
<1>15. ASSUME StopRaises PROVE SocketInv'
  <2>1. ManagerTyped'
    <3> HIDE DEF SocketOpRecords, ConnRecords
    <3> QED
      BY <1>15, OpUpdates DEF StopRaises, ConnError, managerVars
  <2>2. ConnTyped'
    <3> HIDE DEF ConnRecords
    <3>1. conn' = [conn EXCEPT ![held] = [conn[held] EXCEPT !.again = FALSE, !.closed = FALSE]]
      BY <1>15 DEF StopRaises
    <3>2. \A x \in Connections : [conn[x] EXCEPT !.again = FALSE, !.closed = FALSE] \in ConnRecords
      BY ConnUpdates
    <3> QED
      BY <3>1, <3>2
  <2>3. MadeSoFar'
    BY <1>15 DEF StopRaises, ConnError, managerVars
  <2>4. OpKnows'
    BY <1>15 DEF StopRaises, ConnError, managerVars
  <2>5. OneConnection'
    BY <1>15 DEF StopRaises, ConnError, managerVars
  <2> QED
    BY <2>1, <2>2, <2>3, <2>4, <2>5 DEF SocketInv
<1>16. ASSUME StopTimesOut PROVE SocketInv'
  <2>1. ManagerTyped'
    <3> HIDE DEF SocketOpRecords, ConnRecords
    <3> QED
      BY <1>16, OpUpdates DEF StopTimesOut, managerVars
  <2>2. ConnTyped'
    BY <1>16 DEF StopTimesOut, managerVars
  <2>3. MadeSoFar'
    BY <1>16 DEF StopTimesOut, managerVars
  <2>4. OpKnows'
    BY <1>16 DEF StopTimesOut, managerVars
  <2>5. OneConnection'
    BY <1>16 DEF StopTimesOut, managerVars
  <2> QED
    BY <2>1, <2>2, <2>3, <2>4, <2>5 DEF SocketInv
<1>17. ASSUME BuildConnection PROVE SocketInv'
  <2>1. ManagerTyped'
    <3> HIDE DEF SocketOpRecords, ConnRecords
    <3> QED
      BY <1>17, OpUpdates DEF BuildConnection, FenceFree, ConnError, managerVars
  <2>2. ConnTyped'
    <3> HIDE DEF ConnRecords
    <3>1. op.to \in Endpoints
      OBVIOUS
    <3>2. NewConn(op.to) \in ConnRecords
          /\ [NewConn(op.to) EXCEPT !.at = "gone", !.again = FALSE] \in ConnRecords
      BY <3>1, NewConnTyped, ConnUpdates
    <3>3. \/ conn' = [conn EXCEPT ![made + 1] = NewConn(op.to)]
          \/ conn' = [conn EXCEPT ![made + 1] = [NewConn(op.to) EXCEPT !.at = "gone", !.again = FALSE]]
      BY <1>17 DEF BuildConnection
    <3> QED
      BY <3>2, <3>3
  <2>3. MadeSoFar'
    <3> DEFINE k == conn'[made + 1]
    <3>1. /\ made + 1 \in Connections /\ made' = made + 1 /\ op.at = "builds" /\ fence = 0
          /\ fence' = fence /\ ending' = ending
          /\ \A c \in Connections : c # made + 1 => conn'[c] = conn[c]
          /\ \/ held' = made + 1 /\ conn' = [conn EXCEPT ![made + 1] = NewConn(op.to)]
             \/ held' = held /\ conn' = [conn EXCEPT ![made + 1] =
                                           [NewConn(op.to) EXCEPT !.at = "gone", !.again = FALSE]]
      BY <1>17 DEF BuildConnection, FenceFree
    <3>2. \/ held' = made + 1 /\ k = NewConn(op.to)
          \/ held' = held /\ k = [NewConn(op.to) EXCEPT !.at = "gone", !.again = FALSE]
      BY <3>1
    <3> HIDE DEF k
    <3>3. k.closer = "none" /\ ((k.at = "loop" /\ held' = made + 1) \/ (k.at = "gone" /\ held' = held))
      <4>1. CASE held' = made + 1 /\ k = NewConn(op.to)
        <5>1. NewConn(op.to).at = "loop" /\ NewConn(op.to).closer = "none"
          BY NewConnPlaces
        <5> QED
          BY <4>1, <5>1
      <4>2. CASE held' = held /\ k = [NewConn(op.to) EXCEPT !.at = "gone", !.again = FALSE]
        <5> DEFINE n == [NewConn(op.to) EXCEPT !.at = "gone", !.again = FALSE]
        <5>1. n.at = "gone" /\ n.closer = "none"
          BY NewConnPlaces
        <5> HIDE DEF n
        <5>2. k = n
          BY <4>2 DEF n
        <5> QED
          BY <4>2, <5>1, <5>2
      <4> QED
        BY <3>2, <4>1, <4>2
    <3> USE DEF k
    <3> QED
      BY <3>1, <3>3
  <2>4. OpKnows'
    BY <1>17 DEF BuildConnection, FenceFree, NewConn, ConnError, managerVars
  <2>5. OneConnection'
    <3> DEFINE k == conn'[made + 1]
    <3>1. /\ made + 1 \in Connections /\ made' = made + 1 /\ op.at = "builds" /\ fence = 0
          /\ fence' = fence /\ ending' = ending
          /\ \A c \in Connections : c # made + 1 => conn'[c] = conn[c]
          /\ \/ held' = made + 1 /\ conn' = [conn EXCEPT ![made + 1] = NewConn(op.to)]
             \/ held' = held /\ conn' = [conn EXCEPT ![made + 1] =
                                           [NewConn(op.to) EXCEPT !.at = "gone", !.again = FALSE]]
      BY <1>17 DEF BuildConnection, FenceFree
    <3>2. \/ held' = made + 1 /\ k = NewConn(op.to)
          \/ held' = held /\ k = [NewConn(op.to) EXCEPT !.at = "gone", !.again = FALSE]
      BY <3>1
    <3> HIDE DEF k
    <3>3. k.closer = "none" /\ ((k.at = "loop" /\ held' = made + 1) \/ (k.at = "gone" /\ held' = held))
      <4>1. CASE held' = made + 1 /\ k = NewConn(op.to)
        <5>1. NewConn(op.to).at = "loop" /\ NewConn(op.to).closer = "none"
          BY NewConnPlaces
        <5> QED
          BY <4>1, <5>1
      <4>2. CASE held' = held /\ k = [NewConn(op.to) EXCEPT !.at = "gone", !.again = FALSE]
        <5> DEFINE n == [NewConn(op.to) EXCEPT !.at = "gone", !.again = FALSE]
        <5>1. n.at = "gone" /\ n.closer = "none"
          BY NewConnPlaces
        <5> HIDE DEF n
        <5>2. k = n
          BY <4>2 DEF n
        <5> QED
          BY <4>2, <5>1, <5>2
      <4> QED
        BY <3>2, <4>1, <4>2
    <3> USE DEF k
    <3> QED
      BY <3>1, <3>3
  <2> QED
    BY <2>1, <2>2, <2>3, <2>4, <2>5 DEF SocketInv
<1>18. ASSUME StartAccepting PROVE SocketInv'
  <2>1. ManagerTyped'
    BY <1>18 DEF StartAccepting, managerVars
  <2>2. ConnTyped'
    BY <1>18 DEF StartAccepting, managerVars
  <2>3. MadeSoFar'
    BY <1>18 DEF StartAccepting, managerVars
  <2>4. OpKnows'
    BY <1>18 DEF StartAccepting, managerVars
  <2>5. OneConnection'
    BY <1>18 DEF StartAccepting, managerVars
  <2> QED
    BY <2>1, <2>2, <2>3, <2>4, <2>5 DEF SocketInv
<1>19. CASE UNCHANGED socketVars
  <2>1. ManagerTyped'
    BY <1>19 DEF socketVars, managerVars
  <2>2. ConnTyped'
    BY <1>19 DEF socketVars, managerVars
  <2>3. MadeSoFar'
    BY <1>19 DEF socketVars, managerVars
  <2>4. OpKnows'
    BY <1>19 DEF socketVars, managerVars
  <2>5. OneConnection'
    BY <1>19 DEF socketVars, managerVars
  <2> QED
    BY <2>1, <2>2, <2>3, <2>4, <2>5 DEF SocketInv
<1> QED
  BY <1>1, <1>2, <1>3, <1>4, <1>5, <1>6, <1>7, <1>8, <1>9, <1>10, <1>11, <1>12, <1>13, <1>14,
     <1>15, <1>16, <1>17, <1>18, <1>19
  DEF SocketNext, ConnStep, OpStep

LEMMA SocketInvariance == SocketSpec => []SocketInv
  BY InitSocketInv, NextSocketInv, PTL DEF SocketSpec

\* Connections and operations are what they are said to be, and a connection exists exactly
\* if it was made.
THEOREM SocketTypeCorrect == SocketSpec => []SocketTypeOK
  BY SocketInvariance, SocketTypeParts, PTL DEF SocketInv

\* At most one connection to Emby lives, the registered one, and events are handled for that
\* one alone while no operation has marked it (EmbyWebSocketManager.upsert_server,
\* _handle_owned_event), however many connections, errors and time-outs there are.
THEOREM AlwaysOneConnection == SocketSpec => []OneConnection
  BY SocketInvariance, PTL DEF SocketInv

(***************************************************************************)
(* The journal of changes.                                                 *)
(***************************************************************************)

\* Changes the journal has that the client's cursor does not cover.
AfterCursor == {changeLog[i].id : i \in {j \in DOMAIN changeLog : changeLog[j].cursor > clientCursor}}

\* What was missed is still in the journal, unless the client will be told to reset.
InTheJournal == ~overtaken /\ ~ResetRequired(clientCursor) => unread \subseteq AfterCursor

FeedInv == FeedTypeOK /\ NothingMissed /\ InTheJournal

LEMMA InitFeedInv == FeedInit => FeedInv
<1> SUFFICES ASSUME FeedInit PROVE FeedInv
  OBVIOUS
<1> USE FeedAssumption DEF FeedInit
<1>1. FeedTypeOK
  <2>1. upToDate \in BOOLEAN /\ overtaken \in BOOLEAN
    BY Zenon
  <2>2. changeLog \in Seq(Change) /\ Len(changeLog) = 0
    OBVIOUS
  <2>3. latestCursor \in 0..published /\ published \in 0..MaxChanges /\ clientCursor \in 0..MaxChanges
    OBVIOUS
  <2> QED
    BY <2>1, <2>2, <2>3 DEF FeedTypeOK
<1>2. unread = {}
  OBVIOUS
<1> QED
  BY <1>1, <1>2 DEF FeedInv, NothingMissed, InTheJournal

\* Publishing appends one change, and the oldest one goes when there are too many.
LEMMA Published1 ==
  ASSUME FeedInv, PublishChange
  PROVE  /\ changeLog' \in Seq(Change) /\ Len(changeLog') \in 1..Retention
         /\ \A i \in 1..Len(changeLog') : changeLog'[i].cursor = latestCursor' - Len(changeLog') + i
         /\ Len(changeLog') <= Len(changeLog) + 1
         /\ changeLog'[Len(changeLog')].id = published + 1
         /\ \A i \in 1..Len(changeLog) :
              changeLog[i].cursor > latestCursor' - Len(changeLog') =>
                \E j \in 1..Len(changeLog') : changeLog'[j] = changeLog[i]
<1> DEFINE new == [cursor |-> latestCursor + 1, id |-> published + 1]
           log == Append(changeLog, new)
<1> USE FeedAssumption DEF FeedInv, FeedTypeOK
<1>1. latestCursor \in Nat /\ latestCursor <= published /\ published \in Nat /\ published + 1 <= MaxChanges
  BY DEF PublishChange
<1>2. new \in Change /\ new.cursor = latestCursor + 1 /\ new.id = published + 1
  BY <1>1 DEF Change
<1>3. changeLog \in Seq(Change) /\ Len(changeLog) \in Nat /\ Len(changeLog) <= Retention
  OBVIOUS
<1>4. changeLog' = IF Len(log) > Retention THEN Tail(log) ELSE log
  BY DEF PublishChange
<1>5. latestCursor' = latestCursor + 1
  BY DEF PublishChange
<1> HIDE DEF new
<1>6. /\ log \in Seq(Change) /\ Len(log) = Len(changeLog) + 1 /\ log[Len(changeLog) + 1] = new
      /\ \A i \in 1..Len(changeLog) : log[i] = changeLog[i]
  BY <1>2, <1>3
<1> HIDE DEF log
<1>7. ASSUME NEW i \in 1..Len(log) PROVE log[i].cursor = latestCursor' - Len(log) + i
  <2>1. CASE i \in 1..Len(changeLog)
    <3>1. log[i].cursor = latestCursor - Len(changeLog) + i
      BY <1>6, <2>1
    <3> QED
      BY <1>1, <1>3, <1>5, <1>6, <3>1
  <2>2. CASE i = Len(changeLog) + 1
    BY <1>1, <1>2, <1>3, <1>5, <1>6, <2>2
  <2> QED
    BY <1>3, <1>6, <2>1, <2>2
<1>8. CASE Len(log) <= Retention
  <2>1. changeLog' = log
    BY <1>3, <1>4, <1>6, <1>8
  <2>2. \A i \in 1..Len(changeLog) : i \in 1..Len(log) /\ log[i] = changeLog[i]
    BY <1>3, <1>6
  <2> QED
    BY <1>2, <1>3, <1>6, <1>7, <1>8, <2>1, <2>2
<1>9. CASE Len(log) > Retention
  <2>1. changeLog' = Tail(log)
    BY <1>3, <1>4, <1>6, <1>9
  <2>2. /\ changeLog' \in Seq(Change) /\ Len(changeLog') = Len(changeLog)
        /\ \A i \in 1..Len(changeLog') : changeLog'[i] = log[i + 1]
    BY <1>3, <1>6, <2>1
  <2>3. Len(changeLog) = Retention
    BY <1>3, <1>6, <1>9
  <2>4. ASSUME NEW i \in 1..Len(changeLog')
        PROVE  changeLog'[i].cursor = latestCursor' - Len(changeLog') + i
    <3>1. i + 1 \in 1..Len(log) /\ changeLog'[i] = log[i + 1]
      BY <1>3, <1>6, <2>2
    <3>2. log[i + 1].cursor = latestCursor' - Len(log) + (i + 1)
      BY <1>7, <3>1
    <3> QED
      BY <1>1, <1>3, <1>5, <1>6, <2>2, <3>1, <3>2
  <2>5. changeLog'[Len(changeLog')].id = published + 1
    BY <1>2, <1>3, <1>6, <2>2, <2>3
  <2>6. ASSUME NEW i \in 1..Len(changeLog), changeLog[i].cursor > latestCursor' - Len(changeLog')
        PROVE  \E j \in 1..Len(changeLog') : changeLog'[j] = changeLog[i]
    <3>1. changeLog[i].cursor = latestCursor - Len(changeLog) + i
      OBVIOUS
    <3>2. i - 1 \in 1..Len(changeLog')
      BY <1>1, <1>3, <1>5, <2>2, <2>6, <3>1
    <3>3. changeLog'[i - 1] = log[i]
      BY <2>2, <3>2, <1>3
    <3> QED
      BY <3>2, <3>3, <1>6
  <2> QED
    BY <1>3, <2>2, <2>3, <2>4, <2>5, <2>6
<1> QED
  BY <1>3, <1>6, <1>8, <1>9

\* A page is the next `limit' changes after the cursor it is read from.
LEMMA PageIs ==
  ASSUME NEW n \in Nat, NEW k \in 0..n, NEW limit \in Nat \ {0}
  PROVE  LET matching == k + 1 .. n
             m == IF k + limit <= n THEN k + limit ELSE n
             page == {i \in matching : Cardinality({j \in matching : j < i}) < limit}
         IN  page = k + 1 .. m /\ (page # {} => Max(page) = m)
<1> DEFINE matching == k + 1 .. n
           m == IF k + limit <= n THEN k + limit ELSE n
           page == {i \in matching : Cardinality({j \in matching : j < i}) < limit}
<1>1. ASSUME NEW i \in matching PROVE Cardinality({j \in matching : j < i}) = i - 1 - k
  <2>1. {j \in matching : j < i} = (k + 1) .. (i - 1)
    OBVIOUS
  <2>2. Cardinality((k + 1) .. (i - 1)) = i - 1 - k
    BY FS_Interval
  <2> QED
    BY <2>1, <2>2
<1>2. page = k + 1 .. m
  BY <1>1
<1>3. ASSUME page # {} PROVE Max(page) = m
  <2> HIDE DEF page
  <2>1. m \in page /\ \A y \in page : m >= y
    BY <1>2, <1>3
  <2>2. \A x \in page : (\A y \in page : x >= y) => x = m
    BY <1>2, <2>1
  <2> QED
    BY <2>1, <2>2 DEF Max
<1> QED
  BY <1>2, <1>3

\* The journal holds the changes from its oldest to the latest.
LEMMA OldestIs == FeedTypeOK => Oldest - 1 = latestCursor - Len(changeLog) /\ Oldest - 1 \in 0..MaxChanges
<1> SUFFICES ASSUME FeedTypeOK
             PROVE  Oldest - 1 = latestCursor - Len(changeLog) /\ Oldest - 1 \in 0..MaxChanges
  OBVIOUS
<1> USE FeedAssumption DEF FeedTypeOK
<1>1. CASE changeLog = <<>>
  BY <1>1 DEF Oldest
<1>2. CASE changeLog # <<>>
  <2>1. 1 \in 1..Len(changeLog)
    BY <1>2
  <2>2. changeLog[1] \in Change /\ changeLog[1].cursor = latestCursor - Len(changeLog) + 1
    BY <2>1
  <2> QED
    BY <1>2, <2>2 DEF Oldest, Change
<1> QED
  BY <1>1, <1>2

LEMMA NextFeedInv == FeedInv /\ [FeedNext]_feedVars => FeedInv'
<1> SUFFICES ASSUME FeedInv, [FeedNext]_feedVars PROVE FeedInv'
  OBVIOUS
<1> USE FeedAssumption DEF FeedInv
<1>0. /\ latestCursor \in Nat /\ clientCursor \in Nat /\ published \in Nat /\ latestCursor <= published
      /\ clientCursor <= MaxChanges /\ published <= MaxChanges
      /\ changeLog \in Seq(Change) /\ Len(changeLog) \in Nat
  BY DEF FeedTypeOK
<1>1. ASSUME PublishChange PROVE FeedInv'
  <2>1. /\ latestCursor' = latestCursor + 1 /\ published' = published + 1 /\ published' <= MaxChanges
        /\ unread' = unread \cup {published + 1} /\ upToDate' = FALSE /\ clientCursor' = clientCursor
        /\ overtaken' = (overtaken \/ clientCursor = latestCursor + 1)
    BY <1>1, <1>0 DEF PublishChange
  <2>2. FeedTypeOK'
    <3>1. upToDate' \in BOOLEAN /\ overtaken' \in BOOLEAN
      BY <2>1
    <3> QED
      BY <1>1, <1>0, <2>1, <3>1, Published1 DEF FeedTypeOK
  <2>3. NothingMissed'
    BY <2>1 DEF NothingMissed
  <2>4. ASSUME ~overtaken', ~ResetRequired(clientCursor)'
        PROVE  unread' \subseteq AfterCursor'
    <3>1. Oldest' - 1 = latestCursor' - Len(changeLog')
      <4>1. changeLog' # <<>> /\ 1 \in 1..Len(changeLog')
        BY <1>1, Published1
      <4>2. changeLog'[1].cursor = latestCursor' - Len(changeLog') + 1
        BY <1>1, <4>1, Published1
      <4> QED
        BY <1>0, <1>1, <2>1, <4>1, <4>2, Published1 DEF Oldest
    <3>2. clientCursor <= latestCursor /\ clientCursor >= latestCursor' - Len(changeLog')
      <4>1. changeLog' # <<>> /\ Len(changeLog') \in Nat
        BY <1>1, Published1
      <4>2. clientCursor >= Oldest' - 1 /\ clientCursor <= latestCursor'
        <5>1. ~(clientCursor' > latestCursor') /\ ~(clientCursor' < Oldest' - 1)
          BY <2>4, <4>1 DEF ResetRequired
        <5> QED
          BY <5>1, <1>0, <2>1, <3>1, <4>1
      <4>3. clientCursor # latestCursor + 1
        BY <2>1, <2>4
      <4> QED
        BY <1>0, <2>1, <3>1, <4>2, <4>3
    <3>3. ~ResetRequired(clientCursor)
      BY <1>0, <1>1, <2>1, <3>2, OldestIs, Published1 DEF ResetRequired
    <3>4. unread \subseteq AfterCursor
      BY <2>1, <2>4, <3>3 DEF InTheJournal
    <3>5. ASSUME NEW u \in unread PROVE u \in AfterCursor'
      <4>1. PICK i \in 1..Len(changeLog) : changeLog[i].cursor > clientCursor /\ changeLog[i].id = u
        BY <1>0, <3>4 DEF AfterCursor
      <4>2. changeLog[i].cursor > latestCursor' - Len(changeLog')
        <5>1. changeLog[i].cursor \in Nat /\ Len(changeLog') \in Nat
          <6>1. changeLog[i] \in Change
            BY <1>0
          <6> QED
            BY <1>1, <6>1, Published1 DEF Change
        <5> QED
          BY <1>0, <2>1, <3>2, <4>1, <5>1
      <4>3. PICK j \in 1..Len(changeLog') : changeLog'[j] = changeLog[i]
        BY <1>1, <4>2, Published1
      <4>4. changeLog' \in Seq(Change)
        BY <1>1, Published1
      <4> QED
        BY <2>1, <4>1, <4>3, <4>4 DEF AfterCursor
    <3>6. published + 1 \in AfterCursor'
      <4>1. /\ changeLog' \in Seq(Change) /\ Len(changeLog') \in 1..Len(changeLog')
            /\ changeLog'[Len(changeLog')].cursor = latestCursor'
            /\ changeLog'[Len(changeLog')].id = published + 1
        BY <1>0, <1>1, <2>1, Published1
      <4> QED
        BY <1>0, <2>1, <3>2, <4>1 DEF AfterCursor
    <3> QED
      BY <2>1, <3>5, <3>6
  <2> QED
    BY <2>2, <2>3, <2>4 DEF InTheJournal
<1>2. ASSUME NEW limit \in PageLimits, ReadChanges(limit) PROVE FeedInv'
  <2> DEFINE n == Len(changeLog)
             reset == ResetRequired(clientCursor)
             from == IF reset THEN Oldest - 1 ELSE clientCursor
             matching == {i \in DOMAIN changeLog : changeLog[i].cursor > from}
             page == {i \in matching : Cardinality({j \in matching : j < i}) < limit}
  <2>1. /\ clientCursor' = IF page = {} THEN from ELSE changeLog[Max(page)].cursor
        /\ unread' = IF reset THEN {} ELSE unread \ {changeLog[i].id : i \in page}
        /\ upToDate' = (page = matching)
        /\ overtaken' = (overtaken /\ ~reset)
        /\ latestCursor' = latestCursor /\ changeLog' = changeLog /\ published' = published
    BY <1>2 DEF ReadChanges
  <2>2. /\ limit \in Nat \ {0}
        /\ \A i \in 1..n : changeLog[i] \in Change /\ changeLog[i].cursor = latestCursor - n + i
        /\ DOMAIN changeLog = 1..n
    <3>1. limit \in Nat \ {0}
      OBVIOUS
    <3>2. DOMAIN changeLog = 1..n /\ \A i \in 1..n : changeLog[i] \in Change
      BY <1>0
    <3> QED
      BY <3>1, <3>2 DEF FeedTypeOK
  <2>3. from \in 0..MaxChanges /\ (n # 0 => from - (latestCursor - n) \in 0..n)
    <3>1. CASE reset
      BY <1>0, <3>1, OldestIs
    <3>2. CASE ~reset
      BY <1>0, <3>2, OldestIs DEF ResetRequired
    <3> QED
      BY <3>1, <3>2
  <2> DEFINE k == from - (latestCursor - n)
             m == IF k + limit <= n THEN k + limit ELSE n
  <2>4. n # 0 => matching = k + 1 .. n
    <3> HIDE DEF from
    <3> QED
      BY <1>0, <2>2, <2>3
  <2>5. n # 0 => page = k + 1 .. m /\ (page # {} => Max(page) = m)
    <3> HIDE DEF k, n
    <3> SUFFICES ASSUME n # 0 PROVE page = k + 1 .. m /\ (page # {} => Max(page) = m)
      OBVIOUS
    <3>1. k \in 0..n /\ n \in Nat
      BY <1>0, <2>3 DEF k, n
    <3>2. page = {i \in k + 1 .. n : Cardinality({j \in k + 1 .. n : j < i}) < limit}
      <4>1. matching = k + 1 .. n
        BY <2>4
      <4> HIDE DEF matching
      <4> QED
        BY <4>1
    <3> HIDE DEF page
    <3> QED
      BY <2>2, <3>1, <3>2, PageIs
  <2>6. n = 0 => matching = {} /\ page = {}
    BY <2>2
  <2> HIDE DEF page, matching, from
  <2>7. page \subseteq 1..n /\ (page # {} => Max(page) \in 1..n)
    <3>1. CASE n = 0
      BY <2>6, <3>1
    <3>2. CASE n # 0
      <4>1. k \in 0..n /\ page = k + 1 .. m
        BY <2>3, <2>5, <3>2
      <4> HIDE DEF k
      <4> QED
        BY <1>0, <2>2, <2>5, <3>2, <4>1
    <3> QED
      BY <3>1, <3>2
  <2>8. FeedTypeOK'
    <3>1. clientCursor' \in 0..MaxChanges
      BY <2>1, <2>2, <2>3, <2>7 DEF Change
    <3>2. upToDate' \in BOOLEAN /\ overtaken' \in BOOLEAN
      <4> HIDE DEF reset
      <4> QED
        BY <2>1
    <3>3. unread' \subseteq unread
      BY <2>1
    <3> QED
      BY <2>1, <3>1, <3>2, <3>3 DEF FeedTypeOK
  <2>9. CASE reset
    <3>1. unread' = {}
      BY <2>1, <2>9
    <3> QED
      BY <2>8, <3>1 DEF NothingMissed, InTheJournal
  <2>10. CASE ~reset
    <3>1. from = clientCursor /\ overtaken' = overtaken
          /\ unread' = unread \ {changeLog[i].id : i \in page}
      <4>1. overtaken \in BOOLEAN
        BY DEF FeedTypeOK
      <4> HIDE DEF reset
      <4> QED
        BY <2>1, <2>10, <4>1 DEF from
    <3>2. ~overtaken => unread \subseteq {changeLog[i].id : i \in matching}
      BY <2>10, <3>1 DEF InTheJournal, AfterCursor, matching
    <3>3. NothingMissed'
      BY <2>1, <3>1, <3>2 DEF NothingMissed
    <3>4. ASSUME ~overtaken', NEW u \in unread' PROVE u \in AfterCursor'
      <4>1. PICK i \in matching : changeLog[i].id = u /\ i \notin page
        BY <3>1, <3>2, <3>4
      <4>2. n # 0 /\ i \in k + 1 .. n /\ i \notin k + 1 .. m
        BY <2>4, <2>5, <2>6, <4>1
      <4>3. k \in 0..n
        BY <2>3, <4>2
      <4>4. m < i /\ i \in 1..n
        BY <1>0, <2>2, <4>2, <4>3
      <4>5. changeLog[i].cursor > clientCursor'
        <5>1. CASE page = {}
          BY <2>1, <4>1, <5>1 DEF matching
        <5>2. CASE page # {}
          <6>1. Max(page) = m /\ m \in 1..n /\ clientCursor' = changeLog[m].cursor
            BY <2>1, <2>5, <2>7, <4>2, <5>2
          <6> HIDE DEF m
          <6> QED
            BY <1>0, <2>2, <4>4, <6>1
        <5> QED
          BY <5>1, <5>2
      <4> QED
        BY <2>1, <2>2, <4>1, <4>4, <4>5 DEF AfterCursor
    <3> QED
      BY <2>8, <3>3, <3>4 DEF InTheJournal
  <2> QED
    BY <2>9, <2>10
<1>3. ASSUME FeedRestart PROVE FeedInv'
  <2>1. /\ latestCursor' = 0 /\ changeLog' = <<>> /\ overtaken' = (overtaken \/ clientCursor = 0)
        /\ published' = published /\ clientCursor' = clientCursor /\ unread' = unread
        /\ upToDate' = upToDate
    BY <1>3 DEF FeedRestart
  <2>2. FeedTypeOK'
    <3>1. overtaken' \in BOOLEAN
      BY <2>1
    <3> QED
      BY <1>0, <2>1, <3>1 DEF FeedTypeOK
  <2>3. NothingMissed'
    BY <2>1 DEF NothingMissed
  <2>4. ~overtaken' => ResetRequired(clientCursor)'
    <3>1. ~overtaken' => clientCursor # 0
      BY <2>1, Zenon
    <3>2. ~overtaken' => clientCursor' > latestCursor'
      BY <1>0, <2>1, <3>1
    <3> QED
      BY <3>2 DEF ResetRequired
  <2> QED
    BY <2>2, <2>3, <2>4 DEF InTheJournal
<1>4. CASE UNCHANGED feedVars
  BY <1>4 DEF feedVars, FeedTypeOK, NothingMissed, InTheJournal, AfterCursor, ResetRequired, Oldest
<1> QED
  BY <1>1, <1>2, <1>3, <1>4 DEF FeedNext

LEMMA FeedInvariance == FeedSpec => []FeedInv
  BY InitFeedInv, NextFeedInv, PTL DEF FeedSpec

\* The journal numbers its changes without a gap and holds no more than its retention.
THEOREM FeedTypeCorrect == FeedSpec => []FeedTypeOK
  BY FeedInvariance, PTL DEF FeedInv

\* A client that has read to the end of the journal has seen every change or was told to read
\* everything again (read_external_changes, reset_required), whatever the retention and the
\* page sizes are and however often the process is restarted; a new journal that grew to the
\* client's old cursor is the exception.
THEOREM NothingEverMissed == FeedSpec => []NothingMissed
  BY FeedInvariance, PTL DEF FeedInv

(***************************************************************************)
(* The cache of streams.                                                   *)
(***************************************************************************)

DispRecords ==
  [pending : SUBSET EmbyServers, running : SUBSET EmbyServers, ready : Seq(EmbyServers),
   closed : BOOLEAN]
Places == {"none", "rests", "drains", "called", "waits", "asks", "answered", "checked", "gone"}
CallerRecords == [at : Places, server : EmbyServers, from : Versions]
Busy(c) == caller[c].at \in {"drains", "called", "waits", "asks", "answered", "checked"}
HasLock(c, s) == caller[c].server = s /\ caller[c].at \in {"asks", "answered", "checked"}
Waiting(k) == {k.ready[i] : i \in 1..Len(k.ready)}

DispTyped ==
  /\ disp \in Seq(DispRecords) /\ Len(disp) \in 0..MaxDispatchers
CallerTyped == caller \in [Callers -> CallerRecords]
VersionTyped ==
  /\ arrived \in [EmbyServers -> Versions] /\ signalled \in [EmbyServers -> Versions]
  /\ seen \in [EmbyServers -> Versions]
  /\ stale \in [EmbyServers -> Versions]
CacheTyped == streams \in [EmbyServers -> Versions \cup {NoStreams}]
LockTyped ==
  /\ lock \in [EmbyServers -> Callers \cup {Nobody}]
  /\ \A s \in EmbyServers, c \in Callers : lock[s] = c <=> HasLock(c, s)

\* A server waits in the queue of a dispatcher at most once.
QueueOf(k) ==
  /\ IsFiniteSet(k.running) /\ k.pending \subseteq k.running /\ Waiting(k) \subseteq k.running
  /\ \A i, j \in 1..Len(k.ready) : k.ready[i] = k.ready[j] => i = j
Queues == \A d \in 1..Len(disp) : QueueOf(disp[d])

\* A worker has a server that no other worker of the dispatcher has and that does not wait.
Hands ==
  \A d \in 1..Len(disp), w \in Drainers : Busy(<<d, w>>) =>
    /\ caller[<<d, w>>].server \in disp[d].running \ Waiting(disp[d])
    /\ \A v \in Drainers : Busy(<<d, v>>) /\ caller[<<d, v>>].server = caller[<<d, w>>].server
                             => v = w

\* The workers of earlier dispatchers are gone, those of later ones do not exist.
DispGenerations ==
  /\ current \in {0, Len(disp)} /\ accepting \in BOOLEAN
  /\ accepting => current # 0 /\ ~disp[current].closed
  /\ \A d \in Dispatchers, w \in Drainers :
       /\ d > Len(disp) <=> caller[<<d, w>>].at = "none"
       /\ d <= Len(disp) /\ d # current => caller[<<d, w>>].at = "gone"

\* An event that Emby was not asked after is still on its way.
OnItsWay(s) ==
  \/ s \in disp[current].pending
  \/ \E w \in Drainers : caller[<<current, w>>].server = s /\ caller[<<current, w>>].at \in {"called", "waits"}
SignalKept ==
  /\ \A s \in EmbyServers : signalled[s] <= arrived[s]
  /\ accepting => \A s \in EmbyServers : signalled[s] <= seen[s] \/ OnItsWay(s)

\* Whoever holds the lock of a server has asked for a list at least as late as the cached one.
Ordered ==
  /\ \A s \in EmbyServers : streams[s] # NoStreams => streams[s] <= arrived[s]
  /\ \A s \in EmbyServers, c \in Callers :
       HasLock(c, s) => /\ caller[c].from <= arrived[s]
                        /\ streams[s] # NoStreams => streams[s] <= caller[c].from

StreamInv ==
  /\ DispTyped /\ CallerTyped /\ VersionTyped /\ CacheTyped /\ LockTyped /\ Queues /\ Hands
  /\ DispGenerations /\ SignalKept /\ Ordered

\* The updates of a dispatcher, as sets.
LEMMA SubmittedIs ==
  ASSUME NEW k \in DispRecords, QueueOf(k), NEW s \in EmbyServers,
         NEW n, n = Submitted(k, s)
  PROVE  /\ n \in DispRecords /\ QueueOf(n) /\ n.closed = k.closed
         /\ n.pending = k.pending \cup {s} /\ n.running = k.running \cup {s}
         /\ Waiting(n) = IF s \in k.running THEN Waiting(k) ELSE Waiting(k) \cup {s}
<1>1. CASE s \in k.running
  <2>1. n = [k EXCEPT !.pending = @ \cup {s}]
    BY <1>1 DEF Submitted
  <2>2. n \in DispRecords /\ n.closed = k.closed /\ n.pending = k.pending \cup {s}
        /\ n.running = k.running /\ n.ready = k.ready
    BY <2>1 DEF DispRecords
  <2> QED
    BY <1>1, <2>2 DEF QueueOf, Waiting
<1>2. CASE s \notin k.running
  <2>0. k.ready \in Seq(EmbyServers)
    BY DEF DispRecords
  <2>1. n = [k EXCEPT !.pending = @ \cup {s}, !.running = @ \cup {s}, !.ready = Append(@, s)]
    BY <1>2 DEF Submitted
  <2>2. /\ n \in DispRecords /\ n.closed = k.closed /\ n.pending = k.pending \cup {s}
        /\ n.running = k.running \cup {s} /\ n.ready = Append(k.ready, s)
    <3> DEFINE q == Append(k.ready, s)
    <3>1. q \in Seq(EmbyServers)
      BY <2>0
    <3>2. n = [k EXCEPT !.pending = @ \cup {s}, !.running = @ \cup {s}, !.ready = q]
      BY <2>1
    <3> HIDE DEF q
    <3>3. /\ n \in DispRecords /\ n.closed = k.closed /\ n.pending = k.pending \cup {s}
          /\ n.running = k.running \cup {s} /\ n.ready = q
      BY ZenonT(40), <3>1, <3>2 DEF DispRecords
    <3> QED
      BY <3>3 DEF q
  <2>4. /\ Len(n.ready) = Len(k.ready) + 1 /\ n.ready[Len(k.ready) + 1] = s
        /\ \A i \in 1..Len(k.ready) : n.ready[i] = k.ready[i]
    BY <2>0, <2>2
  <2>5. Waiting(n) = Waiting(k) \cup {s}
    BY <2>0, <2>4 DEF Waiting
  <2>6. IsFiniteSet(n.running)
    <3>1. IsFiniteSet(k.running)
      BY DEF QueueOf
    <3>2. IsFiniteSet(k.running \cup {s})
      BY <3>1, FS_AddElement
    <3> QED
      BY <2>2, <3>2
  <2>7. \A i, j \in 1..Len(n.ready) : n.ready[i] = n.ready[j] => i = j
    <3>1. \A i \in 1..Len(k.ready) : k.ready[i] # s
      BY <1>2 DEF QueueOf, Waiting
    <3>2. \A i \in 1..Len(n.ready) : i \in 1..Len(k.ready) \/ i = Len(k.ready) + 1
      BY <2>0, <2>4
    <3> QED
      BY SMTT(40), <2>4, <3>1, <3>2 DEF QueueOf
  <2> QED
    BY <1>2, <2>2, <2>5, <2>6, <2>7 DEF QueueOf
<1> QED
  BY <1>1, <1>2

LEMMA TakenIs ==
  ASSUME NEW k \in DispRecords, QueueOf(k), k.ready # <<>>,
         NEW n, n = [k EXCEPT !.ready = Tail(@)]
  PROVE  /\ n \in DispRecords /\ QueueOf(n) /\ n.closed = k.closed
         /\ n.pending = k.pending /\ n.running = k.running
         /\ Waiting(n) = Waiting(k) \ {Head(k.ready)}
         /\ Head(k.ready) \in Waiting(k) /\ Head(k.ready) \in EmbyServers
<1>1. k.ready \in Seq(EmbyServers)
  BY DEF DispRecords
<1>2. /\ n \in DispRecords /\ n.closed = k.closed /\ n.pending = k.pending
      /\ n.running = k.running /\ n.ready = Tail(k.ready)
  <2>1. Tail(k.ready) \in Seq(EmbyServers)
    BY <1>1
  <2> DEFINE q == Tail(k.ready)
  <2>2. q \in Seq(EmbyServers) /\ n = [k EXCEPT !.ready = q]
    BY <2>1
  <2> HIDE DEF q
  <2>3. n \in DispRecords /\ n.closed = k.closed /\ n.pending = k.pending
        /\ n.running = k.running /\ n.ready = q
    BY <2>2 DEF DispRecords
  <2> QED
    BY <2>3 DEF q
<1>3. /\ Len(k.ready) \in Nat \ {0} /\ Head(k.ready) = k.ready[1] /\ k.ready[1] \in EmbyServers
      /\ Len(n.ready) = Len(k.ready) - 1
      /\ \A i \in 1..(Len(k.ready) - 1) : n.ready[i] = k.ready[i + 1]
  BY <1>1, <1>2
<1>4. Waiting(n) = Waiting(k) \ {Head(k.ready)}
  <2>1. ASSUME NEW x \in Waiting(n) PROVE x \in Waiting(k) \ {Head(k.ready)}
    <3>1. PICK i \in 1..(Len(k.ready) - 1) : x = k.ready[i + 1]
      BY <1>3 DEF Waiting
    <3>2. i + 1 \in 1..Len(k.ready) /\ 1 \in 1..Len(k.ready) /\ i + 1 # 1
      BY <1>3
    <3>3. x \in Waiting(k)
      BY <3>1, <3>2 DEF Waiting
    <3>4. x # k.ready[1]
      BY <3>1, <3>2 DEF QueueOf
    <3> QED
      BY <1>3, <3>3, <3>4
  <2>2. ASSUME NEW x \in Waiting(k) \ {Head(k.ready)} PROVE x \in Waiting(n)
    <3>1. PICK i \in 1..Len(k.ready) : x = k.ready[i]
      BY DEF Waiting
    <3>2. i # 1 /\ i - 1 \in 1..(Len(k.ready) - 1) /\ n.ready[i - 1] = x
      BY <1>3, <3>1
    <3> QED
      BY <1>3, <3>2 DEF Waiting
  <2> QED
    BY <2>1, <2>2
<1>5. \A i, j \in 1..Len(n.ready) : n.ready[i] = n.ready[j] => i = j
  <2> SUFFICES ASSUME NEW i \in 1..Len(n.ready), NEW j \in 1..Len(n.ready), n.ready[i] = n.ready[j]
               PROVE  i = j
    OBVIOUS
  <2>1. i + 1 \in 1..Len(k.ready) /\ j + 1 \in 1..Len(k.ready) /\ k.ready[i + 1] = k.ready[j + 1]
    BY <1>3
  <2>2. i + 1 = j + 1
    BY <2>1 DEF QueueOf
  <2> QED
    BY <1>3, <2>2
<1>6. Head(k.ready) \in Waiting(k)
  BY <1>3 DEF Waiting
<1> QED
  BY <1>2, <1>3, <1>4, <1>5, <1>6 DEF QueueOf

DispatcherDrained(k, s, r) == [k EXCEPT !.pending = @ \ {s}, !.running = r]
LEMMA DrainedIs ==
  ASSUME NEW k \in DispRecords, QueueOf(k), NEW s \in EmbyServers, s \notin Waiting(k),
         NEW r, r = k.running \/ r = k.running \ {s},
         NEW n, n = DispatcherDrained(k, s, r)
  PROVE  /\ n \in DispRecords /\ QueueOf(n) /\ n.closed = k.closed
         /\ n.pending = k.pending \ {s} /\ n.running = r /\ Waiting(n) = Waiting(k)
<1>1. r \in SUBSET EmbyServers
  BY DEF DispRecords
<1>2. /\ n \in DispRecords /\ n.closed = k.closed /\ n.pending = k.pending \ {s}
      /\ n.running = r /\ n.ready = k.ready
  BY <1>1 DEF DispRecords, DispatcherDrained
<1>3. IsFiniteSet(r)
  <2>1. IsFiniteSet(k.running)
    BY DEF QueueOf
  <2>2. IsFiniteSet(k.running \ {s})
    BY <2>1, FS_RemoveElement
  <2> QED
    BY <2>1, <2>2
<1>4. Waiting(n) = Waiting(k)
  BY <1>2 DEF Waiting
<1> QED
  BY <1>2, <1>3, <1>4 DEF QueueOf

LEMMA ClosedIs ==
  ASSUME NEW k \in DispRecords, QueueOf(k),
         NEW n, n = [k EXCEPT !.pending = {}, !.ready = <<>>, !.closed = TRUE]
  PROVE  /\ n \in DispRecords /\ QueueOf(n) /\ n.running = k.running /\ n.closed
         /\ Waiting(n) = {}
<1>1. n \in DispRecords /\ n.closed /\ n.pending = {} /\ n.running = k.running /\ n.ready = <<>>
  <2>1. <<>> \in Seq(EmbyServers)
    OBVIOUS
  <2> QED
    BY <2>1, Zenon DEF DispRecords
<1>2. Len(n.ready) = 0
  BY <1>1
<1>3. Waiting(n) = {}
  BY <1>2 DEF Waiting
<1> QED
  BY <1>1, <1>2, <1>3 DEF QueueOf

LEMMA NewIs ==
  /\ NewDispatcher \in DispRecords /\ QueueOf(NewDispatcher) /\ ~NewDispatcher.closed
  /\ Waiting(NewDispatcher) = {}
<1>1. /\ NewDispatcher \in DispRecords /\ ~NewDispatcher.closed /\ NewDispatcher.pending = {}
      /\ NewDispatcher.running = {} /\ NewDispatcher.ready = <<>>
  BY DEF NewDispatcher, DispRecords
<1>2. Len(NewDispatcher.ready) = 0
  BY <1>1
<1>3. Waiting(NewDispatcher) = {}
  BY <1>2 DEF Waiting
<1> QED
  BY <1>1, <1>2, <1>3, FS_EmptySet DEF QueueOf

\* The updates of a caller.
LEMMA CallerUpdates ==
  ASSUME NEW k \in CallerRecords, NEW at \in Places, NEW s \in EmbyServers, NEW n \in Versions
  PROVE  /\ [k EXCEPT !.at = at] \in CallerRecords
         /\ [k EXCEPT !.at = at].at = at /\ [k EXCEPT !.at = at].server = k.server
         /\ [k EXCEPT !.at = at].from = k.from
         /\ [k EXCEPT !.at = at, !.server = s] \in CallerRecords
         /\ [k EXCEPT !.at = at, !.server = s].at = at /\ [k EXCEPT !.at = at, !.server = s].server = s
         /\ [k EXCEPT !.at = at, !.from = n] \in CallerRecords
         /\ [k EXCEPT !.at = at, !.from = n].at = at /\ [k EXCEPT !.at = at, !.from = n].server = k.server
         /\ [k EXCEPT !.at = at, !.from = n].from = n
  BY DEF CallerRecords

LEMMA RestingTyped ==
  /\ Resting \in CallerRecords /\ Resting.at = "rests"
  /\ [Resting EXCEPT !.at = "none"] \in CallerRecords /\ [Resting EXCEPT !.at = "none"].at = "none"
<1>1. (CHOOSE s \in EmbyServers : TRUE) \in EmbyServers
  BY CallerAssumption
<1>2. 0 \in Versions
  BY StreamBoundAssumption DEF Versions
<1> QED
  BY <1>1, <1>2 DEF Resting, CallerRecords, Places

LEMMA CallersAre ==
  /\ \A d \in Dispatchers, w \in Drainers : <<d, w>> \in Callers /\ <<d, w>> \notin StreamReaders
  /\ \A r \in StreamReaders : r \in Callers
  /\ Nobody \notin Callers
  BY CallerAssumption DEF Callers, Dispatchers, Nobody

\* One caller moves.
LEMMA OneMoves ==
  ASSUME CallerTyped, NEW c \in Callers, NEW n \in CallerRecords, caller' = [caller EXCEPT ![c] = n]
  PROVE  /\ CallerTyped' /\ caller'[c] = n
         /\ \A x \in Callers \ {c} : caller'[x] = caller[x]
  BY DEF CallerTyped

\* One dispatcher is updated.
LEMMA OneUpdated ==
  ASSUME DispTyped, NEW d \in 1..Len(disp), NEW k \in DispRecords, disp' = [disp EXCEPT ![d] = k]
  PROVE  /\ DispTyped' /\ Len(disp') = Len(disp) /\ disp'[d] = k
         /\ \A e \in 1..Len(disp) \ {d} : disp'[e] = disp[e]
  BY DEF DispTyped

\* What the invariant says of a dispatcher and of a worker.
LEMMA OfADispatcher ==
  ASSUME StreamInv, NEW d \in 1..Len(disp)
  PROVE  /\ d \in Dispatchers /\ disp[d] \in DispRecords /\ QueueOf(disp[d])
         /\ \A w \in Drainers : <<d, w>> \in Callers /\ caller[<<d, w>>] \in CallerRecords
<1>1. d \in Dispatchers /\ disp[d] \in DispRecords
  BY StreamBoundAssumption DEF StreamInv, DispTyped, Dispatchers
<1>2. ASSUME NEW w \in Drainers
      PROVE  <<d, w>> \in Callers /\ caller[<<d, w>>] \in CallerRecords
  BY <1>1, CallersAre DEF StreamInv, CallerTyped
<1>3. QueueOf(disp[d])
  BY DEF StreamInv, Queues
<1> QED
  BY <1>1, <1>2, <1>3

LEMMA OfACaller ==
  ASSUME StreamInv, NEW c \in Callers
  PROVE  /\ caller[c] \in CallerRecords /\ caller[c].at \in Places
         /\ caller[c].server \in EmbyServers /\ caller[c].from \in Versions
  BY DEF StreamInv, CallerTyped, CallerRecords

\* The parts of the invariant that a step leaves alone.
LEMMA PartsStay ==
  ASSUME StreamInv
  PROVE  /\ UNCHANGED disp => DispTyped' /\ Queues'
         /\ UNCHANGED caller => CallerTyped'
         /\ UNCHANGED eventVars /\ UNCHANGED <<seen, stale>> => VersionTyped'
         /\ UNCHANGED streams => CacheTyped'
         /\ UNCHANGED <<lock, caller>> => LockTyped'
         /\ UNCHANGED <<disp, caller>> => Hands'
         /\ UNCHANGED <<disp, caller, current, accepting>> => DispGenerations'
         /\ UNCHANGED <<disp, caller, current, accepting, seen>> /\ UNCHANGED eventVars => SignalKept'
         /\ UNCHANGED <<caller, streams>> /\ UNCHANGED arrived => Ordered'
<1> USE DEF StreamInv
<1>1. UNCHANGED disp => DispTyped' /\ Queues'
  BY DEF DispTyped, Queues, QueueOf, Waiting
<1>2. UNCHANGED caller => CallerTyped'
  BY DEF CallerTyped
<1>3. UNCHANGED eventVars /\ UNCHANGED <<seen, stale>> => VersionTyped'
  BY DEF VersionTyped, eventVars
<1>4. UNCHANGED streams => CacheTyped'
  BY DEF CacheTyped
<1>5. UNCHANGED <<lock, caller>> => LockTyped'
  BY DEF LockTyped, HasLock
<1>6. UNCHANGED <<disp, caller>> => Hands'
  <2> SUFFICES ASSUME disp' = disp, caller' = caller,
                      NEW e \in 1..Len(disp), NEW v \in Drainers, Busy(<<e, v>>)
               PROVE  /\ caller[<<e, v>>].server \in disp[e].running \ Waiting(disp[e])
                      /\ \A u \in Drainers :
                           Busy(<<e, u>>) /\ caller[<<e, u>>].server = caller[<<e, v>>].server
                             => u = v
    BY ZenonT(40) DEF Hands, Busy
  <2> QED
    BY DEF Hands, Busy
<1>7. UNCHANGED <<disp, caller, current, accepting>> => DispGenerations'
  BY DEF DispGenerations
<1>8. UNCHANGED <<disp, caller, current, accepting, seen>> /\ UNCHANGED eventVars => SignalKept'
  <2> SUFFICES ASSUME disp' = disp, caller' = caller, current' = current, accepting' = accepting,
                      seen' = seen, arrived' = arrived, signalled' = signalled
               PROVE  SignalKept'
    BY DEF eventVars
  <2> QED
    BY Zenon DEF SignalKept, OnItsWay
<1>9. UNCHANGED <<caller, streams>> /\ UNCHANGED arrived => Ordered'
  BY DEF Ordered, HasLock
<1> QED
  BY <1>1, <1>2, <1>3, <1>4, <1>5, <1>6, <1>7, <1>8, <1>9

\* A step of a worker that has its server before and after, in a dispatcher that is not
\* touched, and its place keeps what the place said.
LEMMA WorkerMoves ==
  ASSUME StreamInv, NEW d \in 1..Len(disp), NEW w \in Drainers, NEW n \in CallerRecords,
         caller' = [caller EXCEPT ![<<d, w>>] = n], UNCHANGED disp,
         caller[<<d, w>>].at \notin {"none", "gone"}, n.at \notin {"none", "gone"},
         n.at # "rests" => n.server = caller[<<d, w>>].server /\ Busy(<<d, w>>),
         UNCHANGED <<current, accepting>>
  PROVE  DispTyped' /\ CallerTyped' /\ Queues' /\ Hands' /\ DispGenerations'
<1> USE DEF StreamInv
<1> DEFINE c == <<d, w>>
<1>0. c \in Callers /\ d \in Dispatchers
  BY OfADispatcher
<1>1. /\ CallerTyped' /\ caller'[c] = n
      /\ \A x \in Callers \ {c} : caller'[x] = caller[x]
  BY <1>0, OneMoves
<1>2. \A e \in Dispatchers, v \in Drainers : <<e, v>> \in Callers
  BY CallersAre
<1>3. \A e \in 1..Len(disp), v \in Drainers :
        Busy(<<e, v>>)' => Busy(<<e, v>>) /\ caller'[<<e, v>>].server = caller[<<e, v>>].server
  BY <1>0, <1>1, <1>2, OfADispatcher DEF Busy
<1>4. Hands'
  <2> SUFFICES ASSUME NEW e \in 1..Len(disp), NEW v \in Drainers, Busy(<<e, v>>)'
               PROVE  /\ caller'[<<e, v>>].server \in disp[e].running \ Waiting(disp[e])
                      /\ \A u \in Drainers :
                           Busy(<<e, u>>)' /\ caller'[<<e, u>>].server = caller'[<<e, v>>].server
                             => u = v
    BY ZenonT(40) DEF Hands, Busy
  <2> QED
    BY <1>3 DEF Hands, Busy
<1>5. DispGenerations'
  BY <1>0, <1>1, <1>2 DEF DispGenerations
<1> QED
  BY <1>1, <1>4, <1>5, PartsStay

LEMMA SessionsArriveKeeps ==
  ASSUME StreamInv, NEW s \in EmbyServers, SessionsArrive(s)
  PROVE  StreamInv'
<1> USE DEF StreamInv
<1>1. /\ UNCHANGED <<current, accepting, caller, seen, streams, stale, lock>>
      /\ arrived[s] < MaxArrivals /\ arrived' = [arrived EXCEPT ![s] = arrived[s] + 1]
  BY DEF SessionsArrive, Arrives, lifeOfStreams, cacheVars
<1>2. /\ arrived' \in [EmbyServers -> Versions]
      /\ \A x \in EmbyServers : /\ arrived[x] \in Nat /\ arrived'[x] \in Nat
                                /\ arrived[x] <= arrived'[x]
  BY <1>1, StreamBoundAssumption DEF VersionTyped, Versions
<1>3. CallerTyped' /\ CacheTyped' /\ LockTyped'
  BY <1>1, PartsStay
<1>4. Ordered'
  <2>1. \A x \in EmbyServers : streams[x] # NoStreams => streams[x] \in Nat
    BY StreamBoundAssumption DEF CacheTyped, Versions
  <2>2. \A c \in Callers : caller[c].from \in Nat
    BY OfACaller, StreamBoundAssumption DEF Versions
  <2>3. \A x \in EmbyServers : arrived[x] <= arrived'[x]
    BY <1>2
  <2>4. \A x \in EmbyServers, c \in Callers : HasLock(c, x)' <=> HasLock(c, x)
    BY <1>1 DEF HasLock
  <2>5. ASSUME NEW x \in EmbyServers, streams[x] # NoStreams PROVE streams[x] <= arrived'[x]
    BY <1>2, <2>1, <2>3, <2>5 DEF Ordered
  <2>6. ASSUME NEW x \in EmbyServers, NEW c \in Callers, HasLock(c, x)
        PROVE  /\ caller[c].from <= arrived'[x]
               /\ streams[x] # NoStreams => streams[x] <= caller[c].from
    BY <1>2, <2>2, <2>3, <2>6 DEF Ordered
  <2> QED
    BY <1>1, <2>4, <2>5, <2>6 DEF Ordered
<1>5. \A x \in EmbyServers : signalled[x] \in Nat /\ seen[x] \in Nat
  BY StreamBoundAssumption DEF VersionTyped, Versions
<1>6. CASE UNCHANGED <<disp, signalled>>
  <2>1. DispTyped' /\ Queues' /\ Hands' /\ DispGenerations'
    BY <1>1, <1>6, PartsStay
  <2>2. VersionTyped'
    BY <1>1, <1>2, <1>6 DEF VersionTyped
  <2>3. SignalKept'
    <3>1. ASSUME NEW x \in EmbyServers PROVE signalled[x] <= arrived'[x]
      BY <1>2, <1>5 DEF SignalKept
    <3>2. \A x \in EmbyServers : OnItsWay(x)' <=> OnItsWay(x)
      BY <1>1, <1>6 DEF OnItsWay
    <3> QED
      BY <1>1, <1>6, <3>1, <3>2 DEF SignalKept
  <2> QED
    BY <1>3, <1>4, <2>1, <2>2, <2>3
<1>7. CASE /\ accepting /\ current # 0
           /\ disp' = [disp EXCEPT ![current] = Submitted(@, s)]
           /\ signalled' = [signalled EXCEPT ![s] = arrived'[s]]
  <2>0. current \in 1..Len(disp)
    BY <1>7 DEF DispGenerations, DispTyped
  <2> DEFINE k == disp[current]
             n == Submitted(k, s)
  <2>1. k \in DispRecords /\ QueueOf(k)
    BY <2>0, OfADispatcher
  <2>2. /\ n \in DispRecords /\ QueueOf(n) /\ n.closed = k.closed
        /\ n.pending = k.pending \cup {s} /\ n.running = k.running \cup {s}
        /\ Waiting(n) = IF s \in k.running THEN Waiting(k) ELSE Waiting(k) \cup {s}
    BY <2>1, SubmittedIs
  <2>3. disp' = [disp EXCEPT ![current] = n]
    BY <1>7
  <2> HIDE DEF n
  <2>4. /\ DispTyped' /\ Len(disp') = Len(disp) /\ disp'[current] = n
        /\ \A e \in 1..Len(disp) \ {current} : disp'[e] = disp[e]
    BY <2>0, <2>2, <2>3, OneUpdated
  <2>5. Queues'
    BY <2>0, <2>2, <2>4 DEF Queues
  <2>6. Hands'
    <3> SUFFICES ASSUME NEW e \in 1..Len(disp), NEW v \in Drainers, Busy(<<e, v>>)
                 PROVE  /\ caller[<<e, v>>].server \in disp'[e].running \ Waiting(disp'[e])
                        /\ \A u \in Drainers :
                             Busy(<<e, u>>) /\ caller[<<e, u>>].server = caller[<<e, v>>].server
                               => u = v
      BY ZenonT(40), <1>1, <2>4 DEF Hands, Busy
    <3>1. /\ caller[<<e, v>>].server \in disp[e].running \ Waiting(disp[e])
          /\ \A u \in Drainers :
               Busy(<<e, u>>) /\ caller[<<e, u>>].server = caller[<<e, v>>].server => u = v
      BY DEF Hands
    <3>2. CASE e # current
      BY <2>4, <3>1, <3>2
    <3>3. CASE e = current
      BY <2>2, <2>4, <3>1, <3>3
    <3> QED
      BY <3>2, <3>3
  <2>7. DispGenerations'
    BY <1>1, <1>7, <2>0, <2>2, <2>4 DEF DispGenerations
  <2>8. VersionTyped'
    BY <1>1, <1>2, <1>7 DEF VersionTyped
  <2>9. SignalKept'
    <3>1. \A x \in EmbyServers : x # s => signalled'[x] = signalled[x]
      BY <1>7 DEF VersionTyped
    <3>2. signalled'[s] = arrived'[s] /\ s \in disp'[current].pending
      BY <1>7, <2>2, <2>4 DEF VersionTyped
    <3>3. \A x \in EmbyServers : OnItsWay(x) => OnItsWay(x)'
      BY <1>1, <2>2, <2>4 DEF OnItsWay
    <3>4. OnItsWay(s)'
      BY <1>1, <3>2 DEF OnItsWay
    <3>5. \A x \in EmbyServers : signalled'[x] <= arrived'[x]
      <4> SUFFICES ASSUME NEW x \in EmbyServers PROVE signalled'[x] <= arrived'[x]
        OBVIOUS
      <4>1. CASE x = s
        BY <1>2, <3>2, <4>1
      <4>2. CASE x # s
        BY <1>2, <1>5, <3>1, <4>2 DEF SignalKept
      <4> QED
        BY <4>1, <4>2
    <3>6. ASSUME NEW x \in EmbyServers PROVE signalled'[x] <= seen'[x] \/ OnItsWay(x)'
      BY <1>1, <1>7, <3>1, <3>3, <3>4 DEF SignalKept
    <3> QED
      BY <3>5, <3>6 DEF SignalKept
  <2> QED
    BY <1>3, <1>4, <2>4, <2>5, <2>6, <2>7, <2>8, <2>9
<1> QED
  BY <1>6, <1>7 DEF SessionsArrive

LEMMA PlaybackArrivesKeeps ==
  ASSUME StreamInv, NEW s \in EmbyServers, PlaybackArrives(s)
  PROVE  StreamInv'
<1> USE DEF StreamInv
<1>1. /\ UNCHANGED <<current, accepting, disp, caller, signalled, seen, streams, lock>>
      /\ arrived[s] < MaxArrivals /\ arrived' = [arrived EXCEPT ![s] = arrived[s] + 1]
      /\ stale' = [stale EXCEPT ![s] = arrived'[s]]
  BY DEF PlaybackArrives, Arrives, lifeOfStreams
<1>2. /\ arrived' \in [EmbyServers -> Versions] /\ arrived'[s] \in Versions
      /\ \A x \in EmbyServers : /\ arrived[x] \in Nat /\ arrived'[x] \in Nat
                                /\ arrived[x] <= arrived'[x]
  BY <1>1, StreamBoundAssumption DEF VersionTyped, Versions
<1>3. /\ DispTyped' /\ CallerTyped' /\ CacheTyped' /\ LockTyped' /\ Queues' /\ Hands'
      /\ DispGenerations'
  BY <1>1, PartsStay
<1>4. VersionTyped'
  BY <1>1, <1>2 DEF VersionTyped
<1>5. Ordered'
  <2>1. \A x \in EmbyServers : streams[x] # NoStreams => streams[x] \in Nat
    BY StreamBoundAssumption DEF CacheTyped, Versions
  <2>2. \A c \in Callers : caller[c].from \in Nat
    BY OfACaller, StreamBoundAssumption DEF Versions
  <2>3. \A x \in EmbyServers : arrived[x] <= arrived'[x]
    BY <1>2
  <2>4. \A x \in EmbyServers, c \in Callers : HasLock(c, x)' <=> HasLock(c, x)
    BY <1>1 DEF HasLock
  <2>5. ASSUME NEW x \in EmbyServers, streams[x] # NoStreams PROVE streams[x] <= arrived'[x]
    BY <1>2, <2>1, <2>3, <2>5 DEF Ordered
  <2>6. ASSUME NEW x \in EmbyServers, NEW c \in Callers, HasLock(c, x)
        PROVE  /\ caller[c].from <= arrived'[x]
               /\ streams[x] # NoStreams => streams[x] <= caller[c].from
    BY <1>2, <2>2, <2>3, <2>6 DEF Ordered
  <2> QED
    BY <1>1, <2>4, <2>5, <2>6 DEF Ordered
<1>6. SignalKept'
  <2>1. \A x \in EmbyServers : signalled[x] \in Nat
    BY StreamBoundAssumption DEF VersionTyped, Versions
  <2> QED
    BY <1>1, <1>2, <2>1 DEF SignalKept, OnItsWay
<1> QED
  BY <1>3, <1>4, <1>5, <1>6

\* The order of the cache, when a caller moves that neither gets nor gives back a lock.
LEMMA CallerMoves ==
  ASSUME StreamInv, NEW c \in Callers, NEW n \in CallerRecords, caller' = [caller EXCEPT ![c] = n],
         n.server = caller[c].server, n.from = caller[c].from,
         n.at \in {"asks", "answered", "checked"} <=> caller[c].at \in {"asks", "answered", "checked"},
         UNCHANGED <<arrived, streams, lock>>
  PROVE  LockTyped' /\ Ordered'
<1> USE DEF StreamInv
<1>1. caller'[c] = n /\ \A x \in Callers \ {c} : caller'[x] = caller[x]
  BY OneMoves
<1>2. \A x \in Callers, s \in EmbyServers : HasLock(x, s)' <=> HasLock(x, s)
  BY <1>1 DEF HasLock
<1>3. \A x \in Callers : caller'[x].from = caller[x].from
  BY <1>1
<1>4. LockTyped'
  BY <1>2 DEF LockTyped
<1>5. Ordered'
  BY <1>2, <1>3 DEF Ordered
<1> QED
  BY <1>4, <1>5

\* The generations stay when nobody is created and nobody comes back.
LEMMA GenerationsStay ==
  ASSUME StreamInv, Len(disp') = Len(disp), current' \in {current, 0}, accepting' \in BOOLEAN,
         accepting' => accepting /\ current' = current,
         accepting' => \A e \in 1..Len(disp) : disp'[e].closed = disp[e].closed,
         \A x \in Callers : /\ caller'[x].at = "none" <=> caller[x].at = "none"
                            /\ caller[x].at = "gone" => caller'[x].at = "gone",
         current' # current => \A w \in Drainers : caller'[<<current, w>>].at = "gone"
  PROVE  DispGenerations'
<1> USE DEF StreamInv
<1>1. \A e \in Dispatchers, v \in Drainers : <<e, v>> \in Callers
  BY CallersAre
<1>2. Len(disp) \in Nat /\ current \in {0, Len(disp)}
  BY DEF DispTyped, DispGenerations
<1>3. current' \in {0, Len(disp')}
  BY <1>2
<1>4. accepting' => current' # 0 /\ ~disp'[current'].closed
  <2> SUFFICES ASSUME accepting' PROVE current' # 0 /\ ~disp'[current'].closed
    OBVIOUS
  <2>1. accepting /\ current' = current
    OBVIOUS
  <2>2. current # 0 /\ ~disp[current].closed /\ current \in 1..Len(disp)
    BY <1>2, <2>1 DEF DispGenerations
  <2> QED
    BY <2>1, <2>2
<1>5. ASSUME NEW d \in Dispatchers, NEW w \in Drainers
      PROVE  /\ d > Len(disp') <=> caller'[<<d, w>>].at = "none"
             /\ d <= Len(disp') /\ d # current' => caller'[<<d, w>>].at = "gone"
  <2>1. /\ d > Len(disp) <=> caller[<<d, w>>].at = "none"
        /\ d <= Len(disp) /\ d # current => caller[<<d, w>>].at = "gone"
    BY DEF DispGenerations
  <2>2. /\ caller'[<<d, w>>].at = "none" <=> caller[<<d, w>>].at = "none"
        /\ caller[<<d, w>>].at = "gone" => caller'[<<d, w>>].at = "gone"
    <3> DEFINE c == <<d, w>>
    <3>1. c \in Callers
      BY <1>1
    <3> HIDE DEF c
    <3>2. /\ caller'[c].at = "none" <=> caller[c].at = "none"
          /\ caller[c].at = "gone" => caller'[c].at = "gone"
      BY <3>1
    <3> QED
      BY <3>2 DEF c
  <2>3. d > Len(disp') <=> caller'[<<d, w>>].at = "none"
    BY <2>1, <2>2
  <2>4. ASSUME d <= Len(disp'), d # current' PROVE caller'[<<d, w>>].at = "gone"
    <3>1. CASE d = current
      BY <2>4, <3>1
    <3>2. CASE d # current
      BY <2>1, <2>2, <2>4, <3>2
    <3> QED
      BY <3>1, <3>2
  <2> QED
    BY <2>3, <2>4
<1> QED
  BY <1>3, <1>4, <1>5 DEF DispGenerations

LEMMA TakeServerKeeps ==
  ASSUME StreamInv, NEW d \in 1..Len(disp), NEW w \in Drainers, TakeServer(d, w)
  PROVE  StreamInv'
<1> USE DEF StreamInv
<1> DEFINE c == <<d, w>>
           s == Head(disp[d].ready)
           k == [disp[d] EXCEPT !.ready = Tail(@)]
           n == [caller[c] EXCEPT !.at = "drains", !.server = s]
<1>1. /\ UNCHANGED <<current, accepting, arrived, signalled, seen, streams, stale, lock>>
      /\ UNCHANGED eventVars
      /\ caller[c].at = "rests" /\ disp[d].ready # <<>>
      /\ disp' = [disp EXCEPT ![d] = k] /\ caller' = [caller EXCEPT ![c] = n]
  BY DEF TakeServer, lifeOfStreams, eventVars, cacheVars
<1>2. disp[d] \in DispRecords /\ QueueOf(disp[d]) /\ c \in Callers /\ caller[c] \in CallerRecords
  BY OfADispatcher
<1>3. /\ k \in DispRecords /\ QueueOf(k) /\ k.closed = disp[d].closed
      /\ k.pending = disp[d].pending /\ k.running = disp[d].running
      /\ Waiting(k) = Waiting(disp[d]) \ {s} /\ s \in Waiting(disp[d]) /\ s \in EmbyServers
  BY <1>1, <1>2, TakenIs
<1>4. n \in CallerRecords /\ n.at = "drains" /\ n.server = s
  <2>1. 0 \in Versions
    BY StreamBoundAssumption DEF Versions
  <2>2. "drains" \in Places
    BY DEF Places
  <2>3. s \in EmbyServers
    BY <1>3
  <2> HIDE DEF s
  <2> QED
    <3> DEFINE q == caller[c]
    <3>1. n = [q EXCEPT !.at = "drains", !.server = s] /\ q \in CallerRecords
      BY <1>2
    <3> HIDE DEF q, n
    <3> QED
      BY <2>1, <2>2, <2>3, <3>1 DEF CallerRecords
<1> HIDE DEF k, n, s
<1>5. /\ DispTyped' /\ Len(disp') = Len(disp) /\ disp'[d] = k
      /\ \A e \in 1..Len(disp) \ {d} : disp'[e] = disp[e]
  BY <1>1, <1>3, OneUpdated
<1>6. /\ CallerTyped' /\ caller'[c] = n
      /\ \A x \in Callers \ {c} : caller'[x] = caller[x]
  BY <1>1, <1>2, <1>4, OneMoves
<1>7. VersionTyped' /\ CacheTyped'
  BY <1>1, PartsStay
<1>8. \A e \in Dispatchers, v \in Drainers : <<e, v>> \in Callers
  BY CallersAre
<1>9. \A e \in 1..Len(disp) : e \in Dispatchers
  BY OfADispatcher
<1>10. Queues'
  BY <1>3, <1>5 DEF Queues
<1>11. LockTyped' /\ Ordered'
  <2>1. \A x \in Callers, t \in EmbyServers : HasLock(x, t)' <=> HasLock(x, t)
    BY <1>1, <1>4, <1>6 DEF HasLock
  <2>2. \A x \in Callers, t \in EmbyServers : HasLock(x, t) => caller'[x] = caller[x]
    BY <1>1, <1>6 DEF HasLock
  <2>3. LockTyped'
    BY <1>1, <2>1 DEF LockTyped
  <2>4. Ordered'
    BY <1>1, <2>1, <2>2 DEF Ordered
  <2> QED
    BY <2>3, <2>4
<1>12. Hands'
  <2> SUFFICES ASSUME NEW e \in 1..Len(disp), NEW v \in Drainers, Busy(<<e, v>>)'
               PROVE  /\ caller'[<<e, v>>].server \in disp'[e].running \ Waiting(disp'[e])
                      /\ \A u \in Drainers :
                           Busy(<<e, u>>)' /\ caller'[<<e, u>>].server = caller'[<<e, v>>].server
                             => u = v
    BY <1>5 DEF Hands, Busy
  <2>1. \A u \in Drainers : <<e, u>> # c => (Busy(<<e, u>>)' <=> Busy(<<e, u>>))
                                            /\ caller'[<<e, u>>] = caller[<<e, u>>]
    BY <1>6, <1>8, <1>9 DEF Busy
  <2>2. \A u \in Drainers : Busy(<<e, u>>) =>
          /\ caller[<<e, u>>].server \in disp[e].running \ Waiting(disp[e])
          /\ \A x \in Drainers :
               Busy(<<e, x>>) /\ caller[<<e, x>>].server = caller[<<e, u>>].server => x = u
    BY DEF Hands
  <2>3. Waiting(disp[d]) \subseteq disp[d].running
    BY <1>2 DEF QueueOf
  <2>4. CASE e # d
    <3>1. \A u \in Drainers : <<e, u>> # c
      BY <2>4
    <3> QED
      BY <1>5, <2>1, <2>2, <2>4, <3>1 DEF Busy
  <2>5. CASE e = d /\ v = w
    <3>1. caller'[<<e, v>>].server = s
      BY <1>4, <1>6, <2>5
    <3>2. ASSUME NEW u \in Drainers, Busy(<<e, u>>)', caller'[<<e, u>>].server = s, u # v
          PROVE FALSE
      BY <1>3, <2>1, <2>2, <2>5, <3>2
    <3> QED
      BY <1>3, <1>5, <2>3, <2>5, <3>1, <3>2
  <2>6. CASE e = d /\ v # w
    <3>1. /\ Busy(<<e, v>>) /\ caller'[<<e, v>>] = caller[<<e, v>>] /\ <<e, w>> = c
          /\ caller'[<<e, w>>].server = s
      BY <1>4, <1>6, <2>1, <2>6
    <3>2. caller[<<e, v>>].server \notin Waiting(disp[e]) /\ caller[<<e, v>>].server \in disp[e].running
      BY <2>2, <3>1
    <3>3. ASSUME NEW u \in Drainers, Busy(<<e, u>>)', caller'[<<e, u>>].server = caller'[<<e, v>>].server
          PROVE  u = v
      <4>1. u # w
        BY <1>3, <2>6, <3>1, <3>2, <3>3
      <4>2. Busy(<<e, u>>) /\ caller'[<<e, u>>] = caller[<<e, u>>]
        BY <2>1, <3>3, <4>1
      <4> QED
        BY <2>2, <3>1, <3>3, <4>2
    <3> QED
      BY <1>3, <1>5, <2>6, <3>1, <3>2, <3>3
  <2> QED
    BY <2>4, <2>5, <2>6
<1>13. DispGenerations'
  <2>1. \A e \in 1..Len(disp) : disp'[e].closed = disp[e].closed
    BY <1>3, <1>5
  <2>2. \A x \in Callers : /\ caller'[x].at = "none" <=> caller[x].at = "none"
                           /\ caller[x].at = "gone" => caller'[x].at = "gone"
    BY <1>1, <1>4, <1>6
  <2>3. accepting \in BOOLEAN
    BY DEF DispGenerations
  <2> QED
    BY <1>1, <1>5, <2>1, <2>2, <2>3, GenerationsStay
<1>14. SignalKept'
  <2> SUFFICES ASSUME accepting, NEW t \in EmbyServers, OnItsWay(t) PROVE OnItsWay(t)'
    BY <1>1 DEF SignalKept
  <2>1. current \in 1..Len(disp)
    BY DEF DispGenerations, DispTyped
  <2>2. disp'[current].pending = disp[current].pending
    BY <1>3, <1>5, <2>1
  <2>3. ASSUME NEW v \in Drainers, caller[<<current, v>>].at \in {"called", "waits"}
        PROVE  caller'[<<current, v>>] = caller[<<current, v>>]
    BY <1>1, <1>6, <1>8, <1>9, <2>1, <2>3
  <2> QED
    BY <1>1, <2>2, <2>3 DEF OnItsWay
<1> QED
  BY <1>5, <1>6, <1>7, <1>10, <1>11, <1>12, <1>13, <1>14

\* A caller takes the lock of its server and asks Emby.
LEMMA GetsTheLock ==
  ASSUME StreamInv, NEW c \in Callers, NEW n \in CallerRecords, caller' = [caller EXCEPT ![c] = n],
         lock[caller[c].server] = Nobody, lock' = [lock EXCEPT ![caller[c].server] = c],
         n.at = "asks", n.server = caller[c].server, n.from = arrived[n.server],
         UNCHANGED <<arrived, streams>>
  PROVE  LockTyped' /\ Ordered'
<1> USE DEF StreamInv
<1> DEFINE s == caller[c].server
<1>1. caller'[c] = n /\ \A x \in Callers \ {c} : caller'[x] = caller[x]
  BY OneMoves
<1>2. s \in EmbyServers /\ Nobody \notin Callers /\ arrived[s] \in Nat
  BY OfACaller, CallersAre, StreamBoundAssumption DEF VersionTyped, Versions
<1>3. /\ lock' \in [EmbyServers -> Callers \cup {Nobody}] /\ lock'[s] = c
      /\ \A t \in EmbyServers : t # s => lock'[t] = lock[t]
  BY <1>2 DEF LockTyped
<1>4. \A x \in Callers : ~HasLock(x, s)
  BY <1>2 DEF LockTyped
<1>5. HasLock(c, s)' /\ \A t \in EmbyServers : HasLock(c, t)' => t = s
  BY <1>1 DEF HasLock
<1>6. \A x \in Callers \ {c}, t \in EmbyServers : HasLock(x, t)' <=> HasLock(x, t)
  BY <1>1 DEF HasLock
<1>7. ~\E t \in EmbyServers : HasLock(c, t)
  BY <1>4 DEF HasLock
<1> HIDE DEF s
<1>8. LockTyped'
  <2>1. ASSUME NEW t \in EmbyServers, NEW x \in Callers PROVE lock'[t] = x <=> HasLock(x, t)'
    <3>1. lock[t] = x <=> HasLock(x, t)
      BY DEF LockTyped
    <3> QED
      <4>1. CASE x = c /\ t = s
        BY <1>3, <1>5, <4>1 DEF HasLock
      <4>2. CASE x = c /\ t # s
        BY <1>3, <1>5, <1>7, <3>1, <4>2
      <4>3. CASE x # c /\ t = s
        BY <1>3, <1>4, <1>6, <4>3
      <4>4. CASE x # c /\ t # s
        BY <1>3, <1>6, <3>1, <4>4
      <4> QED
        BY <4>1, <4>2, <4>3, <4>4
  <2> QED
    BY <1>3, <2>1 DEF LockTyped
<1>9. Ordered'
  <2>1. ASSUME NEW t \in EmbyServers, NEW x \in Callers, HasLock(x, t)'
        PROVE  /\ caller'[x].from <= arrived[t]
               /\ streams[t] # NoStreams => streams[t] <= caller'[x].from
    <3>1. CASE x = c
      <4>1. t = s /\ caller'[x].from = arrived[s]
        BY <1>1, <1>5, <2>1, <3>1 DEF s
      <4> QED
        BY <1>2, <4>1 DEF Ordered
    <3>2. CASE x # c
      BY <1>1, <1>6, <2>1, <3>2 DEF Ordered
    <3> QED
      BY <3>1, <3>2
  <2> QED
    BY <2>1 DEF Ordered
<1> QED
  BY <1>8, <1>9

\* The hands of the workers stay when nobody gets a server.
LEMMA HandsStay ==
  ASSUME StreamInv, UNCHANGED disp,
         \A e \in 1..Len(disp), v \in Drainers :
           Busy(<<e, v>>)' => Busy(<<e, v>>) /\ caller'[<<e, v>>] = caller[<<e, v>>]
  PROVE  Hands'
<1> SUFFICES ASSUME NEW e \in 1..Len(disp), NEW v \in Drainers, Busy(<<e, v>>)'
             PROVE  /\ caller'[<<e, v>>].server \in disp[e].running \ Waiting(disp[e])
                    /\ \A u \in Drainers :
                         Busy(<<e, u>>)' /\ caller'[<<e, u>>].server = caller'[<<e, v>>].server
                           => u = v
  BY DEF Hands, Busy
<1> QED
  BY DEF Hands, Busy, StreamInv

\* An event stays on its way when whoever moves was not on it.
LEMMA WaitersStay ==
  ASSUME StreamInv, NEW c \in Callers, NEW n \in CallerRecords, caller' = [caller EXCEPT ![c] = n],
         caller[c].at \notin {"called", "waits"} \/ c \in StreamReaders,
         UNCHANGED <<disp, current, accepting, arrived, signalled, seen>>
  PROVE  SignalKept'
<1> USE DEF StreamInv
<1>1. \A x \in Callers \ {c} : caller'[x] = caller[x]
  BY OneMoves
<1>2. \A e \in Dispatchers, v \in Drainers : <<e, v>> \in Callers /\ <<e, v>> \notin StreamReaders
  BY CallersAre
<1> SUFFICES ASSUME accepting, NEW t \in EmbyServers, OnItsWay(t) PROVE OnItsWay(t)'
  BY DEF SignalKept
<1>3. current \in Dispatchers
  BY StreamBoundAssumption DEF DispGenerations, DispTyped, Dispatchers
<1>4. ASSUME NEW v \in Drainers, caller[<<current, v>>].at \in {"called", "waits"}
      PROVE  caller'[<<current, v>>] = caller[<<current, v>>]
  BY <1>1, <1>2, <1>3, <1>4
<1> QED
  BY <1>4 DEF OnItsWay

LEMMA DrainKeeps ==
  ASSUME StreamInv, NEW d \in 1..Len(disp), NEW w \in Drainers, Drain(d, w)
  PROVE  StreamInv'
<1> USE DEF StreamInv
<1> DEFINE c == <<d, w>>
           s == caller[c].server
           lets == disp[d].closed \/ s \notin disp[d].pending
           k == [disp[d] EXCEPT !.pending = @ \ {s}, !.running = IF lets THEN @ \ {s} ELSE @]
           at == IF lets THEN "rests" ELSE "called"
           n == [caller[c] EXCEPT !.at = at]
<1>1. /\ UNCHANGED <<current, accepting, arrived, signalled, seen, streams, stale, lock>>
      /\ UNCHANGED eventVars
      /\ caller[c].at = "drains"
      /\ disp' = [disp EXCEPT ![d] = k] /\ caller' = [caller EXCEPT ![c] = n]
  BY DEF Drain, Goto, lifeOfStreams, eventVars, cacheVars
<1>2. disp[d] \in DispRecords /\ QueueOf(disp[d]) /\ c \in Callers /\ caller[c] \in CallerRecords
  BY OfADispatcher
<1>3. s \in EmbyServers /\ caller[c].from \in Versions
  BY <1>2 DEF CallerRecords
<1>4. \A u \in Drainers : Busy(<<d, u>>) =>
        /\ caller[<<d, u>>].server \in disp[d].running \ Waiting(disp[d])
        /\ \A v \in Drainers :
             Busy(<<d, v>>) /\ caller[<<d, v>>].server = caller[<<d, u>>].server => v = u
  BY DEF Hands
<1>5. Busy(<<d, w>>) /\ s \notin Waiting(disp[d])
  BY <1>1, <1>4 DEF Busy
<1>6. /\ k \in DispRecords /\ QueueOf(k) /\ k.closed = disp[d].closed
      /\ k.pending = disp[d].pending \ {s}
      /\ k.running = IF lets THEN disp[d].running \ {s} ELSE disp[d].running
      /\ Waiting(k) = Waiting(disp[d])
  <2> HIDE DEF s
  <2> HIDE DEF lets
  <2> DEFINE q == disp[d]
             r == IF lets THEN q.running \ {s} ELSE q.running
  <2>2. k = DispatcherDrained(q, s, r) /\ r \in {q.running, q.running \ {s}}
    BY DEF DispatcherDrained
  <2>3. q \in DispRecords /\ QueueOf(q) /\ s \notin Waiting(q)
    BY <1>2, <1>5
  <2> HIDE DEF q, r, k
  <2>4. /\ k \in DispRecords /\ QueueOf(k) /\ k.closed = q.closed
        /\ k.pending = q.pending \ {s} /\ k.running = r /\ Waiting(k) = Waiting(q)
    BY <1>3, <2>2, <2>3, DrainedIs
  <2> QED
    BY <2>4 DEF q, r
<1>7. n \in CallerRecords /\ n.at = at /\ n.server = s /\ at \in {"rests", "called"}
  <2>1. at \in Places /\ at \in {"rests", "called"}
    BY DEF Places
  <2> HIDE DEF at
  <2> QED
    BY <1>2, <2>1 DEF CallerRecords
<1>8. at = "called" => ~lets
  OBVIOUS
<1>9. lets => at = "rests"
  OBVIOUS
<1> HIDE DEF k, n, s, at
<1>10. /\ DispTyped' /\ Len(disp') = Len(disp) /\ disp'[d] = k
       /\ \A e \in 1..Len(disp) \ {d} : disp'[e] = disp[e]
  BY <1>1, <1>6, OneUpdated
<1>11. /\ CallerTyped' /\ caller'[c] = n
       /\ \A x \in Callers \ {c} : caller'[x] = caller[x]
  BY <1>1, <1>2, <1>7, OneMoves
<1>12. VersionTyped' /\ CacheTyped'
  BY <1>1, PartsStay
<1>13. /\ \A e \in Dispatchers, v \in Drainers : <<e, v>> \in Callers
       /\ \A e \in 1..Len(disp) : e \in Dispatchers
  BY CallersAre, OfADispatcher
<1>14. Queues'
  BY <1>6, <1>10 DEF Queues
<1>15. LockTyped' /\ Ordered'
  <2>1. \A x \in Callers, t \in EmbyServers : HasLock(x, t)' <=> HasLock(x, t)
    BY <1>1, <1>7, <1>11 DEF HasLock
  <2>2. \A x \in Callers, t \in EmbyServers : HasLock(x, t) => caller'[x] = caller[x]
    BY <1>1, <1>11 DEF HasLock
  <2>3. LockTyped'
    BY <1>1, <2>1 DEF LockTyped
  <2>4. Ordered'
    BY <1>1, <2>1, <2>2 DEF Ordered
  <2> QED
    BY <2>3, <2>4
<1>16. Hands'
  <2> SUFFICES ASSUME NEW e \in 1..Len(disp), NEW v \in Drainers, Busy(<<e, v>>)'
               PROVE  /\ caller'[<<e, v>>].server \in disp'[e].running \ Waiting(disp'[e])
                      /\ \A u \in Drainers :
                           Busy(<<e, u>>)' /\ caller'[<<e, u>>].server = caller'[<<e, v>>].server
                             => u = v
    BY <1>10 DEF Hands, Busy
  <2>1. ASSUME NEW u \in Drainers, Busy(<<e, u>>)'
        PROVE  /\ Busy(<<e, u>>) /\ caller'[<<e, u>>].server = caller[<<e, u>>].server
               /\ <<e, u>> = c => ~lets
    <3>1. CASE <<e, u>> = c
      BY <1>5, <1>7, <1>8, <1>9, <1>11, <2>1, <3>1 DEF Busy, s
    <3>2. CASE <<e, u>> # c
      BY <1>11, <1>13, <2>1, <3>2 DEF Busy
    <3> QED
      BY <3>1, <3>2
  <2>2. /\ caller[<<e, v>>].server \in disp[e].running \ Waiting(disp[e])
        /\ \A u \in Drainers :
             Busy(<<e, u>>) /\ caller[<<e, u>>].server = caller[<<e, v>>].server => u = v
    BY <2>1 DEF Hands
  <2>3. \A u \in Drainers :
          Busy(<<e, u>>)' /\ caller'[<<e, u>>].server = caller'[<<e, v>>].server => u = v
    BY <2>1, <2>2
  <2>4. caller[<<e, v>>].server \in disp'[e].running \ Waiting(disp'[e])
    <3>1. CASE e # d
      BY <1>10, <2>2, <3>1
    <3>2. CASE e = d /\ ~lets
      BY <1>6, <1>10, <2>2, <3>2
    <3>3. CASE e = d /\ lets
      <4>1. v # w
        BY <2>1, <3>3
      <4>2. caller[<<e, v>>].server # s
        BY <1>4, <1>5, <2>1, <3>3, <4>1 DEF s
      <4> QED
        BY <1>6, <1>10, <2>2, <3>3, <4>2
    <3> QED
      BY <3>1, <3>2, <3>3
  <2> QED
    BY <2>1, <2>3, <2>4
<1>17. DispGenerations'
  <2>1. \A e \in 1..Len(disp) : disp'[e].closed = disp[e].closed
    BY <1>6, <1>10
  <2>2. \A x \in Callers : /\ caller'[x].at = "none" <=> caller[x].at = "none"
                           /\ caller[x].at = "gone" => caller'[x].at = "gone"
    BY <1>1, <1>7, <1>11
  <2>3. accepting \in BOOLEAN
    BY DEF DispGenerations
  <2> QED
    BY <1>1, <1>10, <2>1, <2>2, <2>3, GenerationsStay
<1>18. SignalKept'
  <2> SUFFICES ASSUME accepting, NEW t \in EmbyServers, OnItsWay(t) PROVE OnItsWay(t)'
    BY <1>1 DEF SignalKept
  <2>1. current \in 1..Len(disp) /\ ~disp[current].closed
    BY DEF DispGenerations, DispTyped
  <2>2. ASSUME NEW v \in Drainers, caller[<<current, v>>].at \in {"called", "waits"}
        PROVE  caller'[<<current, v>>] = caller[<<current, v>>]
    BY <1>1, <1>11, <1>13, <2>1, <2>2
  <2>3. CASE t \notin disp[current].pending
    BY <1>1, <2>2, <2>3 DEF OnItsWay
  <2>4. CASE t \in disp[current].pending /\ (current # d \/ t # s)
    BY <1>1, <1>6, <1>10, <2>1, <2>4 DEF OnItsWay
  <2>5. CASE t \in disp[current].pending /\ current = d /\ t = s
    <3>1. ~lets
      BY <2>1, <2>5
    <3>2. caller'[<<current, w>>].at = "called" /\ caller'[<<current, w>>].server = t
      BY <1>7, <1>11, <2>5, <3>1 DEF at
    <3> QED
      BY <1>1, <3>2 DEF OnItsWay
  <2> QED
    BY <2>3, <2>4, <2>5
<1> QED
  BY <1>10, <1>11, <1>12, <1>14, <1>15, <1>16, <1>17, <1>18

LEMMA WorkerLeavesKeeps ==
  ASSUME StreamInv, NEW d \in 1..Len(disp), NEW w \in Drainers, WorkerLeaves(d, w)
  PROVE  StreamInv'
<1> USE DEF StreamInv
<1> DEFINE c == <<d, w>>
           n == [caller[c] EXCEPT !.at = "gone"]
<1>1. /\ UNCHANGED <<current, accepting, disp, seen, streams, stale, lock, arrived>>
      /\ UNCHANGED eventVars
      /\ caller[c].at = "rests" /\ disp[d].closed /\ caller' = [caller EXCEPT ![c] = n]
  BY DEF WorkerLeaves, Goto, lifeOfStreams, eventVars, cacheVars
<1>2. c \in Callers /\ caller[c] \in CallerRecords /\ n \in CallerRecords /\ n.at = "gone"
      /\ n.server = caller[c].server /\ n.from = caller[c].from
  BY OfADispatcher DEF CallerRecords, Places
<1> HIDE DEF n
<1>3. /\ CallerTyped' /\ caller'[c] = n
      /\ \A x \in Callers \ {c} : caller'[x] = caller[x]
  BY <1>1, <1>2, OneMoves
<1>4. DispTyped' /\ Queues' /\ VersionTyped' /\ CacheTyped'
  BY <1>1, PartsStay
<1>5. LockTyped' /\ Ordered'
  BY <1>1, <1>2, CallerMoves
<1>6. /\ \A e \in Dispatchers, v \in Drainers : <<e, v>> \in Callers
      /\ \A e \in 1..Len(disp) : e \in Dispatchers
  BY CallersAre, OfADispatcher
<1>7. \A e \in 1..Len(disp), v \in Drainers :
        Busy(<<e, v>>)' => Busy(<<e, v>>) /\ caller'[<<e, v>>] = caller[<<e, v>>]
  BY <1>2, <1>3, <1>6 DEF Busy
<1>8. Hands'
  BY <1>1, <1>7, HandsStay
<1>9. DispGenerations'
  <2>1. \A x \in Callers : /\ caller'[x].at = "none" <=> caller[x].at = "none"
                           /\ caller[x].at = "gone" => caller'[x].at = "gone"
    BY <1>1, <1>2, <1>3
  <2>2. accepting \in BOOLEAN
    BY DEF DispGenerations
  <2> QED
    BY <1>1, <2>1, <2>2, GenerationsStay
<1>10. SignalKept'
  <2> SUFFICES ASSUME accepting, NEW t \in EmbyServers, OnItsWay(t) PROVE OnItsWay(t)'
    BY <1>1 DEF SignalKept, eventVars
  <2>1. current \in 1..Len(disp)
    BY DEF DispGenerations, DispTyped
  <2>2. ASSUME NEW v \in Drainers, caller[<<current, v>>].at \in {"called", "waits"}
        PROVE  caller'[<<current, v>>] = caller[<<current, v>>]
    BY <1>1, <1>3, <1>6, <2>1, <2>2
  <2> QED
    BY <1>1, <2>2 DEF OnItsWay
<1> QED
  BY <1>3, <1>4, <1>5, <1>8, <1>9, <1>10

LEMMA CalledKeeps ==
  ASSUME StreamInv, NEW d \in 1..Len(disp), NEW w \in Drainers, Called(d, w)
  PROVE  StreamInv'
<1> USE DEF StreamInv
<1> DEFINE c == <<d, w>>
           at == IF IsCurrent(d) THEN "waits" ELSE "drains"
           n == [caller[c] EXCEPT !.at = at]
<1>1. /\ UNCHANGED <<current, accepting, disp, seen, streams, stale, lock, arrived>>
      /\ UNCHANGED eventVars
      /\ caller[c].at = "called" /\ caller' = [caller EXCEPT ![c] = n]
  BY DEF Called, Goto, lifeOfStreams, eventVars, cacheVars
<1>2. at \in {"waits", "drains"} /\ (accepting /\ current = d => at = "waits")
  BY DEF IsCurrent
<1> HIDE DEF at
<1>3. c \in Callers /\ caller[c] \in CallerRecords /\ n \in CallerRecords /\ n.at = at
      /\ n.server = caller[c].server /\ n.from = caller[c].from
  BY <1>2, OfADispatcher DEF CallerRecords, Places
<1> HIDE DEF n
<1>4. /\ CallerTyped' /\ caller'[c] = n
      /\ \A x \in Callers \ {c} : caller'[x] = caller[x]
  BY <1>1, <1>3, OneMoves
<1>5. VersionTyped' /\ CacheTyped'
  BY <1>1, PartsStay
<1>6. LockTyped' /\ Ordered'
  BY <1>1, <1>2, <1>3, CallerMoves
<1>7. DispTyped' /\ Queues' /\ Hands' /\ DispGenerations'
  BY <1>1, <1>2, <1>3, WorkerMoves DEF Busy
<1>8. /\ \A e \in Dispatchers, v \in Drainers : <<e, v>> \in Callers
      /\ \A e \in 1..Len(disp) : e \in Dispatchers
  BY CallersAre, OfADispatcher
<1>9. SignalKept'
  <2> SUFFICES ASSUME accepting, NEW t \in EmbyServers, OnItsWay(t) PROVE OnItsWay(t)'
    BY <1>1 DEF SignalKept, eventVars
  <2>1. current \in 1..Len(disp)
    BY DEF DispGenerations, DispTyped
  <2>2. ASSUME NEW v \in Drainers, caller[<<current, v>>].at \in {"called", "waits"}
        PROVE  /\ caller'[<<current, v>>].at \in {"called", "waits"}
               /\ caller'[<<current, v>>].server = caller[<<current, v>>].server
    <3>1. CASE <<current, v>> = c
      BY <1>2, <1>3, <1>4, <3>1
    <3>2. CASE <<current, v>> # c
      BY <1>4, <1>8, <2>1, <2>2, <3>2
    <3> QED
      BY <3>1, <3>2
  <2> QED
    BY <1>1, <2>2 DEF OnItsWay
<1> QED
  BY <1>4, <1>5, <1>6, <1>7, <1>9

LEMMA RefreshesKeeps ==
  ASSUME StreamInv, NEW d \in 1..Len(disp), NEW w \in Drainers, Refreshes(d, w)
  PROVE  StreamInv'
<1> USE DEF StreamInv
<1> DEFINE c == <<d, w>>
           s == caller[c].server
           n == [caller[c] EXCEPT !.at = "asks", !.from = arrived[s]]
<1>1. /\ UNCHANGED <<current, accepting, disp, streams, stale, arrived, signalled>>
      /\ caller[c].at = "waits" /\ lock[s] = Nobody
      /\ lock' = [lock EXCEPT ![s] = c] /\ seen' = [seen EXCEPT ![s] = arrived[s]]
      /\ caller' = [caller EXCEPT ![c] = n]
  BY DEF Refreshes, lifeOfStreams, eventVars
<1>2. c \in Callers /\ caller[c] \in CallerRecords /\ s \in EmbyServers /\ arrived[s] \in Versions
  BY OfADispatcher DEF CallerRecords, VersionTyped
<1>3. n \in CallerRecords /\ n.at = "asks" /\ n.server = s /\ n.from = arrived[s]
  <2> DEFINE a == arrived[s]
  <2>1. n = [caller[c] EXCEPT !.at = "asks", !.from = a] /\ a \in Versions
    BY <1>2
  <2> HIDE DEF a
  <2>2. n \in CallerRecords /\ n.at = "asks" /\ n.server = s /\ n.from = a
    BY <1>2, <2>1 DEF CallerRecords, Places
  <2> QED
    BY <2>2 DEF a
<1> HIDE DEF n
<1>4. /\ CallerTyped' /\ caller'[c] = n
      /\ \A x \in Callers \ {c} : caller'[x] = caller[x]
  BY <1>1, <1>2, <1>3, OneMoves
<1>5. VersionTyped' /\ CacheTyped'
  <2>1. VersionTyped'
    BY <1>1, <1>2 DEF VersionTyped
  <2> QED
    BY <1>1, <2>1, PartsStay
<1>6. DispTyped' /\ Queues' /\ Hands' /\ DispGenerations'
  BY <1>1, <1>3, WorkerMoves DEF Busy
<1>7. LockTyped' /\ Ordered'
  <2> HIDE DEF s, c
  <2>1. n.server = caller[c].server
    BY <1>3 DEF s
  <2> QED
    BY <1>1, <1>2, <1>3, <2>1, GetsTheLock DEF s
<1>8. /\ \A e \in Dispatchers, v \in Drainers : <<e, v>> \in Callers
      /\ \A e \in 1..Len(disp) : e \in Dispatchers
  BY CallersAre, OfADispatcher
<1>9. SignalKept'
  <2>1. \A t \in EmbyServers : signalled'[t] <= arrived'[t]
    BY <1>1 DEF SignalKept
  <2>2. ASSUME accepting, NEW t \in EmbyServers PROVE signalled[t] <= seen'[t] \/ OnItsWay(t)'
    <3>1. CASE t = s
      BY <1>1, <1>2, <3>1 DEF SignalKept, VersionTyped
    <3>2. CASE t # s
      <4>1. seen'[t] = seen[t]
        BY <1>1, <3>2 DEF VersionTyped
      <4>2. current \in 1..Len(disp)
        BY <2>2 DEF DispGenerations, DispTyped
      <4>3. ASSUME NEW v \in Drainers, caller[<<current, v>>].server = t
            PROVE  caller'[<<current, v>>] = caller[<<current, v>>]
        BY <1>4, <1>8, <3>2, <4>2, <4>3
      <4>4. OnItsWay(t) => OnItsWay(t)'
        BY <1>1, <4>3 DEF OnItsWay
      <4> QED
        BY <2>2, <4>1, <4>4 DEF SignalKept
    <3> QED
      BY <3>1, <3>2
  <2> QED
    BY <1>1, <2>1, <2>2 DEF SignalKept
<1> QED
  BY <1>4, <1>5, <1>6, <1>7, <1>9

\* A caller gives back the lock of its server, and may have written what it asked for.
LEMMA LetsTheLockGo ==
  ASSUME StreamInv, NEW c \in Callers, NEW n \in CallerRecords, caller' = [caller EXCEPT ![c] = n],
         HasLock(c, caller[c].server), lock' = [lock EXCEPT ![caller[c].server] = Nobody],
         n.at \notin {"asks", "answered", "checked"}, UNCHANGED arrived,
         \/ UNCHANGED streams
         \/ streams' = [streams EXCEPT ![caller[c].server] = caller[c].from]
  PROVE  CacheTyped' /\ LockTyped' /\ Ordered'
<1> USE DEF StreamInv
<1> DEFINE s == caller[c].server
<1>1. caller'[c] = n /\ \A x \in Callers \ {c} : caller'[x] = caller[x]
  BY OneMoves
<1>2. /\ s \in EmbyServers /\ Nobody \notin Callers /\ arrived[s] \in Nat
      /\ caller[c].from \in Versions /\ caller[c].from \in Nat
  BY OfACaller, CallersAre, StreamBoundAssumption DEF VersionTyped, Versions
<1>3. /\ lock' \in [EmbyServers -> Callers \cup {Nobody}] /\ lock'[s] = Nobody
      /\ \A t \in EmbyServers : t # s => lock'[t] = lock[t]
  BY <1>2 DEF LockTyped
<1>4. lock[s] = c /\ \A x \in Callers \ {c} : ~HasLock(x, s)
  BY <1>2 DEF LockTyped
<1>5. \A t \in EmbyServers : ~HasLock(c, t)'
  BY <1>1 DEF HasLock
<1>6. \A x \in Callers \ {c}, t \in EmbyServers : HasLock(x, t)' <=> HasLock(x, t)
  BY <1>1 DEF HasLock
<1>7. \A t \in EmbyServers : t # s => ~HasLock(c, t)
  BY DEF HasLock
<1>8. /\ streams' \in [EmbyServers -> Versions \cup {NoStreams}]
      /\ \A t \in EmbyServers : t # s => streams'[t] = streams[t]
      /\ streams'[s] = streams[s] \/ streams'[s] = caller[c].from
  BY <1>2 DEF CacheTyped
<1>9. LockTyped'
  <2>1. ASSUME NEW t \in EmbyServers, NEW x \in Callers PROVE lock'[t] = x <=> HasLock(x, t)'
    <3>1. lock[t] = x <=> HasLock(x, t)
      BY DEF LockTyped
    <3>2. CASE t = s
      <4>1. lock'[t] # x
        BY <1>2, <1>3, <3>2
      <4>2. CASE x = c
        BY <1>5, <4>1, <4>2 DEF HasLock
      <4>3. CASE x # c
        BY <1>4, <1>6, <3>2, <4>1, <4>3
      <4> QED
        BY <4>2, <4>3
    <3>3. CASE t # s /\ x = c
      BY <1>3, <1>5, <1>7, <3>1, <3>3 DEF HasLock
    <3>4. CASE t # s /\ x # c
      BY <1>3, <1>6, <3>1, <3>4
    <3> QED
      BY <3>2, <3>3, <3>4
  <2> QED
    BY <1>3, <2>1 DEF LockTyped
<1>10. caller[c].from <= arrived[s]
  BY <1>2 DEF Ordered
<1> HIDE DEF s
<1>11. Ordered'
  <2>1. ASSUME NEW t \in EmbyServers, streams'[t] # NoStreams PROVE streams'[t] <= arrived[t]
    BY <1>8, <1>10, <2>1 DEF Ordered
  <2>2. ASSUME NEW t \in EmbyServers, NEW x \in Callers, HasLock(x, t)'
        PROVE  /\ caller'[x].from <= arrived[t]
               /\ streams'[t] # NoStreams => streams'[t] <= caller'[x].from
    <3>1. x # c /\ HasLock(x, t)
      <4>1. x # c
        BY <1>5, <2>2
      <4> QED
        BY <1>6, <2>2, <4>1
    <3>2. t # s
      BY <1>4, <3>1
    <3>3. caller'[x] = caller[x] /\ streams'[t] = streams[t]
      BY <1>1, <1>8, <3>1, <3>2
    <3> QED
      BY <3>1, <3>3 DEF Ordered
  <2> QED
    BY <2>1, <2>2 DEF Ordered
<1> QED
  BY <1>8, <1>9, <1>11 DEF CacheTyped

LEMMA AnsweredKeeps ==
  ASSUME StreamInv, NEW d \in 1..Len(disp), NEW w \in Drainers, Answered(d, w)
  PROVE  StreamInv'
<1> USE DEF StreamInv
<1> DEFINE c == <<d, w>>
           at == IF IsCurrent(d) THEN "checked" ELSE "drains"
           n == [caller[c] EXCEPT !.at = at]
<1>1. /\ UNCHANGED <<current, accepting, disp, seen, streams, stale, arrived, signalled>>
      /\ UNCHANGED eventVars
      /\ caller[c].at = "asks" /\ caller' = [caller EXCEPT ![c] = n]
  BY DEF Answered, Goto, lifeOfStreams, eventVars
<1>2. \/ at = "checked" /\ UNCHANGED lock
      \/ at = "drains" /\ lock' = [lock EXCEPT ![caller[c].server] = Nobody]
  BY DEF Answered
<1> HIDE DEF at
<1>3. c \in Callers /\ caller[c] \in CallerRecords /\ n \in CallerRecords /\ n.at = at
      /\ n.server = caller[c].server /\ n.from = caller[c].from
  BY <1>2, OfADispatcher DEF CallerRecords, Places
<1> HIDE DEF n
<1>4. CallerTyped'
  BY <1>1, <1>3, OneMoves
<1>5. VersionTyped' /\ CacheTyped'
  BY <1>1, PartsStay
<1>6. DispTyped' /\ Queues' /\ Hands' /\ DispGenerations'
  BY <1>1, <1>2, <1>3, WorkerMoves DEF Busy
<1>7. LockTyped' /\ Ordered'
  <2>1. CASE at = "checked" /\ UNCHANGED lock
    BY <1>1, <1>3, <2>1, CallerMoves
  <2>2. CASE at = "drains" /\ lock' = [lock EXCEPT ![caller[c].server] = Nobody]
    <3>1. HasLock(c, caller[c].server)
      BY <1>1 DEF HasLock
    <3> QED
      BY <1>1, <1>3, <2>2, <3>1, LetsTheLockGo
  <2> QED
    BY <1>2, <2>1, <2>2
<1>8. SignalKept'
  BY <1>1, <1>3, WaitersStay
<1> QED
  BY <1>4, <1>5, <1>6, <1>7, <1>8

LEMMA WritesKeeps ==
  ASSUME StreamInv, NEW d \in 1..Len(disp), NEW w \in Drainers, Writes(d, w)
  PROVE  StreamInv'
<1> USE DEF StreamInv
<1> DEFINE c == <<d, w>>
           n == [caller[c] EXCEPT !.at = "drains"]
<1>1. /\ UNCHANGED <<current, accepting, disp, seen, arrived, signalled>> /\ UNCHANGED eventVars
      /\ caller[c].at = "checked" /\ caller' = [caller EXCEPT ![c] = n]
      /\ \/ UNCHANGED streams
         \/ streams' = [streams EXCEPT ![caller[c].server] = caller[c].from]
      /\ stale' = [stale EXCEPT ![caller[c].server] = 0]
      /\ lock' = [lock EXCEPT ![caller[c].server] = Nobody]
  BY DEF Writes, Written, Goto, lifeOfStreams, eventVars
<1>2. c \in Callers /\ caller[c] \in CallerRecords /\ n \in CallerRecords /\ n.at = "drains"
      /\ n.server = caller[c].server /\ n.from = caller[c].from
  BY OfADispatcher DEF CallerRecords, Places
<1> HIDE DEF n
<1>3. CallerTyped'
  BY <1>1, <1>2, OneMoves
<1>4. VersionTyped'
  <2>1. 0 \in Versions
    BY StreamBoundAssumption DEF Versions
  <2>2. stale' \in [EmbyServers -> Versions]
    BY <1>1, <2>1 DEF VersionTyped
  <2> QED
    BY <1>1, <2>2 DEF VersionTyped
<1>5. DispTyped' /\ Queues' /\ Hands' /\ DispGenerations'
  BY <1>1, <1>2, WorkerMoves DEF Busy
<1>6. CacheTyped' /\ LockTyped' /\ Ordered'
  <2>1. HasLock(c, caller[c].server)
    BY <1>1 DEF HasLock
  <2> QED
    BY <1>1, <1>2, <2>1, LetsTheLockGo
<1>7. SignalKept'
  BY <1>1, <1>2, WaitersStay
<1> QED
  BY <1>3, <1>4, <1>5, <1>6, <1>7

\* A reader is none of the workers.
LEMMA ReaderMoves ==
  ASSUME StreamInv, NEW r \in StreamReaders, NEW n \in CallerRecords,
         caller' = [caller EXCEPT ![r] = n], UNCHANGED <<disp, current, accepting>>
  PROVE  DispTyped' /\ CallerTyped' /\ Queues' /\ Hands' /\ DispGenerations'
<1> USE DEF StreamInv
<1>1. r \in Callers
  BY CallersAre
<1>2. CallerTyped' /\ \A x \in Callers \ {r} : caller'[x] = caller[x]
  BY <1>1, OneMoves
<1>3. \A e \in Dispatchers, v \in Drainers : caller'[<<e, v>>] = caller[<<e, v>>]
  BY <1>2, CallersAre
<1>4. \A e \in 1..Len(disp) : e \in Dispatchers
  BY OfADispatcher
<1>5. Hands'
  BY <1>3, <1>4, HandsStay DEF Busy
<1>6. DispGenerations'
  BY <1>3 DEF DispGenerations
<1> QED
  BY <1>2, <1>5, <1>6, PartsStay

LEMMA ReaderBeginsKeeps ==
  ASSUME StreamInv, NEW r \in StreamReaders, NEW s \in EmbyServers, ReaderBegins(r, s)
  PROVE  StreamInv'
<1> USE DEF StreamInv
<1> DEFINE n == [caller[r] EXCEPT !.at = "waits", !.server = s]
<1>1. /\ UNCHANGED <<current, accepting, disp, seen, arrived, signalled, streams, lock>>
      /\ UNCHANGED eventVars /\ UNCHANGED <<seen, stale>>
      /\ caller[r].at = "rests" /\ caller' = [caller EXCEPT ![r] = n]
  BY DEF ReaderBegins, lifeOfStreams, eventVars, cacheVars
<1>2. r \in Callers /\ caller[r] \in CallerRecords
  BY CallersAre, OfACaller
<1>3. n \in CallerRecords /\ n.at = "waits"
  BY <1>2 DEF CallerRecords, Places
<1> HIDE DEF n
<1>4. DispTyped' /\ CallerTyped' /\ Queues' /\ Hands' /\ DispGenerations'
  BY <1>1, <1>3, ReaderMoves
<1>5. VersionTyped' /\ CacheTyped'
  BY <1>1, PartsStay
<1>6. SignalKept'
  BY <1>1, <1>2, <1>3, WaitersStay
<1>7. LockTyped' /\ Ordered'
  <2>1. caller'[r] = n /\ \A x \in Callers \ {r} : caller'[x] = caller[x]
    BY <1>1, <1>2, <1>3, OneMoves
  <2>2. \A x \in Callers, t \in EmbyServers : HasLock(x, t)' <=> HasLock(x, t)
    BY <1>1, <1>3, <2>1 DEF HasLock
  <2>3. \A x \in Callers, t \in EmbyServers : HasLock(x, t) => caller'[x] = caller[x]
    BY <1>1, <2>1 DEF HasLock
  <2>4. LockTyped'
    BY <1>1, <2>2 DEF LockTyped
  <2>5. Ordered'
    BY <1>1, <2>2, <2>3 DEF Ordered
  <2> QED
    BY <2>4, <2>5
<1> QED
  BY <1>4, <1>5, <1>6, <1>7

LEMMA ReaderLocksKeeps ==
  ASSUME StreamInv, NEW r \in StreamReaders, ReaderLocks(r)
  PROVE  StreamInv'
<1> USE DEF StreamInv
<1> DEFINE s == caller[r].server
           a == arrived[s]
           n == [caller[r] EXCEPT !.at = "asks", !.from = a]
           m == [caller[r] EXCEPT !.at = "rests"]
<1>1. /\ UNCHANGED <<current, accepting, disp, seen, arrived, signalled, streams, stale>>
      /\ UNCHANGED eventVars
      /\ caller[r].at = "waits" /\ lock[s] = Nobody
      /\ \/ lock' = [lock EXCEPT ![s] = r] /\ caller' = [caller EXCEPT ![r] = n]
         \/ UNCHANGED lock /\ caller' = [caller EXCEPT ![r] = m]
  BY DEF ReaderLocks, LockFree, Goto, lifeOfStreams, eventVars
<1>2. r \in Callers /\ caller[r] \in CallerRecords /\ s \in EmbyServers /\ a \in Versions
  BY CallersAre, OfACaller DEF VersionTyped
<1>3. /\ m \in CallerRecords /\ m.at = "rests" /\ m.server = s /\ m.from = caller[r].from
  BY <1>2 DEF CallerRecords, Places
<1>4. n \in CallerRecords /\ n.at = "asks" /\ n.server = s /\ n.from = a
  <2> HIDE DEF a
  <2> QED
    BY <1>2 DEF CallerRecords, Places
<1> HIDE DEF n, m
<1>5. /\ DispTyped' /\ CallerTyped' /\ Queues' /\ Hands' /\ DispGenerations' /\ VersionTyped'
      /\ CacheTyped' /\ SignalKept'
  <2>1. PICK k \in CallerRecords : caller' = [caller EXCEPT ![r] = k]
    BY <1>1, <1>3, <1>4
  <2>2. DispTyped' /\ CallerTyped' /\ Queues' /\ Hands' /\ DispGenerations'
    BY <1>1, <2>1, ReaderMoves
  <2>3. SignalKept'
    BY <1>1, <1>2, <2>1, WaitersStay
  <2> QED
    BY <1>1, <2>2, <2>3, PartsStay
<1>6. CASE lock' = [lock EXCEPT ![s] = r] /\ caller' = [caller EXCEPT ![r] = n]
  <2>1. LockTyped' /\ Ordered'
    BY <1>1, <1>2, <1>4, <1>6, GetsTheLock
  <2> QED
    BY <1>5, <2>1
<1>7. CASE UNCHANGED lock /\ caller' = [caller EXCEPT ![r] = m]
  <2>1. LockTyped' /\ Ordered'
    BY <1>1, <1>2, <1>3, <1>7, CallerMoves
  <2> QED
    BY <1>5, <2>1
<1> QED
  BY <1>1, <1>6, <1>7

LEMMA ReaderWritesKeeps ==
  ASSUME StreamInv, NEW r \in StreamReaders, ReaderWrites(r)
  PROVE  StreamInv'
<1> USE DEF StreamInv
<1> DEFINE n == [caller[r] EXCEPT !.at = "rests"]
<1>1. /\ UNCHANGED <<current, accepting, disp, seen, arrived, signalled>>
      /\ caller[r].at = "asks" /\ caller' = [caller EXCEPT ![r] = n]
      /\ \/ UNCHANGED streams
         \/ streams' = [streams EXCEPT ![caller[r].server] = caller[r].from]
      /\ stale' = [stale EXCEPT ![caller[r].server] = 0]
      /\ lock' = [lock EXCEPT ![caller[r].server] = Nobody]
  BY DEF ReaderWrites, Written, Goto, lifeOfStreams, eventVars
<1>2. r \in Callers /\ caller[r] \in CallerRecords
  BY CallersAre, OfACaller
<1>3. n \in CallerRecords /\ n.at = "rests"
  BY <1>2 DEF CallerRecords, Places
<1> HIDE DEF n
<1>4. VersionTyped'
  <2>1. 0 \in Versions
    BY StreamBoundAssumption DEF Versions
  <2>2. stale' \in [EmbyServers -> Versions]
    BY <1>1, <2>1 DEF VersionTyped
  <2> QED
    BY <1>1, <2>2 DEF VersionTyped
<1>5. DispTyped' /\ CallerTyped' /\ Queues' /\ Hands' /\ DispGenerations'
  BY <1>1, <1>3, ReaderMoves
<1>6. CacheTyped' /\ LockTyped' /\ Ordered'
  <2>1. HasLock(r, caller[r].server)
    BY <1>1 DEF HasLock
  <2> QED
    BY <1>1, <1>2, <1>3, <2>1, LetsTheLockGo
<1>7. SignalKept'
  BY <1>1, <1>2, <1>3, WaitersStay
<1> QED
  BY <1>4, <1>5, <1>6, <1>7

LEMMA OpenDispatcherKeeps == ASSUME StreamInv, OpenDispatcher PROVE StreamInv'
<1> USE DEF StreamInv
<1> DEFINE d == Len(disp) + 1
<1>1. /\ UNCHANGED <<arrived, seen, streams, stale, lock>>
      /\ current = 0 /\ Len(disp) < MaxDispatchers
      /\ disp' = Append(disp, NewDispatcher) /\ current' = d /\ accepting' = TRUE
      /\ caller' = [c \in Callers |-> IF c \in Of(d) THEN Resting ELSE caller[c]]
      /\ signalled' = [s \in EmbyServers |-> 0]
  BY DEF OpenDispatcher, cacheVars
<1>2. Len(disp) \in Nat /\ disp \in Seq(DispRecords) /\ MaxDispatchers \in Nat
  BY StreamBoundAssumption DEF DispTyped
<1>3. /\ disp' \in Seq(DispRecords) /\ Len(disp') = d /\ disp'[d] = NewDispatcher
      /\ \A e \in 1..Len(disp) : disp'[e] = disp[e]
  BY <1>1, <1>2, NewIs
<1>4. DispTyped'
  BY <1>1, <1>2, <1>3 DEF DispTyped
<1>5. Queues'
  BY <1>2, <1>3, NewIs DEF Queues
<1>6. d \in Dispatchers /\ \A e \in 1..Len(disp) : e \in Dispatchers
  BY <1>1, <1>2 DEF Dispatchers
<1>7. /\ \A w \in Drainers : caller'[<<d, w>>] = Resting
      /\ \A c \in Callers \ Of(d) : caller'[c] = caller[c]
      /\ \A e \in Dispatchers \ {d}, w \in Drainers : caller'[<<e, w>>] = caller[<<e, w>>]
  BY <1>1, <1>2, <1>6, CallersAre DEF Of
<1>8. \A w \in Drainers : caller[<<d, w>>].at = "none"
  BY <1>2, <1>6 DEF DispGenerations
<1>9. CallerTyped'
  BY <1>1, RestingTyped DEF CallerTyped
<1>10. VersionTyped' /\ CacheTyped'
  <2>1. signalled' \in [EmbyServers -> Versions]
    BY <1>1, StreamBoundAssumption DEF Versions
  <2> QED
    BY <1>1, <2>1 DEF VersionTyped, CacheTyped
<1>11. LockTyped' /\ Ordered'
  <2>1. \A x \in Callers, t \in EmbyServers : HasLock(x, t)' <=> HasLock(x, t)
    <3> SUFFICES ASSUME NEW x \in Callers, NEW t \in EmbyServers PROVE HasLock(x, t)' <=> HasLock(x, t)
      OBVIOUS
    <3>1. CASE x \in Of(d)
      BY <1>7, <1>8, <3>1, RestingTyped DEF HasLock, Of
    <3>2. CASE x \notin Of(d)
      BY <1>7, <3>2 DEF HasLock
    <3> QED
      BY <3>1, <3>2
  <2>2. ASSUME NEW x \in Callers, NEW t \in EmbyServers, HasLock(x, t) PROVE caller'[x] = caller[x]
    <3>1. x \notin Of(d)
      BY <1>8, <2>2 DEF HasLock, Of
    <3> QED
      BY <1>7, <3>1
  <2>3. LockTyped'
    BY <1>1, <2>1 DEF LockTyped
  <2>4. Ordered'
    BY <1>1, <2>1, <2>2 DEF Ordered
  <2> QED
    BY <2>3, <2>4
<1>12. Hands'
  <2> SUFFICES ASSUME NEW e \in 1..Len(disp'), NEW v \in Drainers, Busy(<<e, v>>)'
               PROVE  /\ caller'[<<e, v>>].server \in disp'[e].running \ Waiting(disp'[e])
                      /\ \A u \in Drainers :
                           Busy(<<e, u>>)' /\ caller'[<<e, u>>].server = caller'[<<e, v>>].server
                             => u = v
    BY DEF Hands, Busy
  <2>1. e # d
    BY <1>7, RestingTyped DEF Busy
  <2>2. e \in 1..Len(disp) /\ e \in Dispatchers \ {d}
    BY <1>2, <1>3, <1>6, <2>1
  <2> HIDE DEF d
  <2>3. \A u \in Drainers : Busy(<<e, u>>)' <=> Busy(<<e, u>>)
    BY <1>7, <2>2 DEF Busy
  <2>4. Busy(<<e, v>>)
    BY <2>3
  <2> QED
    BY <1>3, <1>7, <2>2, <2>3, <2>4 DEF Hands
<1>13. DispGenerations'
  <2>1. current' \in {0, Len(disp')} /\ accepting' \in BOOLEAN /\ current' # 0 /\ ~disp'[current'].closed
    BY <1>1, <1>2, <1>3, NewIs
  <2>2. ASSUME NEW e \in Dispatchers, NEW w \in Drainers
        PROVE  /\ e > Len(disp') <=> caller'[<<e, w>>].at = "none"
               /\ e <= Len(disp') /\ e # current' => caller'[<<e, w>>].at = "gone"
    <3>1. CASE e = d
      <4>1. caller'[<<e, w>>].at = "rests"
        BY <1>7, <3>1, RestingTyped
      <4>2. ~(e > Len(disp')) /\ e = current'
        BY <1>1, <1>2, <1>3, <3>1
      <4> QED
        BY <4>1, <4>2
    <3>2. CASE e # d
      <4>1. /\ e > Len(disp) <=> caller[<<e, w>>].at = "none"
            /\ e <= Len(disp) /\ e # current => caller[<<e, w>>].at = "gone"
        BY DEF DispGenerations
      <4>2. e \in Nat /\ e # 0 /\ caller'[<<e, w>>] = caller[<<e, w>>]
        BY <1>7, <3>2 DEF Dispatchers
      <4> QED
        BY <1>1, <1>2, <1>3, <3>2, <4>1, <4>2
    <3> QED
      BY <3>1, <3>2
  <2> QED
    BY <2>1, <2>2 DEF DispGenerations
<1>14. SignalKept'
  <2>1. \A s \in EmbyServers : seen'[s] \in Nat /\ arrived'[s] \in Nat /\ signalled'[s] = 0
    BY <1>1, StreamBoundAssumption DEF VersionTyped, Versions
  <2> QED
    BY <2>1 DEF SignalKept
<1> QED
  BY <1>4, <1>5, <1>9, <1>10, <1>11, <1>12, <1>13, <1>14

LEMMA RetireKeeps == ASSUME StreamInv, Retire PROVE StreamInv'
<1> USE DEF StreamInv
<1>1. /\ UNCHANGED <<current, disp, caller, arrived, signalled, seen, streams, stale, lock>>
      /\ UNCHANGED eventVars /\ accepting' = FALSE
  BY DEF Retire, eventVars, cacheVars
<1>2. /\ DispTyped' /\ CallerTyped' /\ VersionTyped' /\ CacheTyped' /\ LockTyped' /\ Queues'
      /\ Hands' /\ Ordered'
  BY <1>1, PartsStay
<1>3. DispGenerations'
  BY <1>1, GenerationsStay
<1>4. SignalKept'
  BY <1>1 DEF SignalKept
<1> QED
  BY <1>2, <1>3, <1>4

LEMMA CloseDispatcherKeeps == ASSUME StreamInv, CloseDispatcher PROVE StreamInv'
<1> USE DEF StreamInv
<1> DEFINE q == disp[current]
           k == [q EXCEPT !.pending = {}, !.ready = <<>>, !.closed = TRUE]
<1>1. /\ UNCHANGED <<current, accepting, caller, arrived, signalled, seen, streams, stale, lock>>
      /\ UNCHANGED eventVars /\ ~accepting /\ current # 0 /\ disp' = [disp EXCEPT ![current] = k]
  BY DEF CloseDispatcher, lifeOfStreams, eventVars, cacheVars
<1>2. current \in 1..Len(disp)
  BY <1>1 DEF DispGenerations, DispTyped
<1>3. q \in DispRecords /\ QueueOf(q)
  BY <1>2, OfADispatcher
<1> HIDE DEF q
<1>4. k \in DispRecords /\ QueueOf(k) /\ k.running = q.running /\ Waiting(k) = {}
  BY <1>3, ClosedIs
<1> HIDE DEF k
<1>5. /\ DispTyped' /\ Len(disp') = Len(disp) /\ disp'[current] = k
      /\ \A e \in 1..Len(disp) \ {current} : disp'[e] = disp[e]
  BY <1>1, <1>2, <1>4, OneUpdated
<1>6. CallerTyped' /\ VersionTyped' /\ CacheTyped' /\ LockTyped' /\ Ordered'
  BY <1>1, PartsStay
<1>7. Queues'
  BY <1>4, <1>5 DEF Queues
<1>8. Hands'
  <2> SUFFICES ASSUME NEW e \in 1..Len(disp), NEW v \in Drainers, Busy(<<e, v>>)
               PROVE  /\ caller[<<e, v>>].server \in disp'[e].running \ Waiting(disp'[e])
                      /\ \A u \in Drainers :
                           Busy(<<e, u>>) /\ caller[<<e, u>>].server = caller[<<e, v>>].server
                             => u = v
    <3>1. caller' = caller
      BY <1>1
    <3> QED
      BY ZenonT(40), <1>5, <3>1 DEF Hands, Busy
  <2>1. /\ caller[<<e, v>>].server \in disp[e].running \ Waiting(disp[e])
        /\ \A u \in Drainers :
             Busy(<<e, u>>) /\ caller[<<e, u>>].server = caller[<<e, v>>].server => u = v
    BY DEF Hands
  <2>2. disp'[e].running = disp[e].running /\ Waiting(disp'[e]) \subseteq Waiting(disp[e])
    BY <1>4, <1>5 DEF q
  <2> QED
    BY <2>1, <2>2
<1>9. DispGenerations'
  <2>1. accepting' \in BOOLEAN
    BY <1>1 DEF DispGenerations
  <2> QED
    BY <1>1, <1>5, <2>1, GenerationsStay
<1>10. SignalKept'
  BY <1>1 DEF SignalKept
<1> QED
  BY <1>5, <1>6, <1>7, <1>8, <1>9, <1>10

LEMMA ForgetDispatcherKeeps == ASSUME StreamInv, ForgetDispatcher PROVE StreamInv'
<1> USE DEF StreamInv
<1>1. /\ UNCHANGED <<accepting, disp, caller, arrived, signalled, seen, streams, stale, lock>>
      /\ UNCHANGED eventVars /\ current' = 0 /\ ~accepting
      /\ \A w \in Drainers : caller[<<current, w>>].at = "gone"
  BY DEF ForgetDispatcher, Stopped, Of, eventVars, cacheVars
<1>2. /\ DispTyped' /\ CallerTyped' /\ VersionTyped' /\ CacheTyped' /\ LockTyped' /\ Queues'
      /\ Hands' /\ Ordered'
  BY <1>1, PartsStay
<1>3. DispGenerations'
  <2>1. accepting' \in BOOLEAN
    BY <1>1 DEF DispGenerations
  <2> QED
    BY <1>1, <2>1, GenerationsStay
<1>4. SignalKept'
  BY <1>1 DEF SignalKept
<1> QED
  BY <1>2, <1>3, <1>4

LEMMA InitStreamInv == StreamInit => StreamInv
<1> SUFFICES ASSUME StreamInit PROVE StreamInv
  OBVIOUS
<1> DEFINE none == [Resting EXCEPT !.at = "none"]
<1>1. /\ current = 0 /\ accepting = FALSE /\ disp = <<>>
      /\ caller = [c \in Callers |-> IF c \in StreamReaders THEN Resting ELSE none]
      /\ arrived = [s \in EmbyServers |-> 0] /\ signalled = [s \in EmbyServers |-> 0]
      /\ seen = [s \in EmbyServers |-> 0] /\ stale = [s \in EmbyServers |-> 0]
      /\ streams = [s \in EmbyServers |-> NoStreams] /\ lock = [s \in EmbyServers |-> Nobody]
  BY DEF StreamInit
<1>2. Resting \in CallerRecords /\ Resting.at = "rests" /\ none \in CallerRecords /\ none.at = "none"
  BY RestingTyped
<1> HIDE DEF none
<1>3. 0 \in Versions /\ MaxDispatchers \in Nat
  BY StreamBoundAssumption DEF Versions
<1>4. DispTyped /\ Len(disp) = 0
  BY <1>1, <1>3 DEF DispTyped
<1>5. CallerTyped
  BY <1>1, <1>2 DEF CallerTyped
<1>6. VersionTyped /\ CacheTyped
  BY <1>1, <1>3 DEF VersionTyped, CacheTyped
<1>7. \A c \in Callers : caller[c].at \in {"rests", "none"}
  BY <1>1, <1>2
<1>8. LockTyped /\ Ordered
  <2>1. \A c \in Callers, s \in EmbyServers : ~HasLock(c, s)
    BY <1>7 DEF HasLock
  <2> QED
    BY <1>1, <2>1, CallersAre DEF LockTyped, Ordered
<1>9. Queues /\ Hands
  BY <1>4 DEF Queues, Hands
<1>10. DispGenerations
  <2> SUFFICES ASSUME NEW d \in Dispatchers, NEW w \in Drainers
               PROVE  d > 0 /\ caller[<<d, w>>].at = "none"
    <3>1. accepting \in BOOLEAN /\ ~accepting /\ current = 0 /\ Len(disp) = 0
      BY <1>1, <1>4
    <3>2. \A d \in Dispatchers : d \in Nat /\ d > 0
      BY <1>3 DEF Dispatchers
    <3> QED
      BY <3>1, <3>2 DEF DispGenerations
  <2> QED
    BY <1>1, <1>2, CallersAre DEF Dispatchers
<1>11. SignalKept
  BY <1>1 DEF SignalKept
<1> QED
  BY <1>4, <1>5, <1>6, <1>8, <1>9, <1>10, <1>11 DEF StreamInv

LEMMA NextStreamInv == StreamInv /\ [StreamNext]_streamVars => StreamInv'
<1> SUFFICES ASSUME StreamInv, [StreamNext]_streamVars PROVE StreamInv'
  OBVIOUS
<1>1. ASSUME NEW s \in EmbyServers, SessionsArrive(s) \/ PlaybackArrives(s) PROVE StreamInv'
  BY <1>1, SessionsArriveKeeps, PlaybackArrivesKeeps
<1>2. ASSUME NEW d \in DOMAIN disp, NEW w \in Drainers, DrainerStep(d, w) PROVE StreamInv'
  <2>1. d \in 1..Len(disp)
    BY DEF StreamInv, DispTyped
  <2> QED
    BY <1>2, <2>1, TakeServerKeeps, WorkerLeavesKeeps, DrainKeeps, CalledKeeps, RefreshesKeeps,
       AnsweredKeeps, WritesKeeps DEF DrainerStep
<1>3. ASSUME NEW r \in StreamReaders, ReaderStep(r) \/ \E s \in EmbyServers : ReaderBegins(r, s)
      PROVE  StreamInv'
  BY <1>3, ReaderBeginsKeeps, ReaderLocksKeeps, ReaderWritesKeeps DEF ReaderStep
<1>4. CASE OpenDispatcher
  BY <1>4, OpenDispatcherKeeps
<1>5. CASE Retire
  BY <1>5, RetireKeeps
<1>6. CASE CloseDispatcher
  BY <1>6, CloseDispatcherKeeps
<1>7. CASE ForgetDispatcher
  BY <1>7, ForgetDispatcherKeeps
<1>8. CASE UNCHANGED streamVars
  <2>1. /\ UNCHANGED <<current, accepting, disp, caller, arrived, seen, stale, streams, lock>>
        /\ UNCHANGED eventVars
    BY <1>8 DEF streamVars, lifeOfStreams, cacheVars, eventVars
  <2> QED
    BY <2>1, PartsStay DEF StreamInv
<1> QED
  BY <1>1, <1>2, <1>3, <1>4, <1>5, <1>6, <1>7, <1>8 DEF StreamNext

LEMMA StreamAlways == StreamSpec => []StreamInv
<1> QED
  BY InitStreamInv, NextStreamInv, PTL DEF StreamSpec

\* As many servers at most wait in a dispatcher's queue as are with it (_ready and _running).
LEMMA QueueNoLonger == \A k \in DispRecords : QueueOf(k) => Len(k.ready) <= Cardinality(k.running)
<1> SUFFICES ASSUME NEW k \in DispRecords, QueueOf(k) PROVE Len(k.ready) <= Cardinality(k.running)
  OBVIOUS
<1> DEFINE n == Len(k.ready)
<1>1. k.ready \in Seq(EmbyServers) /\ n \in Nat
  BY DEF DispRecords
<1>2. IsFiniteSet(1..n) /\ Cardinality(1..n) = n
  BY SMTT(40), <1>1, FS_Interval
<1>3. k.ready \in Injection(1..n, k.running)
  BY <1>1 DEF QueueOf, Waiting, Injection, IsInjective
<1> QED
  BY <1>2, <1>3, FS_Injection DEF QueueOf

\* Type correctness of the dispatchers, of the callers and of the cache (StreamTypeOK of
\* SessionStreams: session_refresh_dispatcher.py, streams.py).
THEOREM StreamTypeCorrect == StreamSpec => []StreamTypeOK
<1>1. StreamInv => StreamTypeOK
  <2> SUFFICES ASSUME StreamInv PROVE StreamTypeOK
    OBVIOUS
  <2> USE DEF StreamInv
  <2>1. /\ current \in 0..MaxDispatchers /\ accepting \in BOOLEAN
        /\ DOMAIN disp = 1..Len(disp) /\ DOMAIN disp \subseteq Dispatchers
    BY StreamBoundAssumption DEF DispGenerations, DispTyped, Dispatchers
  <2>2. ASSUME NEW d \in DOMAIN disp
        PROVE  /\ disp[d].pending \subseteq EmbyServers /\ disp[d].running \subseteq EmbyServers
               /\ disp[d].closed \in BOOLEAN /\ disp[d].ready \in Seq(EmbyServers)
               /\ Len(disp[d].ready) <= Cardinality(disp[d].running)
    <3>1. disp[d] \in DispRecords /\ QueueOf(disp[d])
      BY <2>1, OfADispatcher
    <3>2. Len(disp[d].ready) <= Cardinality(disp[d].running)
      BY <3>1, QueueNoLonger
    <3> QED
      BY <3>1, <3>2 DEF DispRecords
  <2>3. /\ caller \in [Callers -> [at : Places, server : EmbyServers, from : Versions]]
        /\ arrived \in [EmbyServers -> Versions] /\ signalled \in [EmbyServers -> Versions]
        /\ seen \in [EmbyServers -> Versions] /\ stale \in [EmbyServers -> Versions]
        /\ streams \in [EmbyServers -> Versions \cup {NoStreams}]
    BY DEF CallerTyped, CallerRecords, VersionTyped, CacheTyped
  <2>4. /\ lock \in [EmbyServers -> Callers \cup {Nobody}]
        /\ \A s \in EmbyServers, c \in Callers :
             lock[s] = c <=> caller[c].server = s /\ caller[c].at \in {"asks", "answered", "checked"}
    BY DEF LockTyped, HasLock
  <2> QED
    BY <2>1, <2>2, <2>3, <2>4, Zenon DEF StreamTypeOK, Places
<1> QED
  BY <1>1, StreamAlways, PTL

\* A burst of Sessions events is coalesced and none is lost: SessionRefreshDispatcher lets a
\* server go only when Emby was asked after the last event it had accepted for it.
THEOREM NoSignalLost == StreamSpec => []SignalSeen
<1>1. StreamInv => SignalSeen
  <2> SUFFICES ASSUME StreamInv, accepting, NEW s \in EmbyServers, s \notin disp[current].running
               PROVE  signalled[s] <= seen[s]
    BY DEF SignalSeen
  <2>1. current \in 1..Len(disp)
    BY DEF StreamInv, DispGenerations, DispTyped
  <2>2. disp[current].pending \subseteq disp[current].running
    BY <2>1, OfADispatcher DEF QueueOf
  <2>3. ASSUME NEW w \in Drainers, caller[<<current, w>>].at \in {"called", "waits"}
        PROVE  caller[<<current, w>>].server # s
    BY <2>1, <2>3 DEF StreamInv, Hands, Busy
  <2>4. ~OnItsWay(s)
    BY <2>2, <2>3 DEF OnItsWay
  <2> QED
    BY <2>4 DEF StreamInv, SignalKept
<1> QED
  BY <1>1, StreamAlways, PTL

\* The cache of a server only advances, and only a worker of the last dispatcher writes it
\* (refresh_server under _refresh_locks, is_current before the write).
THEOREM CacheNeverGoesBack == StreamSpec => CacheOnlyAdvances
<1> DEFINE Advances ==
      /\ \A s \in EmbyServers : streams[s] # NoStreams => streams'[s] >= streams[s]
      /\ \A d \in Dispatchers, w \in Drainers : Writes(d, w) => d = Len(disp)
<1>1. StreamInv /\ [StreamNext]_streamVars => [Advances]_streamVars
  <2> SUFFICES ASSUME StreamInv, StreamNext PROVE Advances
    OBVIOUS
  <2>1. /\ \A c \in Callers : caller[c].from \in Nat
        /\ \A s \in EmbyServers : streams[s] # NoStreams => streams[s] \in Nat
    BY OfACaller, StreamBoundAssumption DEF StreamInv, CacheTyped, Versions
  <2>2. ASSUME NEW c \in Callers, caller[c].at \in {"asks", "checked"}, Written(c),
               NEW s \in EmbyServers, streams[s] # NoStreams
        PROVE  streams'[s] >= streams[s]
    <3>1. CASE UNCHANGED streams
      BY <2>1, <2>2, <3>1
    <3>2. CASE streams' = [streams EXCEPT ![caller[c].server] = caller[c].from] /\ s # caller[c].server
      BY <2>1, <2>2, <3>2 DEF StreamInv, CacheTyped
    <3>3. CASE streams' = [streams EXCEPT ![caller[c].server] = caller[c].from] /\ s = caller[c].server
      <4>1. HasLock(c, s)
        BY <2>2, <3>3 DEF HasLock
      <4>2. streams[s] <= caller[c].from /\ streams'[s] = caller[c].from
        BY <2>2, <3>3, <4>1 DEF StreamInv, Ordered, CacheTyped
      <4> QED
        BY <2>1, <2>2, <4>2
    <3> QED
      BY <2>2, <3>1, <3>2, <3>3 DEF Written
  <2>3. \/ UNCHANGED streams
        \/ \E c \in Callers : caller[c].at \in {"asks", "checked"} /\ Written(c)
    <3>1. ASSUME NEW d \in DOMAIN disp, NEW w \in Drainers, Writes(d, w)
          PROVE  \E c \in Callers : caller[c].at \in {"asks", "checked"} /\ Written(c)
      <4>1. <<d, w>> \in Callers
        BY OfADispatcher DEF StreamInv, DispTyped
      <4> QED
        BY <3>1, <4>1 DEF Writes
    <3>2. ASSUME NEW r \in StreamReaders, ReaderWrites(r)
          PROVE  \E c \in Callers : caller[c].at \in {"asks", "checked"} /\ Written(c)
      BY <3>2, CallersAre DEF ReaderWrites
    <3>3. ASSUME NEW s \in EmbyServers, SessionsArrive(s) \/ PlaybackArrives(s) PROVE UNCHANGED streams
      BY <3>3 DEF SessionsArrive, PlaybackArrives, cacheVars
    <3>4. ASSUME NEW d \in DOMAIN disp, NEW w \in Drainers, DrainerStep(d, w), ~Writes(d, w)
          PROVE  UNCHANGED streams
      BY <3>4 DEF DrainerStep, TakeServer, WorkerLeaves, Drain, Called, Refreshes, Answered,
         cacheVars
    <3>5. ASSUME NEW r \in StreamReaders, ReaderLocks(r) \/ \E s \in EmbyServers : ReaderBegins(r, s)
          PROVE  UNCHANGED streams
      BY <3>5 DEF ReaderLocks, ReaderBegins, cacheVars
    <3>6. ASSUME OpenDispatcher \/ Retire \/ CloseDispatcher \/ ForgetDispatcher
          PROVE  UNCHANGED streams
      BY <3>6 DEF OpenDispatcher, Retire, CloseDispatcher, ForgetDispatcher, cacheVars
    <3> QED
      BY <3>1, <3>2, <3>3, <3>4, <3>5, <3>6, Zenon DEF StreamNext, ReaderStep
  <2>4. \A s \in EmbyServers : streams[s] # NoStreams => streams'[s] >= streams[s]
    <3>1. CASE UNCHANGED streams
      BY <2>1, <3>1
    <3>2. ASSUME NEW c \in Callers, caller[c].at \in {"asks", "checked"}, Written(c)
          PROVE  \A s \in EmbyServers : streams[s] # NoStreams => streams'[s] >= streams[s]
      BY <2>2, <3>2
    <3> QED
      BY <2>3, <3>1, <3>2
  <2>5. ASSUME NEW d \in Dispatchers, NEW w \in Drainers, Writes(d, w) PROVE d = Len(disp)
    <3>1. /\ d > Len(disp) <=> caller[<<d, w>>].at = "none"
          /\ d <= Len(disp) /\ d # current => caller[<<d, w>>].at = "gone"
          /\ current \in {0, Len(disp)} /\ Len(disp) \in Nat
      BY DEF StreamInv, DispGenerations, DispTyped
    <3>2. caller[<<d, w>>].at = "checked"
      BY <2>5 DEF Writes
    <3> QED
      BY <3>1, <3>2 DEF Dispatchers
  <2> QED
    BY <2>4, <2>5
<1> QED
  BY <1>1, StreamAlways, PTL DEF StreamSpec, CacheOnlyAdvances

(***************************************************************************)
(* The shared status.                                                      *)
(***************************************************************************)

\* A builder that has begun has read something, and none is of a generation to come.
Begun == \A p \in Producers :
  /\ producer[p].thread \in {"builds", "built"} => producer[p].from \in Payloads
  /\ producer[p].gen[1] <= globalGen
  /\ producer[p].gen[1] = globalGen => producer[p].gen[2] <= keyGen[producer[p].key]

\* What a producer of the current generation has read is what there is.
UpToDate == \A p \in Producers :
  producer[p].gen = Current(producer[p].key) /\ producer[p].thread \in {"builds", "built"}
  => producer[p].from = changes[producer[p].key]

\* The producer that a request waits for has not read anything older than it asks for.
ReadersWait == \A r \in Readers :
  LET p == reader[r].on
  IN  reader[r].at = "waits" =>
        /\ p \in Producers /\ producer[p].key = reader[r].key
        /\ producer[p].thread \in {"builds", "built"} => producer[p].from >= reader[r].need

\* Nothing is asked for that has not happened.
Asks == \A r \in Readers : reader[r].need <= changes[reader[r].key]

\* A builder of the current generation that is not over is the one in flight.
OneInFlight == \A p \in Producers :
  /\ producer[p].wrapper = "done" => producer[p].thread \in {"built", "raised"}
  /\ /\ admits /\ producer[p].gen = Current(producer[p].key)
     /\ producer[p].thread \in {"waits", "builds"}
     => inFlight[producer[p].key] = p /\ producer[p].wrapper = "runs"

\* What is in flight for a key is a producer of it.
OfItsKey == \A k \in SnapKeys : inFlight[k] # 0 => producer[inFlight[k]].key = k

ShutdownDrained == drained => ~admits

\* What concerns the producers, and what concerns the requests.
ProducersOK == Begun /\ UpToDate /\ OneInFlight /\ OfItsKey /\ ShutdownDrained /\ OneBuilder
ReadersOK == ReadersWait /\ Asks /\ AnswersAreFresh

SnapInv == SnapTypeOK /\ ProducersOK /\ ReadersOK

LEMMA InitSnapInv == SnapInit => SnapInv
<1> SUFFICES ASSUME SnapInit PROVE SnapInv
  OBVIOUS
<1>0. /\ admits = TRUE /\ globalGen = 1 /\ lifespans = 1 /\ drained = FALSE
      /\ keyGen = [k \in SnapKeys |-> 0] /\ changes = [k \in SnapKeys |-> 0]
      /\ cached = [k \in SnapKeys |-> NoPayload] /\ inFlight = [k \in SnapKeys |-> 0]
  BY DEF SnapInit
<1>1. producer \in Seq(ProducerRecord) /\ Len(producer) = 0 /\ Producers = {}
  BY EmptySeq DEF SnapInit, Producers
<1>2. reader \in [Readers -> ReaderRecord]
      /\ \A r \in Readers : reader[r].at = "idle" /\ reader[r].need = 0 /\ reader[r].on = 0
  BY SnapshotBoundAssumption DEF SnapInit, ReaderRecord, Payloads
<1>3. SnapTypeOK
  <2>1. admits \in BOOLEAN /\ drained \in BOOLEAN
    BY <1>0
  <2>2. globalGen \in Nat /\ lifespans \in 1..MaxLifespans /\ Len(producer) <= MaxProducers
    BY <1>0, <1>1, SnapshotBoundAssumption
  <2>3. keyGen \in [SnapKeys -> Nat] /\ changes \in [SnapKeys -> Payloads]
    BY <1>0, SnapshotBoundAssumption DEF Payloads
  <2>4. cached \in [SnapKeys -> Payloads \cup {NoPayload}]
        /\ inFlight \in [SnapKeys -> 0..Len(producer)]
    BY <1>0, <1>1
  <2>5. \A r \in Readers : reader[r].on \in 0..Len(producer)
    BY <1>1, <1>2
  <2> QED
    BY <1>1, <1>2, <2>1, <2>2, <2>3, <2>4, <2>5 DEF SnapTypeOK
<1>4. ProducersOK
  BY <1>0, <1>1 DEF ProducersOK, Begun, UpToDate, OneInFlight, OfItsKey, ShutdownDrained, OneBuilder
<1>5. ReadersOK
  BY <1>0, <1>2, <1>3 DEF ReadersOK, ReadersWait, Asks, AnswersAreFresh, SnapTypeOK, ReaderRecord
<1> QED
  BY <1>3, <1>4, <1>5 DEF SnapInv

-----------------------------------------------------------------------------
(* Facts about the sequence of producers *)

LEMMA ProducersAreNumbered ==
  ASSUME SnapTypeOK
  PROVE  /\ Len(producer) \in Nat /\ Producers = 1..Len(producer)
         /\ \A p \in Producers : producer[p] \in ProducerRecord
  BY LenProperties, ElementOfSeq DEF SnapTypeOK, Producers

\* One producer changes.
LEMMA OneProducerChanges ==
  ASSUME SnapTypeOK, NEW p \in Producers, NEW e \in ProducerRecord,
         producer' = [producer EXCEPT ![p] = e]
  PROVE  /\ producer' \in Seq(ProducerRecord) /\ Len(producer') = Len(producer)
         /\ Producers' = Producers
         /\ \A q \in Producers : producer'[q] = IF q = p THEN e ELSE producer[q]
<1>1. Producers = 1..Len(producer) /\ producer \in Seq(ProducerRecord)
  BY ProducersAreNumbered DEF SnapTypeOK
<1> QED
  BY <1>1, ExceptSeq DEF Producers

\* A producer is added.
LEMMA ProducerAdded ==
  ASSUME SnapTypeOK, NEW e \in ProducerRecord, producer' = Append(producer, e)
  PROVE  /\ producer' \in Seq(ProducerRecord) /\ Len(producer') = Len(producer) + 1
         /\ Producers' = Producers \cup {Len(producer) + 1}
         /\ producer'[Len(producer) + 1] = e
         /\ \A q \in Producers : producer'[q] = producer[q]
<1>1. Producers = 1..Len(producer) /\ Len(producer) \in Nat /\ producer \in Seq(ProducerRecord)
  BY ProducersAreNumbered DEF SnapTypeOK
<1>2. /\ producer' \in Seq(ProducerRecord) /\ Len(producer') = Len(producer) + 1
      /\ \A i \in 1..Len(producer) : producer'[i] = producer[i]
      /\ producer'[Len(producer) + 1] = e
  BY <1>1, AppendProperties
<1>3. Producers' = 1..(Len(producer) + 1)
  BY <1>2, LenProperties DEF Producers
<1> QED
  BY <1>1, <1>2, <1>3

\* The wrappers in flight are cancelled; nothing else about the producers changes.
LEMMA CancelledChanges ==
  ASSUME SnapTypeOK, Cancelled
  PROVE  /\ producer' \in Seq(ProducerRecord) /\ Len(producer') = Len(producer)
         /\ Producers' = Producers
         /\ \A q \in Producers :
              /\ producer'[q].key = producer[q].key /\ producer'[q].gen = producer[q].gen
              /\ producer'[q].from = producer[q].from
              /\ producer'[q].thread = producer[q].thread
              /\ producer'[q].wrapper = "done" => producer[q].wrapper = "done"
<1>1. /\ Producers = 1..Len(producer) /\ Len(producer) \in Nat
      /\ \A p \in Producers : producer[p] \in ProducerRecord
  BY ProducersAreNumbered
<1> DEFINE gone == {inFlight[k] : k \in SnapKeys} \ {0}
           cut(q) == IF q \in gone /\ producer[q].wrapper = "runs"
                     THEN [producer[q] EXCEPT !.wrapper = "cancelled"] ELSE producer[q]
<1>2. producer' = [q \in Producers |-> cut(q)]
  BY DEF Cancelled
<1>3. ASSUME NEW q \in Producers
      PROVE  /\ cut(q) \in ProducerRecord
             /\ cut(q).key = producer[q].key /\ cut(q).gen = producer[q].gen
             /\ cut(q).from = producer[q].from /\ cut(q).thread = producer[q].thread
             /\ cut(q).wrapper = "done" => producer[q].wrapper = "done"
  BY <1>1 DEF ProducerRecord
<1> HIDE DEF cut
<1>4. producer' \in [1..Len(producer) -> ProducerRecord]
  BY <1>1, <1>2, <1>3
<1>5. producer' \in Seq(ProducerRecord)
  BY <1>1, <1>4, SeqDef
<1>6. 1..Len(producer') = 1..Len(producer) /\ Len(producer') \in Nat
  BY <1>4, <1>5, LenProperties
<1>7. Len(producer') = Len(producer)
  BY <1>1, <1>6
<1>8. Producers' = Producers
  BY <1>1, <1>4 DEF Producers
<1> QED
  BY <1>2, <1>3, <1>5, <1>7, <1>8

-----------------------------------------------------------------------------
(* Every action keeps the invariant *)

\* A step of a request that leaves the producers alone.
LEMMA RequestStep ==
  ASSUME SnapInv, NEW r \in Readers, NEW e \in ReaderRecord,
         reader' = [reader EXCEPT ![r] = e],
         e.at # "waits", e.on = 0, e.need <= changes[e.key],
         e.at = "answered" => e.got >= e.need,
         UNCHANGED <<fenceVars, cached, inFlight, producer>>
  PROVE  SnapInv'
<1>1. SnapTypeOK'
  BY ProducersAreNumbered DEF SnapInv, SnapTypeOK, fenceVars
<1>2. ProducersOK'
  BY DEF SnapInv, ProducersOK, Begun, UpToDate, OneInFlight, OfItsKey, ShutdownDrained,
     OneBuilder, Current, Producers,
         fenceVars
<1>3. reader'[r] = e /\ \A q \in Readers \ {r} : reader'[q] = reader[q]
  BY DEF SnapInv, SnapTypeOK
<1>4. ReadersOK'
  BY <1>3 DEF SnapInv, ReadersOK, ReadersWait, Asks, AnswersAreFresh, Producers, fenceVars
<1> QED
  BY <1>1, <1>2, <1>4 DEF SnapInv

LEMMA AskKeeps == ASSUME SnapInv, NEW r \in Readers, NEW k \in SnapKeys, Ask(r, k) PROVE SnapInv'
<1> DEFINE asks == [at |-> "missed", key |-> k, need |-> changes[k], on |-> 0, got |-> NoPayload]
           hits == [asks EXCEPT !.at = "answered", !.got = cached[k]]
<1>1. changes[k] \in Payloads /\ changes[k] \in Nat /\ cached[k] \in Payloads \cup {NoPayload}
  BY SnapshotBoundAssumption DEF SnapInv, SnapTypeOK, Payloads
<1>2. UNCHANGED <<fenceVars, cached, inFlight, producer>>
  BY DEF Ask
<1>3. CASE reader' = [reader EXCEPT ![r] = asks]
  <2>1. asks \in ReaderRecord
    BY <1>1 DEF ReaderRecord
  <2>2. asks.at = "missed" /\ asks.on = 0
    OBVIOUS
  <2>3. asks.need <= changes[asks.key]
    BY <1>1
  <2> HIDE DEF asks
  <2> QED
    BY <1>2, <1>3, <2>1, <2>2, <2>3, RequestStep
<1>4. CASE /\ cached[k] # NoPayload
           /\ reader' = [reader EXCEPT ![r] = [asks EXCEPT !.at = "answered", !.got = cached[k]]]
  <2>1. cached[k] = changes[k]
    BY <1>4 DEF SnapInv, ReadersOK, AnswersAreFresh
  <2>2. asks \in ReaderRecord
    BY <1>1 DEF ReaderRecord
  <2>3. hits \in ReaderRecord
    BY <1>1, <2>2 DEF ReaderRecord
  <2>4. reader' = [reader EXCEPT ![r] = hits]
    BY <1>4
  <2>5. hits.at = "answered" /\ hits.on = 0
    OBVIOUS
  <2>6. hits.need <= changes[hits.key] /\ hits.got >= hits.need
    BY <1>1, <2>1
  <2> HIDE DEF hits
  <2> QED
    BY <1>2, <2>3, <2>4, <2>5, <2>6, RequestStep
<1> QED
  BY <1>3, <1>4 DEF Ask

\* A request that goes away.
LEMMA LeavesKeeps ==
  ASSUME SnapInv, NEW r \in Readers, ReaderAnswered(r), UNCHANGED <<fenceVars, cached, inFlight, producer>>
  PROVE  SnapInv'
<1> DEFINE e == [reader[r] EXCEPT !.at = "idle", !.need = 0, !.on = 0, !.got = NoPayload]
<1>1. reader[r] \in ReaderRecord /\ reader[r].key \in SnapKeys
  BY DEF SnapInv, SnapTypeOK, ReaderRecord
<1>2. changes[reader[r].key] \in Nat /\ 0 \in Payloads
  BY <1>1, SnapshotBoundAssumption DEF SnapInv, SnapTypeOK, Payloads
<1>3. e \in ReaderRecord
  BY <1>1, <1>2 DEF ReaderRecord
<1>4. e.at = "idle" /\ e.on = 0 /\ e.need = 0 /\ e.key = reader[r].key
  BY <1>1 DEF ReaderRecord
<1>5. reader' = [reader EXCEPT ![r] = e]
  BY <1>1 DEF ReaderAnswered, SnapInv, SnapTypeOK
<1>6. e.need <= changes[e.key]
  BY <1>2, <1>4
<1> HIDE DEF e
<1> QED
  BY <1>3, <1>4, <1>5, <1>6, RequestStep

\* A request waits for a producer that is there now.
LEMMA WaitsFor ==
  ASSUME SnapTypeOK, NEW r \in Readers, NEW p \in Nat,
         reader' = [reader EXCEPT ![r].at = "waits", ![r].on = p]
  PROVE  \E e \in ReaderRecord :
           /\ e.at = "waits" /\ e.on = p /\ e.key = reader[r].key /\ e.need = reader[r].need
           /\ reader' = [reader EXCEPT ![r] = e]
<1> DEFINE e == [reader[r] EXCEPT !.at = "waits", !.on = p]
<1>1. reader[r] \in ReaderRecord
  BY DEF SnapTypeOK
<1>2. e \in ReaderRecord
  BY <1>1 DEF ReaderRecord
<1>3. e.at = "waits" /\ e.on = p /\ e.key = reader[r].key /\ e.need = reader[r].need
  BY <1>1 DEF ReaderRecord
<1>4. [reader EXCEPT ![r].at = "waits", ![r].on = p] = [reader EXCEPT ![r] = e]
  BY <1>1 DEF SnapTypeOK
<1> QED
  BY <1>2, <1>3, <1>4

\* A request that begins to wait for a producer that has not read anything too old.
LEMMA WaitsStep ==
  ASSUME SnapTypeOK, ReadersOK, NEW r \in Readers, NEW e \in ReaderRecord, NEW p \in Producers',
         reader' = [reader EXCEPT ![r] = e],
         e.at = "waits", e.on = p, e.need <= changes[e.key], producer'[p].key = e.key,
         producer'[p].thread \in {"builds", "built"} => producer'[p].from >= e.need,
         \A q \in Producers : q \in Producers' /\ producer'[q] = producer[q],
         UNCHANGED <<changes, cached>>
  PROVE  ReadersOK'
<1>1. reader'[r] = e /\ \A q \in Readers \ {r} : reader'[q] = reader[q]
  BY DEF SnapTypeOK
<1>2. ReadersWait'
  <2> SUFFICES ASSUME NEW q \in Readers, reader'[q].at = "waits"
               PROVE  LET o == reader'[q].on
                      IN  /\ o \in Producers' /\ producer'[o].key = reader'[q].key
                          /\ producer'[o].thread \in {"builds", "built"}
                             => producer'[o].from >= reader'[q].need
    BY DEF ReadersWait
  <2>1. CASE q = r
    BY <1>1, <2>1
  <2>2. CASE q # r
    BY <1>1, <2>2 DEF ReadersOK, ReadersWait
  <2> QED
    BY <2>1, <2>2
<1>3. Asks'
  BY <1>1 DEF ReadersOK, Asks
<1>4. AnswersAreFresh'
  BY <1>1 DEF ReadersOK, AnswersAreFresh
<1> QED
  BY <1>2, <1>3, <1>4 DEF ReadersOK

\* A request joins the producer in flight: it is of this generation, and of this key.
LEMMA JoinsOld ==
  ASSUME SnapInv, NEW r \in Readers, Join(r), MayJoin(reader[r].key)
  PROVE  SnapInv'
<1>0. SnapTypeOK /\ ProducersOK /\ ReadersOK
  BY DEF SnapInv
<1>1. PICK k \in SnapKeys : k = reader[r].key
  BY <1>0 DEF SnapTypeOK, ReaderRecord
<1>2. PICK p : p = inFlight[k]
  OBVIOUS
<1>3. /\ UNCHANGED <<fenceVars, cached, inFlight, producer>>
      /\ reader' = [reader EXCEPT ![r].at = "waits", ![r].on = p]
  BY <1>1, <1>2 DEF Join
<1>4. /\ Producers = 1..Len(producer) /\ Len(producer) \in Nat /\ p \in 0..Len(producer) /\ p # 0
      /\ producer[p].gen = Current(k)
  BY <1>0, <1>1, <1>2, ProducersAreNumbered DEF SnapTypeOK, MayJoin
<1>5. p \in Producers /\ p \in Nat
  BY <1>4
<1>6. producer[p].key = k
  BY <1>0, <1>2, <1>4 DEF ProducersOK, OfItsKey
<1>7. PICK e \in ReaderRecord :
        /\ e.at = "waits" /\ e.on = p /\ e.key = reader[r].key /\ e.need = reader[r].need
        /\ reader' = [reader EXCEPT ![r] = e]
  BY <1>0, <1>3, <1>5, WaitsFor
<1>8. e.need <= changes[e.key]
  BY <1>0, <1>1, <1>7 DEF ReadersOK, Asks
<1>9. producer[p].thread \in {"builds", "built"} => producer[p].from >= e.need
  <2>1. SUFFICES ASSUME producer[p].thread \in {"builds", "built"} PROVE producer[p].from >= e.need
    OBVIOUS
  <2>2. producer[p].from = changes[k]
    BY <1>0, <1>4, <1>5, <1>6, <2>1 DEF ProducersOK, UpToDate
  <2>3. e.need \in Nat /\ changes[k] \in Nat
    BY <1>0, <1>7, SnapshotBoundAssumption DEF SnapTypeOK, Payloads, ReaderRecord
  <2> QED
    BY <1>1, <1>7, <1>8, <2>2, <2>3
<1>10. ReadersOK'
  <2>1. /\ p \in Producers' /\ producer'[p].key = e.key
        /\ producer'[p].thread \in {"builds", "built"} => producer'[p].from >= e.need
        /\ \A q \in Producers : q \in Producers' /\ producer'[q] = producer[q]
        /\ UNCHANGED <<changes, cached>>
    BY <1>1, <1>3, <1>5, <1>6, <1>7, <1>9 DEF Producers, fenceVars
  <2> QED
    BY <1>0, <1>7, <1>8, <2>1, WaitsStep
<1>11. SnapTypeOK'
  <2>1. reader' \in [Readers -> ReaderRecord]
        /\ reader'[r] = e /\ \A q \in Readers \ {r} : reader'[q] = reader[q]
    BY <1>0, <1>7 DEF SnapTypeOK
  <2> QED
    BY <1>0, <1>3, <1>4, <1>7, <2>1 DEF SnapTypeOK, fenceVars
<1>12. ProducersOK'
  BY <1>0, <1>3
  DEF ProducersOK, Begun, UpToDate, OneInFlight, OfItsKey, ShutdownDrained, OneBuilder, Current, Producers,
      fenceVars
<1> QED
  BY <1>10, <1>11, <1>12 DEF SnapInv

\* A request becomes the first of a new producer: no builder of this generation is at work.
LEMMA JoinsNew ==
  ASSUME SnapInv, NEW r \in Readers, Join(r), ~MayJoin(reader[r].key)
  PROVE  SnapInv'
<1>0. SnapTypeOK /\ ProducersOK /\ ReadersOK
  BY DEF SnapInv
<1>1. PICK k \in SnapKeys : k = reader[r].key
  BY <1>0 DEF SnapTypeOK, ReaderRecord
<1>2. /\ Len(producer) \in Nat /\ Producers = 1..Len(producer)
      /\ \A q \in Producers : producer[q] \in ProducerRecord
  BY <1>0, ProducersAreNumbered
<1>3. PICK new \in Nat : new = Len(producer) + 1
  BY <1>2
<1>4. new \notin Producers /\ new # 0
  BY <1>2, <1>3
<1> DEFINE added == [key |-> k, gen |-> Current(k), from |-> NoPayload, thread |-> "waits",
                    wrapper |-> "runs"]
<1>5. /\ Len(producer) < MaxProducers /\ producer' = Append(producer, added)
      /\ inFlight' = [inFlight EXCEPT ![k] = new]
      /\ reader' = [reader EXCEPT ![r].at = "waits", ![r].on = new]
      /\ admits
  BY <1>1, <1>3 DEF Join
<1>6. UNCHANGED <<admits, globalGen, keyGen, changes, lifespans, drained, cached>>
  BY DEF Join, fenceVars
<1>7. added \in ProducerRecord
  BY <1>0 DEF ProducerRecord, Current, Generations, SnapTypeOK
<1>8. /\ producer' \in Seq(ProducerRecord) /\ Len(producer') = new
      /\ Producers' = Producers \cup {new} /\ producer'[new] = added
      /\ \A q \in Producers : producer'[q] = producer[q]
  BY <1>0, <1>3, <1>5, <1>7, ProducerAdded
<1>9. /\ producer'[new].key = k /\ producer'[new].gen = Current(k)
      /\ producer'[new].thread = "waits" /\ producer'[new].wrapper = "runs"
  BY <1>8
<1> HIDE DEF added
<1>10. PICK e \in ReaderRecord :
         /\ e.at = "waits" /\ e.on = new /\ e.key = reader[r].key /\ e.need = reader[r].need
         /\ reader' = [reader EXCEPT ![r] = e]
  BY <1>0, <1>5, WaitsFor
<1>11. ReadersOK'
  <2>1. e.need <= changes[e.key]
    BY <1>0, <1>10 DEF ReadersOK, Asks
  <2>2. /\ new \in Producers' /\ producer'[new].key = e.key
        /\ producer'[new].thread \notin {"builds", "built"}
        /\ \A q \in Producers : q \in Producers' /\ producer'[q] = producer[q]
        /\ UNCHANGED <<changes, cached>>
    BY <1>1, <1>6, <1>8, <1>9, <1>10
  <2> QED
    BY <1>0, <1>10, <2>1, <2>2, WaitsStep
<1>12. SnapTypeOK'
  <2>1. reader' \in [Readers -> ReaderRecord]
        /\ reader'[r] = e /\ \A q \in Readers \ {r} : reader'[q] = reader[q]
    BY <1>0, <1>10 DEF SnapTypeOK
  <2>2. \A q \in Readers : reader'[q].on \in 0..Len(producer')
    BY <1>0, <1>2, <1>3, <1>8, <1>10, <2>1 DEF SnapTypeOK
  <2>3. inFlight' \in [SnapKeys -> 0..Len(producer')]
    BY <1>0, <1>2, <1>3, <1>5, <1>8 DEF SnapTypeOK
  <2>4. Len(producer') <= MaxProducers
    BY <1>2, <1>3, <1>5, <1>8, SnapshotBoundAssumption
  <2> QED
    BY <1>0, <1>6, <1>8, <2>1, <2>2, <2>3, <2>4 DEF SnapTypeOK
<1>13. \A q \in Producers : producer[q].key = k /\ producer[q].gen = Current(k)
                            => producer[q].thread \notin {"waits", "builds"}
  BY <1>0, <1>1, <1>5, <1>2 DEF ProducersOK, OneInFlight, MayJoin
<1>14. ProducersOK'
  <2>1. Begun'
    <3>1. /\ producer'[new].gen[1] <= globalGen /\ producer'[new].gen[2] <= keyGen[k]
          /\ producer'[new].thread = "waits" /\ producer'[new].key = k
      BY <1>0, <1>9 DEF Current, SnapTypeOK
    <3> QED
      BY <1>0, <1>6, <1>8, <3>1 DEF ProducersOK, Begun
  <2>2. UpToDate'
    <3>1. \A q \in Producers' : q = new \/ q \in Producers
      BY <1>8
    <3> QED
      BY <1>0, <1>6, <1>8, <1>9, <3>1 DEF ProducersOK, UpToDate, Current
  <2>5. OneInFlight'
    <3>1. SUFFICES ASSUME NEW q \in Producers'
          PROVE /\ producer'[q].wrapper = "done" => producer'[q].thread \in {"built", "raised"}
                /\ /\ admits /\ producer'[q].gen = Current(producer'[q].key)
                   /\ producer'[q].thread \in {"waits", "builds"}
                   => inFlight'[producer'[q].key] = q /\ producer'[q].wrapper = "runs"
      BY <1>6 DEF OneInFlight, Current
    <3>2. CASE q = new
      BY <1>0, <1>5, <1>9, <3>2 DEF SnapTypeOK
    <3>3. CASE q # new
      <4>1. q \in Producers /\ producer'[q] = producer[q]
        BY <1>8, <3>3
      <4>2. producer[q].key \in SnapKeys
        BY <1>2, <4>1 DEF ProducerRecord
      <4>3. CASE producer[q].key = k
        BY <1>0, <1>13, <4>1, <4>3 DEF ProducersOK, OneInFlight
      <4>4. CASE producer[q].key # k
        <5>1. inFlight'[producer[q].key] = inFlight[producer[q].key]
          BY <1>0, <1>5, <4>2, <4>4 DEF SnapTypeOK
        <5> QED
          BY <1>0, <4>1, <5>1 DEF ProducersOK, OneInFlight
      <4> QED
        BY <4>3, <4>4
    <3> QED
      BY <3>2, <3>3
  <2>3. OfItsKey' /\ ShutdownDrained'
    BY <1>0, <1>2, <1>4, <1>5, <1>6, <1>8, <1>9
    DEF ProducersOK, OfItsKey, ShutdownDrained, SnapTypeOK
  <2>4. OneBuilder'
    BY SMTT(40), <1>0, <1>2, <1>4, <1>5, <1>6, <1>8, <1>9, <1>13
    DEF ProducersOK, ShutdownDrained, OneBuilder, SnapTypeOK, ProducerRecord
  <2> QED
    BY <2>1, <2>2, <2>3, <2>4, <2>5 DEF ProducersOK
<1> QED
  BY <1>11, <1>12, <1>14 DEF SnapInv

LEMMA JoinKeeps == ASSUME SnapInv, NEW r \in Readers, Join(r) PROVE SnapInv'
  BY JoinsOld, JoinsNew

\* A builder that starts to read, or that is over.
LEMMA BuilderStep ==
  ASSUME SnapInv, NEW p \in Producers, NEW e \in ProducerRecord,
         producer' = [producer EXCEPT ![p] = e],
         e.key = producer[p].key, e.gen = producer[p].gen, e.wrapper = producer[p].wrapper,
         \/ /\ producer[p].thread = "waits" /\ e.thread = "builds" /\ e.from = changes[e.key]
         \/ /\ producer[p].thread = "builds" /\ e.thread \in {"built", "raised"}
            /\ e.from = producer[p].from,
         UNCHANGED <<fenceVars, cached, inFlight, reader>>
  PROVE  SnapInv'
<1>0. SnapTypeOK /\ ProducersOK /\ ReadersOK
  BY DEF SnapInv
<1>1. /\ Producers = 1..Len(producer) /\ \A q \in Producers : producer[q] \in ProducerRecord
  BY <1>0, ProducersAreNumbered
<1>2. /\ producer' \in Seq(ProducerRecord) /\ Len(producer') = Len(producer)
      /\ Producers' = Producers /\ producer'[p] = e
      /\ \A q \in Producers \ {p} : producer'[q] = producer[q]
  BY ZenonT(40), <1>0, OneProducerChanges
<1>3. UNCHANGED <<admits, globalGen, keyGen, changes, lifespans, drained>>
  BY DEF fenceVars
<1>4. e.key \in SnapKeys /\ changes[e.key] \in Payloads /\ changes[e.key] \in Nat
  BY SMTT(40), <1>0, SnapshotBoundAssumption DEF SnapTypeOK, Payloads, ProducerRecord
<1>5. SnapTypeOK'
  BY <1>0, <1>2, <1>3 DEF SnapTypeOK
<1>6. Begun' /\ UpToDate'
  BY <1>0, <1>2, <1>3, <1>4 DEF ProducersOK, Begun, UpToDate, Current
<1>7. OneInFlight' /\ OfItsKey' /\ ShutdownDrained'
  <2>1. OneInFlight'
    BY <1>0, <1>2, <1>3 DEF ProducersOK, OneInFlight, Current
  <2>2. ASSUME NEW k \in SnapKeys, inFlight[k] # 0 PROVE inFlight[k] \in Producers
    BY <1>0, <1>1, <2>2 DEF SnapTypeOK
  <2>3. OfItsKey'
    BY <1>0, <1>2, <2>2 DEF ProducersOK, OfItsKey
  <2> QED
    BY <1>0, <1>3, <2>1, <2>3 DEF ProducersOK, ShutdownDrained
<1>8. OneBuilder'
  BY <1>0, <1>2, <1>3 DEF ProducersOK, OneBuilder
<1>9. ReadersWait'
  <2> SUFFICES ASSUME NEW r \in Readers, NEW o, o = reader[r].on, reader[r].at = "waits"
               PROVE  /\ o \in Producers /\ producer'[o].key = reader[r].key
                      /\ producer'[o].thread \in {"builds", "built"}
                         => producer'[o].from >= reader[r].need
    BY <1>2 DEF ReadersWait
  <2>1. /\ o \in Producers /\ producer[o].key = reader[r].key
        /\ producer[o].thread \in {"builds", "built"} => producer[o].from >= reader[r].need
        /\ reader[r].need <= changes[reader[r].key]
    BY <1>0 DEF ReadersOK, ReadersWait, Asks
  <2>2. CASE o # p
    BY <1>2, <2>1, <2>2
  <2>3. CASE o = p
    <3>1. reader[r].need \in Nat
      BY <1>0, SnapshotBoundAssumption DEF SnapTypeOK, ReaderRecord, Payloads
    <3> QED
      BY <1>2, <1>4, <2>1, <2>3, <3>1
  <2> QED
    BY <2>2, <2>3
<1>10. Asks' /\ AnswersAreFresh'
  BY <1>0, <1>3 DEF ReadersOK, Asks, AnswersAreFresh
<1> QED
  BY <1>5, <1>6, <1>7, <1>8, <1>9, <1>10 DEF SnapInv, ProducersOK, ReadersOK

LEMMA BuildKeeps == ASSUME SnapInv, NEW p \in Producers, Build(p) PROVE SnapInv'
<1> DEFINE e == [producer[p] EXCEPT !.thread = "builds", !.from = changes[producer[p].key]]
<1>1. SnapTypeOK /\ producer[p] \in ProducerRecord /\ Producers = 1..Len(producer)
      /\ producer \in [1..Len(producer) -> ProducerRecord]
  BY ProducersAreNumbered, LenProperties DEF SnapInv, SnapTypeOK
<1>2. changes[producer[p].key] \in Payloads
  BY <1>1 DEF SnapTypeOK, ProducerRecord
<1>3. e \in ProducerRecord
  BY <1>1, <1>2 DEF ProducerRecord
<1>4. producer' = [producer EXCEPT ![p] = e]
  BY <1>1 DEF Build
<1>5. /\ e.key = producer[p].key /\ e.gen = producer[p].gen /\ e.wrapper = producer[p].wrapper
      /\ e.thread = "builds" /\ e.from = changes[producer[p].key]
  BY <1>1 DEF ProducerRecord
<1>6. e.from = changes[e.key]
  BY <1>5
<1>7. producer[p].thread = "waits" /\ UNCHANGED <<fenceVars, cached, inFlight, reader>>
  BY DEF Build
<1> HIDE DEF e
<1> QED
  BY <1>3, <1>4, <1>5, <1>6, <1>7, BuilderStep

LEMMA BuiltKeeps == ASSUME SnapInv, NEW p \in Producers, Built(p) PROVE SnapInv'
<1> PICK end \in {"built", "raised"} : producer' = [producer EXCEPT ![p].thread = end]
  BY DEF Built
<1> DEFINE e == [producer[p] EXCEPT !.thread = end]
<1>1. SnapTypeOK /\ producer[p] \in ProducerRecord /\ Producers = 1..Len(producer)
      /\ producer \in [1..Len(producer) -> ProducerRecord]
  BY ProducersAreNumbered, LenProperties DEF SnapInv, SnapTypeOK
<1>2. e \in ProducerRecord
  BY <1>1 DEF ProducerRecord
<1>3. producer' = [producer EXCEPT ![p] = e]
  BY <1>1
<1>4. /\ e.key = producer[p].key /\ e.gen = producer[p].gen /\ e.wrapper = producer[p].wrapper
      /\ e.thread \in {"built", "raised"} /\ e.from = producer[p].from
  BY <1>1 DEF ProducerRecord
<1>5. producer[p].thread = "builds" /\ UNCHANGED <<fenceVars, cached, inFlight, reader>>
  BY DEF Built
<1> HIDE DEF e
<1> QED
  BY <1>2, <1>3, <1>4, <1>5, BuilderStep

LEMMA RequestIsTold ==
  ASSUME NEW x \in ReaderRecord, NEW a \in {"answered", "idle"}, NEW g \in Payloads \cup {NoPayload}
  PROVE  [x EXCEPT !.at = a, !.on = 0, !.got = g] \in ReaderRecord
  BY DEF ReaderRecord

\* A wrapper publishes what its builder read, unless a later generation has begun.
LEMMA PublishKeeps == ASSUME SnapInv, NEW p \in Producers, Publish(p) PROVE SnapInv'
<1>0. SnapTypeOK /\ ProducersOK /\ ReadersOK
  BY DEF SnapInv
<1>1. /\ Producers = 1..Len(producer) /\ \A q \in Producers : producer[q] \in ProducerRecord
      /\ producer \in [1..Len(producer) -> ProducerRecord]
  BY <1>0, ProducersAreNumbered, LenProperties DEF SnapTypeOK
<1>2. PICK e \in ProducerRecord :
        /\ producer' = [producer EXCEPT ![p] = e]
        /\ e.key = producer[p].key /\ e.gen = producer[p].gen /\ e.thread = producer[p].thread
        /\ e.from = producer[p].from /\ e.wrapper = "done"
  <2> DEFINE e == [producer[p] EXCEPT !.wrapper = "done"]
  <2>1. e \in ProducerRecord
    BY <1>1 DEF ProducerRecord
  <2>2. /\ e.key = producer[p].key /\ e.gen = producer[p].gen /\ e.thread = producer[p].thread
        /\ e.from = producer[p].from /\ e.wrapper = "done"
    BY <1>1 DEF ProducerRecord
  <2>3. producer' = [producer EXCEPT ![p] = e]
    BY <1>1 DEF Publish
  <2> HIDE DEF e
  <2> QED
    BY <2>1, <2>2, <2>3
<1>5. /\ producer' \in Seq(ProducerRecord) /\ Len(producer') = Len(producer)
      /\ Producers' = Producers /\ producer'[p] = e
      /\ \A q \in Producers \ {p} : producer'[q] = producer[q]
  BY ZenonT(40), <1>0, <1>2, OneProducerChanges
<1>6. /\ UNCHANGED <<admits, globalGen, keyGen, changes, lifespans, drained>>
      /\ producer[p].thread \in {"built", "raised"}
  BY DEF fenceVars, Publish
<1>7. PICK k \in SnapKeys : k = producer[p].key
  BY <1>1 DEF ProducerRecord
<1>8. PICK good \in BOOLEAN : good <=> producer[p].thread = "built"
  OBVIOUS
<1>9. good => producer[p].from \in Payloads
  BY <1>0, <1>8 DEF ProducersOK, Begun
<1>10. /\ cached' = IF good /\ MayPublish(p) THEN [cached EXCEPT ![k] = producer[p].from] ELSE cached
       /\ inFlight' = IF inFlight[k] = p THEN [inFlight EXCEPT ![k] = 0] ELSE inFlight
  BY <1>7, <1>8 DEF Publish
<1>11. ASSUME NEW r \in Readers, reader[r].at = "waits", reader[r].on = p
       PROVE  /\ reader'[r].at = IF good THEN "answered" ELSE "idle"
              /\ reader'[r].on = 0 /\ reader'[r].got = IF good THEN producer[p].from ELSE NoPayload
              /\ reader'[r].key = reader[r].key /\ reader'[r].need = reader[r].need
              /\ reader'[r] \in ReaderRecord
  <2>1. reader[r] \in ReaderRecord
    BY <1>0 DEF SnapTypeOK
  <2>2. PICK a \in {"answered", "idle"}, g \in Payloads \cup {NoPayload} :
          /\ a = IF good THEN "answered" ELSE "idle"
          /\ g = IF good THEN producer[p].from ELSE NoPayload
    BY <1>9
  <2>3. reader'[r] = [reader[r] EXCEPT !.at = a, !.on = 0, !.got = g]
    BY <1>8, <1>11, <2>2 DEF Publish
  <2>4. reader'[r] \in ReaderRecord
    <3>1. a \in {"answered", "idle"} /\ g \in Payloads \cup {NoPayload}
      BY <2>2
    <3>2. [reader[r] EXCEPT !.at = a, !.on = 0, !.got = g] \in ReaderRecord
      BY <2>1, <3>1, RequestIsTold
    <3> QED
      BY <2>3, <3>2
  <2>5. /\ reader'[r].at = a /\ reader'[r].on = 0 /\ reader'[r].got = g
        /\ reader'[r].key = reader[r].key /\ reader'[r].need = reader[r].need
    BY <2>1, <2>3 DEF ReaderRecord
  <2> QED
    BY <2>2, <2>4, <2>5
<1>12. /\ reader' \in [Readers -> ReaderRecord]
       /\ \A r \in Readers : ~(reader[r].at = "waits" /\ reader[r].on = p) => reader'[r] = reader[r]
  <2>1. \A r \in Readers : ~(reader[r].at = "waits" /\ reader[r].on = p) => reader'[r] = reader[r]
    BY DEF Publish
  <2>2. \A r \in Readers : reader'[r] \in ReaderRecord
    BY <1>0, <1>11, <2>1 DEF SnapTypeOK
  <2>3. DOMAIN reader' = Readers /\ reader' = [r \in Readers |-> reader'[r]]
    BY DEF Publish
  <2> QED
    BY <2>1, <2>2, <2>3
<1>13. SnapTypeOK'
  <2>1. cached' \in [SnapKeys -> Payloads \cup {NoPayload}]
    BY <1>0, <1>9, <1>10 DEF SnapTypeOK
  <2>2. inFlight' \in [SnapKeys -> 0..Len(producer)]
    BY <1>0, <1>1, <1>10 DEF SnapTypeOK
  <2>3. ASSUME NEW r \in Readers PROVE reader'[r].on \in 0..Len(producer)
    <3>1. CASE reader[r].at = "waits" /\ reader[r].on = p
      <4>1. reader'[r].on = 0
        BY <1>11, <3>1
      <4> QED
        BY <4>1, LenProperties, <1>0 DEF SnapTypeOK
    <3>2. CASE ~(reader[r].at = "waits" /\ reader[r].on = p)
      <4>1. reader'[r] = reader[r]
        BY <1>12, <3>2
      <4> QED
        BY <4>1, <1>0 DEF SnapTypeOK
    <3> QED
      BY <3>1, <3>2
  <2> QED
    BY <1>0, <1>5, <1>6, <1>12, <2>1, <2>2, <2>3 DEF SnapTypeOK
<1>14. ProducersOK'
  <2>1. Begun' /\ UpToDate'
    BY <1>0, <1>2, <1>5, <1>6 DEF ProducersOK, Begun, UpToDate, Current
  <2>2. OneInFlight'
    <3> SUFFICES ASSUME NEW q \in Producers
                 PROVE  /\ producer'[q].wrapper = "done" => producer'[q].thread \in {"built", "raised"}
                        /\ /\ admits /\ producer'[q].gen = Current(producer'[q].key)
                           /\ producer'[q].thread \in {"waits", "builds"}
                           => inFlight'[producer'[q].key] = q /\ producer'[q].wrapper = "runs"
      BY <1>5, <1>6 DEF OneInFlight, Current
    <3>1. CASE q = p
      BY <1>2, <1>5, <1>6, <3>1
    <3>2. CASE q # p
      <4>1. producer'[q] = producer[q] /\ producer[q].key \in SnapKeys
        BY <1>1, <1>5, <3>2 DEF ProducerRecord
      <4>2. inFlight[producer[q].key] = q => inFlight'[producer[q].key] = q
        BY <1>0, <1>10, <3>2, <4>1 DEF SnapTypeOK
      <4> QED
        BY <1>0, <4>1, <4>2 DEF ProducersOK, OneInFlight
    <3> QED
      BY <3>1, <3>2
  <2>3. OfItsKey'
    <3> SUFFICES ASSUME NEW j \in SnapKeys, inFlight'[j] # 0 PROVE producer'[inFlight'[j]].key = j
      BY DEF OfItsKey
    <3>1. inFlight'[j] = inFlight[j]
      BY <1>0, <1>10 DEF SnapTypeOK
    <3>2. inFlight[j] \in Producers /\ producer[inFlight[j]].key = j
      BY <1>0, <1>1, <3>1 DEF ProducersOK, OfItsKey, SnapTypeOK
    <3> QED
      BY <1>2, <1>5, <3>1, <3>2
  <2>4. ShutdownDrained' /\ OneBuilder'
    BY <1>0, <1>2, <1>5, <1>6 DEF ProducersOK, ShutdownDrained, OneBuilder
  <2> QED
    BY <2>1, <2>2, <2>3, <2>4 DEF ProducersOK
<1>15. ReadersOK'
  <2>1. ASSUME NEW r \in Readers, reader[r].at = "waits", reader[r].on = p, good
        PROVE  producer[p].from >= reader[r].need
    BY <1>0, <1>8, <2>1 DEF ReadersOK, ReadersWait
  <2>2. ReadersWait'
    <3> SUFFICES ASSUME NEW r \in Readers, NEW o, o = reader'[r].on, reader'[r].at = "waits"
                 PROVE  /\ o \in Producers /\ producer'[o].key = reader'[r].key
                        /\ producer'[o].thread \in {"builds", "built"}
                           => producer'[o].from >= reader'[r].need
      BY <1>5 DEF ReadersWait
    <3>1. reader'[r] = reader[r]
      BY <1>11, <1>12
    <3>2. /\ o \in Producers /\ producer[o].key = reader[r].key
          /\ producer[o].thread \in {"builds", "built"} => producer[o].from >= reader[r].need
      BY <1>0, <3>1 DEF ReadersOK, ReadersWait
    <3> QED
      BY <1>2, <1>5, <3>1, <3>2
  <2>3. Asks'
    BY <1>0, <1>6, <1>11, <1>12 DEF ReadersOK, Asks
  <2>4. AnswersAreFresh'
    <3>1. MayPublish(p) /\ good => producer[p].from = changes[k]
      BY <1>0, <1>7, <1>8 DEF ProducersOK, UpToDate, MayPublish
    <3>2. \A j \in SnapKeys : cached'[j] # NoPayload => cached'[j] = changes[j]
      BY <1>0, <1>10, <3>1 DEF ReadersOK, AnswersAreFresh, SnapTypeOK
    <3>3. ASSUME NEW r \in Readers, reader'[r].at = "answered"
          PROVE  reader'[r].got >= reader'[r].need
      <4>1. CASE reader[r].at = "waits" /\ reader[r].on = p
        <5>1. good
          BY <1>11, <3>3, <4>1
        <5> QED
          BY <1>11, <2>1, <4>1, <5>1
      <4>2. CASE ~(reader[r].at = "waits" /\ reader[r].on = p)
        BY <1>0, <1>12, <3>3, <4>2 DEF ReadersOK, AnswersAreFresh
      <4> QED
        BY <4>1, <4>2
    <3> QED
      BY <1>6, <3>2, <3>3 DEF AnswersAreFresh
  <2> QED
    BY <2>2, <2>3, <2>4 DEF ReadersOK
<1> QED
  BY <1>13, <1>14, <1>15 DEF SnapInv

\* An invalidation of a key: no producer is of its generation any more.
LEMMA InvalidateKeeps == ASSUME SnapInv, NEW k \in SnapKeys, Invalidate(k) PROVE SnapInv'
<1>0. SnapTypeOK /\ ProducersOK /\ ReadersOK
  BY DEF SnapInv
<1>1. /\ Producers = 1..Len(producer) /\ \A q \in Producers : producer[q] \in ProducerRecord
  BY <1>0, ProducersAreNumbered
<1>2. /\ UNCHANGED <<admits, globalGen, lifespans, drained, inFlight, producer, reader>>
      /\ changes' = [changes EXCEPT ![k] = @ + 1] /\ keyGen' = [keyGen EXCEPT ![k] = @ + 1]
      /\ cached' = [j \in SnapKeys |-> IF j = k THEN NoPayload ELSE cached[j]]
      /\ changes[k] < MaxInvalidations
  BY DEF Invalidate, Cleared
<1>3. SnapTypeOK'
  <2>1. changes' \in [SnapKeys -> Payloads] /\ keyGen' \in [SnapKeys -> Nat]
    BY <1>0, <1>2, SnapshotBoundAssumption DEF SnapTypeOK, Payloads
  <2>2. cached' \in [SnapKeys -> Payloads \cup {NoPayload}]
    BY <1>0, <1>2 DEF SnapTypeOK
  <2> QED
    BY <1>0, <1>2, <2>1, <2>2 DEF SnapTypeOK
<1>4. /\ keyGen[k] \in Nat /\ keyGen'[k] = keyGen[k] + 1 /\ globalGen \in Nat
      /\ changes[k] \in Nat /\ changes'[k] = changes[k] + 1
      /\ \A j \in SnapKeys \ {k} : keyGen'[j] = keyGen[j] /\ changes'[j] = changes[j]
  BY <1>0, <1>2, SnapshotBoundAssumption DEF SnapTypeOK, Payloads
<1>5. ASSUME NEW q \in Producers
      PROVE  /\ producer[q].key \in SnapKeys /\ producer[q].gen[1] \in Nat /\ producer[q].gen[2] \in Nat
             /\ producer[q].gen = <<producer[q].gen[1], producer[q].gen[2]>>
  BY <1>1 DEF ProducerRecord, Generations
<1>6. ASSUME NEW q \in Producers, producer[q].gen = <<globalGen, keyGen'[producer[q].key]>>
      PROVE  producer[q].key # k /\ producer[q].gen = Current(producer[q].key)
  <2>1. producer[q].gen[1] = globalGen /\ producer[q].gen[2] = keyGen'[producer[q].key]
    BY <1>6
  <2>2. producer[q].gen[2] <= keyGen[producer[q].key]
    BY <1>0, <2>1 DEF ProducersOK, Begun
  <2>3. producer[q].key # k
    BY <1>4, <1>5, <2>1, <2>2
  <2> QED
    BY <1>4, <1>5, <1>6, <2>3 DEF Current
<1>7. ProducersOK'
  <2>1. Begun'
    <3> SUFFICES ASSUME NEW q \in Producers
                 PROVE  /\ producer[q].thread \in {"builds", "built"} => producer[q].from \in Payloads
                        /\ producer[q].gen[1] <= globalGen
                        /\ producer[q].gen[1] = globalGen
                           => producer[q].gen[2] <= keyGen'[producer[q].key]
      BY <1>2 DEF Begun, Producers
    <3>1. \A j \in SnapKeys : keyGen[j] \in Nat /\ keyGen'[j] >= keyGen[j] /\ keyGen'[j] \in Nat
      <4>1. \A j \in SnapKeys : keyGen[j] \in Nat /\ (j = k \/ keyGen'[j] = keyGen[j])
        BY <1>0, <1>4 DEF SnapTypeOK
      <4> QED
        BY <1>4, <4>1
    <3> QED
      BY <1>0, <1>5, <3>1 DEF ProducersOK, Begun
  <2>2. UpToDate'
    BY <1>0, <1>2, <1>4, <1>5, <1>6 DEF ProducersOK, UpToDate, Current, Producers
  <2>3. OneInFlight'
    BY <1>0, <1>2, <1>6 DEF ProducersOK, OneInFlight, Current, Producers
  <2>4. OfItsKey' /\ ShutdownDrained' /\ OneBuilder'
    BY <1>0, <1>2 DEF ProducersOK, OfItsKey, ShutdownDrained, OneBuilder, Producers
  <2> QED
    BY <2>1, <2>2, <2>3, <2>4 DEF ProducersOK
<1>8. ReadersOK'
  <2>1. ReadersWait'
    BY <1>0, <1>2 DEF ReadersOK, ReadersWait, Producers
  <2>2. Asks'
    <3> SUFFICES ASSUME NEW r \in Readers PROVE reader[r].need <= changes'[reader[r].key]
      BY <1>2 DEF Asks
    <3>1. reader[r].key \in SnapKeys /\ reader[r].need \in Nat /\ reader[r].need <= changes[reader[r].key]
      BY <1>0, SnapshotBoundAssumption DEF SnapTypeOK, ReaderRecord, Payloads, ReadersOK, Asks
    <3> QED
      BY <1>4, <3>1
  <2>3. AnswersAreFresh'
    BY <1>0, <1>2, <1>4 DEF ReadersOK, AnswersAreFresh
  <2> QED
    BY <2>1, <2>2, <2>3 DEF ReadersOK
<1> QED
  BY <1>3, <1>7, <1>8 DEF SnapInv

\* A new generation of all keys: what producers there are belong to earlier ones, whatever
\* becomes of their wrappers.
LEMMA GenerationStep ==
  ASSUME SnapInv, NewGeneration,
         admits' \in BOOLEAN, drained' \in BOOLEAN, drained' => drained /\ ~admits',
         lifespans' \in 1..MaxLifespans,
         \A k \in SnapKeys : changes'[k] \in Payloads /\ changes'[k] >= changes[k],
         changes' \in [SnapKeys -> Payloads],
         producer' \in Seq(ProducerRecord), Len(producer') = Len(producer), Producers' = Producers,
         \A q \in Producers :
           /\ producer'[q].key = producer[q].key /\ producer'[q].gen = producer[q].gen
           /\ producer'[q].from = producer[q].from /\ producer'[q].thread = producer[q].thread
           /\ producer'[q].wrapper = "done" => producer[q].wrapper = "done",
         inFlight' \in [SnapKeys -> 0..Len(producer)],
         \A k \in SnapKeys : inFlight'[k] \in {0, inFlight[k]},
         reader' \in [Readers -> ReaderRecord],
         \A r \in Readers :
           \/ reader'[r] = reader[r]
           \/ reader'[r].at = "idle" /\ reader'[r].need = 0 /\ reader'[r].on = 0
  PROVE  SnapInv'
<1>0. SnapTypeOK /\ ProducersOK /\ ReadersOK
  BY DEF SnapInv
<1>1. /\ Producers = 1..Len(producer) /\ \A q \in Producers : producer[q] \in ProducerRecord
  BY <1>0, ProducersAreNumbered
<1>2. /\ globalGen \in Nat /\ globalGen' = globalGen + 1
      /\ keyGen' = [k \in SnapKeys |-> 0] /\ cached' = [k \in SnapKeys |-> NoPayload]
  BY <1>0 DEF SnapTypeOK, NewGeneration, Cleared
<1>3. \A q \in Producers : producer[q].gen[1] \in Nat /\ producer[q].gen[1] <= globalGen
  BY <1>0, <1>1 DEF ProducerRecord, Generations, ProducersOK, Begun
<1>4. ASSUME NEW q \in Producers, NEW g PROVE producer'[q].gen # <<globalGen', g>>
  <2>1. producer'[q].gen[1] # globalGen'
    BY <1>2, <1>3
  <2> QED
    BY <2>1
<1>5. SnapTypeOK'
  <2>1. \A r \in Readers : reader'[r].on \in 0..Len(producer)
    BY <1>0, <1>1 DEF SnapTypeOK
  <2>2. keyGen' \in [SnapKeys -> Nat] /\ cached' \in [SnapKeys -> Payloads \cup {NoPayload}]
        /\ globalGen' \in Nat
    BY <1>2
  <2>3. Len(producer') <= MaxProducers
    BY <1>0 DEF SnapTypeOK
  <2> QED
    BY <2>1, <2>2, <2>3 DEF SnapTypeOK
<1>6. ProducersOK'
  <2>1. Begun'
    <3> SUFFICES ASSUME NEW q \in Producers
                 PROVE  /\ producer'[q].thread \in {"builds", "built"}
                           => producer'[q].from \in Payloads
                        /\ producer'[q].gen[1] <= globalGen' /\ producer'[q].gen[1] # globalGen'
      BY DEF Begun
    <3>1. producer[q].thread \in {"builds", "built"} => producer[q].from \in Payloads
      BY <1>0 DEF ProducersOK, Begun
    <3> QED
      BY <1>2, <1>3, <3>1
  <2>2. UpToDate'
    BY <1>4 DEF UpToDate, Current
  <2>3. OneInFlight'
    BY <1>0, <1>4 DEF ProducersOK, OneInFlight, Current
  <2>4. OfItsKey'
    <3> SUFFICES ASSUME NEW k \in SnapKeys, NEW p, p = inFlight'[k], p # 0
                 PROVE  producer'[p].key = k
      BY DEF OfItsKey
    <3>1. p = inFlight[k] /\ p \in Producers
      BY <1>0, <1>1 DEF SnapTypeOK
    <3> QED
      BY <1>0, <3>1 DEF ProducersOK, OfItsKey
  <2>5. ShutdownDrained' /\ OneBuilder'
    BY SMTT(40), <1>0 DEF ProducersOK, ShutdownDrained, OneBuilder
  <2> QED
    BY <2>1, <2>2, <2>3, <2>4, <2>5 DEF ProducersOK
<1>7. ReadersOK'
  <2>1. ReadersWait'
    <3> SUFFICES ASSUME NEW r \in Readers, NEW o, o = reader'[r].on, reader'[r].at = "waits"
                 PROVE  /\ o \in Producers /\ producer'[o].key = reader'[r].key
                        /\ producer'[o].thread \in {"builds", "built"}
                           => producer'[o].from >= reader'[r].need
      BY DEF ReadersWait
    <3>1. reader'[r] = reader[r]
      OBVIOUS
    <3>2. /\ o \in Producers /\ producer[o].key = reader[r].key
          /\ producer[o].thread \in {"builds", "built"} => producer[o].from >= reader[r].need
      BY <1>0, <3>1 DEF ReadersOK, ReadersWait
    <3> QED
      BY <3>1, <3>2
  <2>2. Asks'
    <3> SUFFICES ASSUME NEW r \in Readers PROVE reader'[r].need <= changes'[reader'[r].key]
      BY DEF Asks
    <3>1. reader'[r].key \in SnapKeys /\ reader'[r].need \in Nat
      BY SnapshotBoundAssumption DEF ReaderRecord, Payloads
    <3>2. /\ changes'[reader'[r].key] \in Nat /\ changes[reader'[r].key] \in Nat
          /\ changes'[reader'[r].key] >= changes[reader'[r].key]
      BY <1>0, <3>1, SnapshotBoundAssumption DEF SnapTypeOK, Payloads
    <3>3. CASE reader'[r] = reader[r]
      BY <1>0, <3>1, <3>2, <3>3 DEF ReadersOK, Asks
    <3>4. CASE reader'[r].need = 0
      BY <3>2, <3>4
    <3> QED
      BY <3>3, <3>4
  <2>3. AnswersAreFresh'
    BY <1>0, <1>2 DEF ReadersOK, AnswersAreFresh
  <2> QED
    BY <2>1, <2>2, <2>3 DEF ReadersOK
<1> QED
  BY <1>5, <1>6, <1>7 DEF SnapInv

\* The part of a new generation that leaves the producers and the requests alone.
LEMMA GenerationAlone ==
  ASSUME SnapInv, NewGeneration, UNCHANGED <<lifespans, drained, inFlight, producer, reader>>,
         admits' \in BOOLEAN, drained => ~admits',
         changes' \in [SnapKeys -> Payloads], \A k \in SnapKeys : changes'[k] >= changes[k]
  PROVE  SnapInv'
<1>1. /\ SnapTypeOK /\ drained' \in BOOLEAN /\ lifespans' \in 1..MaxLifespans
      /\ producer' \in Seq(ProducerRecord) /\ Len(producer') = Len(producer)
      /\ inFlight' \in [SnapKeys -> 0..Len(producer)] /\ reader' \in [Readers -> ReaderRecord]
  BY DEF SnapInv, SnapTypeOK
<1>2. Producers' = Producers /\ \A q \in Producers : producer'[q] = producer[q]
  BY DEF Producers
<1>3. drained' => drained /\ ~admits'
  OBVIOUS
<1>4. \A k \in SnapKeys : changes'[k] \in Payloads /\ changes'[k] >= changes[k]
  OBVIOUS
<1> QED
  BY <1>1, <1>2, <1>3, <1>4, GenerationStep

LEMMA InvalidateAllKeeps == ASSUME SnapInv, InvalidateAll PROVE SnapInv'
<1>1. changes' \in [SnapKeys -> Payloads] /\ \A k \in SnapKeys : changes'[k] >= changes[k]
  <2>1. /\ changes' = [k \in SnapKeys |-> changes[k] + 1]
        /\ \A k \in SnapKeys : changes[k] \in 0..MaxInvalidations /\ changes[k] < MaxInvalidations
    BY DEF InvalidateAll, SnapInv, SnapTypeOK, Payloads
  <2> QED
    BY <2>1, SnapshotBoundAssumption DEF Payloads
<1>2. admits' \in BOOLEAN /\ (drained => ~admits')
  BY DEF InvalidateAll, SnapInv, SnapTypeOK, ProducersOK, ShutdownDrained
<1> QED
  BY <1>1, <1>2, GenerationAlone DEF InvalidateAll

LEMMA ShutdownKeeps == ASSUME SnapInv, SnapShutdown PROVE SnapInv'
<1>1. changes' \in [SnapKeys -> Payloads] /\ \A k \in SnapKeys : changes'[k] >= changes[k]
  <2>1. \A k \in SnapKeys : changes[k] \in 0..MaxInvalidations
    BY DEF SnapInv, SnapTypeOK, Payloads
  <2> QED
    BY <2>1, SnapshotBoundAssumption DEF SnapShutdown, SnapInv, SnapTypeOK
<1>2. admits' = FALSE
  BY DEF SnapShutdown
<1> QED
  BY <1>1, <1>2, GenerationAlone DEF SnapShutdown

\* What cancelling does to the requests and to what is in flight.
LEMMA CancelledRequests ==
  ASSUME SnapTypeOK, Cancelled
  PROVE  /\ inFlight' = [k \in SnapKeys |-> 0] /\ reader' \in [Readers -> ReaderRecord]
         /\ \A r \in Readers :
              \/ reader'[r] = reader[r]
              \/ reader'[r].at = "idle" /\ reader'[r].need = 0 /\ reader'[r].on = 0
<1> DEFINE gone == {inFlight[k] : k \in SnapKeys} \ {0}
           cut(r) == IF reader[r].at = "waits" /\ reader[r].on \in gone
                     THEN [reader[r] EXCEPT !.at = "idle", !.need = 0, !.on = 0] ELSE reader[r]
<1>1. reader' = [r \in Readers |-> cut(r)] /\ inFlight' = [k \in SnapKeys |-> 0]
  BY DEF Cancelled
<1>2. ASSUME NEW r \in Readers
      PROVE  /\ cut(r) \in ReaderRecord
             /\ cut(r) = reader[r] \/ (cut(r).at = "idle" /\ cut(r).need = 0 /\ cut(r).on = 0)
  <2> DEFINE x == [reader[r] EXCEPT !.at = "idle", !.need = 0, !.on = 0]
  <2>1. reader[r] \in ReaderRecord /\ 0 \in Payloads
    BY SnapshotBoundAssumption DEF SnapTypeOK, Payloads
  <2>2. x \in ReaderRecord
    BY <2>1 DEF ReaderRecord
  <2>3. x.at = "idle" /\ x.need = 0 /\ x.on = 0
    BY <2>1 DEF ReaderRecord
  <2>4. cut(r) = reader[r] \/ cut(r) = x
    OBVIOUS
  <2> HIDE DEF cut, x
  <2> QED
    BY <2>1, <2>2, <2>3, <2>4
<1> HIDE DEF cut
<1> QED
  BY <1>1, <1>2

\* The deadline of the shutdown.
LEMMA TimesOutKeeps == ASSUME SnapInv, SnapTimesOut PROVE SnapInv'
<1>0. SnapTypeOK /\ ProducersOK /\ ReadersOK /\ Cancelled /\ ~admits
  BY DEF SnapInv, SnapTimesOut
<1>1. UNCHANGED <<admits, globalGen, keyGen, changes, lifespans, drained, cached>>
  BY DEF SnapTimesOut, fenceVars
<1>2. /\ producer' \in Seq(ProducerRecord) /\ Len(producer') = Len(producer) /\ Producers' = Producers
      /\ \A q \in Producers :
           /\ producer'[q].key = producer[q].key /\ producer'[q].gen = producer[q].gen
           /\ producer'[q].from = producer[q].from /\ producer'[q].thread = producer[q].thread
           /\ producer'[q].wrapper = "done" => producer[q].wrapper = "done"
  BY <1>0, CancelledChanges
<1>3. /\ inFlight' = [k \in SnapKeys |-> 0] /\ reader' \in [Readers -> ReaderRecord]
      /\ \A r \in Readers :
           \/ reader'[r] = reader[r]
           \/ reader'[r].at = "idle" /\ reader'[r].need = 0 /\ reader'[r].on = 0
  BY <1>0, CancelledRequests
<1>4. Producers = 1..Len(producer) /\ Len(producer) \in Nat
  BY <1>0, ProducersAreNumbered
<1>5. SnapTypeOK'
  <2>1. \A r \in Readers : reader'[r].on \in 0..Len(producer')
    BY <1>0, <1>2, <1>3, <1>4 DEF SnapTypeOK
  <2>2. inFlight' \in [SnapKeys -> 0..Len(producer')]
    BY <1>2, <1>3, <1>4
  <2> QED
    BY <1>0, <1>1, <1>2, <1>3, <2>1, <2>2 DEF SnapTypeOK
<1>6. ProducersOK'
  <2>1. Begun' /\ UpToDate'
    BY <1>0, <1>1, <1>2 DEF ProducersOK, Begun, UpToDate, Current
  <2>2. OneInFlight' /\ OfItsKey' /\ ShutdownDrained' /\ OneBuilder'
    BY <1>0, <1>1, <1>2, <1>3 DEF ProducersOK, OneInFlight, OfItsKey, ShutdownDrained, OneBuilder
  <2> QED
    BY <2>1, <2>2 DEF ProducersOK
<1>7. ReadersOK'
  <2>1. ReadersWait'
    <3> SUFFICES ASSUME NEW r \in Readers, NEW o, o = reader'[r].on, reader'[r].at = "waits"
                 PROVE  /\ o \in Producers /\ producer'[o].key = reader'[r].key
                        /\ producer'[o].thread \in {"builds", "built"}
                           => producer'[o].from >= reader'[r].need
      BY <1>2 DEF ReadersWait
    <3>1. reader'[r] = reader[r]
      BY <1>3
    <3>2. /\ o \in Producers /\ producer[o].key = reader[r].key
          /\ producer[o].thread \in {"builds", "built"} => producer[o].from >= reader[r].need
      BY <1>0, <3>1 DEF ReadersOK, ReadersWait
    <3> QED
      BY <1>2, <3>1, <3>2
  <2>2. Asks'
    <3> SUFFICES ASSUME NEW r \in Readers PROVE reader'[r].need <= changes[reader'[r].key]
      BY <1>1 DEF Asks
    <3>1. changes[reader'[r].key] \in Nat
      BY <1>0, <1>3, SnapshotBoundAssumption DEF SnapTypeOK, ReaderRecord, Payloads
    <3> QED
      BY <1>0, <1>3, <3>1 DEF ReadersOK, Asks
  <2>3. AnswersAreFresh'
    BY <1>0, <1>1, <1>3 DEF ReadersOK, AnswersAreFresh
  <2> QED
    BY <2>1, <2>2, <2>3 DEF ReadersOK
<1> QED
  BY <1>5, <1>6, <1>7 DEF SnapInv

LEMMA ReinitializeKeeps == ASSUME SnapInv, Reinitialize PROVE SnapInv'
<1>0. SnapTypeOK /\ Cancelled /\ NewGeneration
  BY DEF SnapInv, Reinitialize
<1>1. /\ producer' \in Seq(ProducerRecord) /\ Len(producer') = Len(producer) /\ Producers' = Producers
      /\ \A q \in Producers :
           /\ producer'[q].key = producer[q].key /\ producer'[q].gen = producer[q].gen
           /\ producer'[q].from = producer[q].from /\ producer'[q].thread = producer[q].thread
           /\ producer'[q].wrapper = "done" => producer[q].wrapper = "done"
  BY <1>0, CancelledChanges
<1>2. /\ inFlight' = [k \in SnapKeys |-> 0] /\ reader' \in [Readers -> ReaderRecord]
      /\ \A r \in Readers :
           \/ reader'[r] = reader[r]
           \/ reader'[r].at = "idle" /\ reader'[r].need = 0 /\ reader'[r].on = 0
  BY <1>0, CancelledRequests
<1>3. /\ \A k \in SnapKeys : changes'[k] \in Payloads /\ changes'[k] >= changes[k]
      /\ changes' \in [SnapKeys -> Payloads]
  BY <1>0, SnapshotBoundAssumption DEF Reinitialize, SnapTypeOK, Payloads
<1>4. admits' = TRUE /\ drained' = FALSE
  BY DEF Reinitialize
<1>5. lifespans' \in 1..MaxLifespans
  BY <1>0, SnapshotBoundAssumption DEF Reinitialize, SnapTypeOK
<1>6. inFlight' \in [SnapKeys -> 0..Len(producer)] /\ \A k \in SnapKeys : inFlight'[k] \in {0, inFlight[k]}
  <2>1. Len(producer) \in Nat
    BY <1>0, ProducersAreNumbered
  <2> QED
    BY <1>2, <2>1
<1> QED
  BY <1>0, <1>1, <1>2, <1>3, <1>4, <1>5, <1>6, GenerationStep

\* A shutdown that reports success: no builder is at work.
LEMMA DrainsKeeps == ASSUME SnapInv, SnapDrains PROVE SnapInv'
<1>0. SnapTypeOK /\ ProducersOK /\ ReadersOK
  BY DEF SnapInv
<1>1. /\ UNCHANGED <<admits, globalGen, keyGen, changes, lifespans, cached, inFlight, producer, reader>>
      /\ drained' = TRUE /\ ~admits
      /\ \A p \in Producers : producer[p].thread \in {"built", "raised"}
  BY DEF SnapDrains
<1>2. SnapTypeOK'
  BY <1>0, <1>1 DEF SnapTypeOK
<1>3. ProducersOK'
  BY <1>0, <1>1
  DEF ProducersOK, Begun, UpToDate, OneInFlight, OfItsKey, ShutdownDrained, OneBuilder, Current, Producers
<1>4. ReadersOK'
  BY <1>0, <1>1 DEF ReadersOK, ReadersWait, Asks, AnswersAreFresh, Producers
<1> QED
  BY <1>2, <1>3, <1>4 DEF SnapInv

LEMMA StutterKeeps == ASSUME SnapInv, UNCHANGED snapVars PROVE SnapInv'
<1>0. /\ SnapTypeOK /\ ProducersOK /\ ReadersOK
      /\ UNCHANGED <<admits, globalGen, keyGen, changes, lifespans, drained, cached, inFlight,
                     producer, reader>>
  BY DEF SnapInv, snapVars, fenceVars
<1>1. SnapTypeOK'
  BY <1>0 DEF SnapTypeOK
<1>2. ProducersOK'
  BY <1>0
  DEF ProducersOK, Begun, UpToDate, OneInFlight, OfItsKey, ShutdownDrained, OneBuilder, Current, Producers
<1>3. ReadersOK'
  BY <1>0 DEF ReadersOK, ReadersWait, Asks, AnswersAreFresh, Producers
<1> QED
  BY <1>1, <1>2, <1>3 DEF SnapInv

LEMMA NextSnapInv == SnapInv /\ [SnapNext]_snapVars => SnapInv'
<1> SUFFICES ASSUME SnapInv, [SnapNext]_snapVars PROVE SnapInv'
  OBVIOUS
<1>1. ASSUME NEW r \in Readers, Refused(r) \/ Disconnect(r) PROVE SnapInv'
  BY <1>1, LeavesKeeps DEF Refused, Disconnect
<1>2. ASSUME NEW r \in Readers, Join(r) PROVE SnapInv'
  BY <1>2, JoinKeeps
<1>3. ASSUME NEW r \in Readers, NEW k \in SnapKeys, Ask(r, k) PROVE SnapInv'
  BY <1>3, AskKeeps
<1>4. ASSUME NEW p \in Producers, Build(p) PROVE SnapInv'
  BY <1>4, BuildKeeps
<1>5. ASSUME NEW p \in Producers, Built(p) PROVE SnapInv'
  BY <1>5, BuiltKeeps
<1>6. ASSUME NEW p \in Producers, Publish(p) PROVE SnapInv'
  BY <1>6, PublishKeeps
<1>7. ASSUME NEW k \in SnapKeys, Invalidate(k) PROVE SnapInv'
  BY <1>7, InvalidateKeeps
<1>8. CASE InvalidateAll \/ SnapShutdown
  BY <1>8, InvalidateAllKeeps, ShutdownKeeps
<1>9. CASE SnapDrains \/ SnapTimesOut \/ Reinitialize
  BY <1>9, DrainsKeeps, TimesOutKeeps, ReinitializeKeeps
<1>10. CASE UNCHANGED snapVars
  BY <1>10, StutterKeeps
<1> QED
  BY <1>1, <1>2, <1>3, <1>4, <1>5, <1>6, <1>7, <1>8, <1>9, <1>10 DEF SnapNext

(***************************************************************************)
(* The theorems.                                                           *)
(***************************************************************************)

LEMMA SnapAlways == SnapSpec => []SnapInv
<1> QED
  BY InitSnapInv, NextSnapInv, PTL DEF SnapSpec

\* Every variable keeps its type (the module variables of realtime/status_snapshot.py).
THEOREM SnapTypeCorrect == SnapSpec => []SnapTypeOK
<1>1. SnapInv => SnapTypeOK
  BY DEF SnapInv
<1> QED
  BY <1>1, SnapAlways, PTL

\* Neither the cache nor a producer answers a request with what was read before an invalidation
\* that came before the request (_publish_if_current, _in_flight_snapshot): the generations
\* are enough, for any number of keys, requests, producers and lifespans.
THEOREM AnswersAlwaysFresh == SnapSpec => []AnswersAreFresh
<1>1. SnapInv => AnswersAreFresh
  BY DEF SnapInv, ReadersOK
<1> QED
  BY <1>1, SnapAlways, PTL

\* One builder for a key and a generation (_in_flight_snapshot), and none after a shutdown that
\* reported success (shutdown_status_snapshot_cache).
THEOREM AlwaysOneBuilder == SnapSpec => []OneBuilder
<1>1. SnapInv => OneBuilder
  BY DEF SnapInv, ProducersOK
<1> QED
  BY <1>1, SnapAlways, PTL

=============================================================================
