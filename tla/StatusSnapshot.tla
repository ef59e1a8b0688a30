--------------------------- MODULE StatusSnapshot ---------------------------
(***************************************************************************)
(* The status of the servers as every open page asks for it: one producer  *)
(* per key at a time, a short-lived cache, and generations that fence the  *)
(* producers of an earlier configuration or of an earlier lifespan         *)
(* (realtime/status_snapshot.py).                                          *)
(*                                                                         *)
(* Requests and producers' wrappers are tasks of one event loop; builders  *)
(* run in threads, and configuration is saved in threads.                  *)
(*                                                                         *)
(* Abstractions: a payload is the number of invalidations of its key when  *)
(* its builder began; the age of a cached payload is a choice.             *)
(***************************************************************************)
EXTENDS Naturals, Sequences

CONSTANTS
  SnapKeys,          \* cache keys
  Readers,           \* requests that may wait at the same time
  MaxProducers,      \* bound: producers ever created
  MaxInvalidations,  \* bound: invalidations
  MaxLifespans       \* bound: lifespans of the application

ASSUME SnapshotBoundAssumption ==
  MaxProducers \in Nat /\ MaxInvalidations \in Nat /\ MaxLifespans \in Nat \ {0}

VARIABLES
  admits,      \* _ACCEPTING
  globalGen,   \* _GLOBAL_GENERATION
  keyGen,      \* _CACHE_GENERATIONS
  cached,      \* _CACHED_PAYLOADS: what a payload was built from, or NoPayload
  inFlight,    \* _IN_FLIGHT of the loop: a producer, or 0
  producer,    \* the producers created so far
  reader,      \* where each request is, and what it was answered
  changes,     \* history: invalidations that concern a key
  lifespans,   \* lifespans so far
  drained      \* shutdown_status_snapshot_cache has returned TRUE

fenceVars == <<admits, globalGen, keyGen, changes, lifespans, drained>>
snapVars == <<fenceVars, cached, inFlight, producer, reader>>

NoPayload == MaxInvalidations + 1
Payloads == 0..MaxInvalidations
Generations == Nat \X Nat
Producers == DOMAIN producer

\* thread: the builder; wrapper: the task that publishes its payload.
ProducerRecord == [key : SnapKeys, gen : Generations, from : Payloads \cup {NoPayload},
                   thread : {"waits", "builds", "built", "raised"},
                   wrapper : {"runs", "done", "cancelled"}]

ReaderRecord == [at : {"idle", "missed", "waits", "answered"}, key : SnapKeys,
                 need : Payloads, on : Nat, got : Payloads \cup {NoPayload}]

SnapTypeOK ==
  /\ admits \in BOOLEAN /\ drained \in BOOLEAN
  /\ globalGen \in Nat /\ keyGen \in [SnapKeys -> Nat] /\ lifespans \in 1..MaxLifespans
  /\ cached \in [SnapKeys -> Payloads \cup {NoPayload}]
  /\ changes \in [SnapKeys -> Payloads]
  /\ producer \in Seq(ProducerRecord) /\ Len(producer) <= MaxProducers
  /\ inFlight \in [SnapKeys -> 0..Len(producer)]
  /\ reader \in [Readers -> ReaderRecord]
  /\ \A r \in Readers : reader[r].on \in 0..Len(producer)

SnapInit ==
  /\ admits = TRUE /\ globalGen = 1 /\ lifespans = 1 /\ drained = FALSE
  /\ keyGen = [k \in SnapKeys |-> 0] /\ changes = [k \in SnapKeys |-> 0]
  /\ cached = [k \in SnapKeys |-> NoPayload]
  /\ inFlight = [k \in SnapKeys |-> 0]
  /\ producer = <<>>
  /\ reader \in [Readers -> {[at |-> "idle", key |-> k, need |-> 0, on |-> 0, got |-> NoPayload] :
                                k \in SnapKeys}]

-----------------------------------------------------------------------------
(* A request: shared_status_snapshot *)

Current(k) == <<globalGen, keyGen[k]>>
Idles(r) == reader[r].at \in {"idle", "answered"}

\* StatusSnapshotRuntimeClosedError, or the client is gone.
ReaderAnswered(r) ==
  reader' = [reader EXCEPT ![r] = [@ EXCEPT !.at = "idle", !.need = 0, !.on = 0, !.got = NoPayload]]

\* _fresh_cached_payload: a payload that is young enough, or none.
Ask(r, k) ==
  /\ Idles(r) /\ admits
  /\ LET asks == [at |-> "missed", key |-> k, need |-> changes[k], on |-> 0, got |-> NoPayload]
     IN  \/ /\ cached[k] # NoPayload
            /\ reader' = [reader EXCEPT ![r] = [asks EXCEPT !.at = "answered", !.got = cached[k]]]
         \/ reader' = [reader EXCEPT ![r] = asks]
  /\ UNCHANGED <<fenceVars, cached, inFlight, producer>>

Refused(r) ==
  /\ reader[r].at = "missed" /\ ~admits
  /\ ReaderAnswered(r)
  /\ UNCHANGED <<fenceVars, cached, inFlight, producer>>

\* The producer in flight is of this generation and not done.
MayJoin(k) ==
  /\ inFlight[k] # 0
  /\ producer[inFlight[k]].gen = Current(k) /\ producer[inFlight[k]].wrapper = "runs"

\* _in_flight_snapshot
Join(r) ==
  LET k == reader[r].key
  IN  /\ reader[r].at = "missed" /\ admits
      /\ IF MayJoin(k)
         THEN /\ reader' = [reader EXCEPT ![r].at = "waits", ![r].on = inFlight[k]]
              /\ UNCHANGED <<inFlight, producer>>
         ELSE /\ Len(producer) < MaxProducers
              /\ producer' = Append(producer, [key |-> k, gen |-> Current(k), from |-> NoPayload,
                                               thread |-> "waits", wrapper |-> "runs"])
              /\ inFlight' = [inFlight EXCEPT ![k] = Len(producer) + 1]
              /\ reader' = [reader EXCEPT ![r].at = "waits", ![r].on = Len(producer) + 1]
      /\ UNCHANGED <<fenceVars, cached>>

\* Mutation of Disconnect: the request is not shielded from its producer.
DisconnectUnshielded(r) ==
  /\ reader[r].at = "waits"
  /\ ReaderAnswered(r)
  /\ producer' = [producer EXCEPT ![reader[r].on].wrapper = "cancelled"]
  /\ UNCHANGED <<fenceVars, cached, inFlight>>

\* "A disconnected request must not cancel the shared producer".
Disconnect(r) ==
  /\ reader[r].at \in {"missed", "waits"}
  /\ ReaderAnswered(r)
  /\ UNCHANGED <<fenceVars, cached, inFlight, producer>>

-----------------------------------------------------------------------------
(* A producer *)

\* _run_snapshot_builder: it reads the configuration from now on.
Build(p) ==
  /\ producer[p].thread = "waits"
  /\ producer' = [producer EXCEPT ![p].thread = "builds", ![p].from = changes[producer[p].key]]
  /\ UNCHANGED <<fenceVars, cached, inFlight, reader>>

Built(p) ==
  /\ producer[p].thread = "builds"
  /\ \E end \in {"built", "raised"} : producer' = [producer EXCEPT ![p].thread = end]
  /\ UNCHANGED <<fenceVars, cached, inFlight, reader>>

\* Mutation of MayPublish: any payload is published.
MayPublishAlways(p) == TRUE

\* _publish_if_current
MayPublish(p) == producer[p].gen = Current(producer[p].key)

\* _publish_snapshot is over, and _discard_finished_snapshot: its requests are answered,
\* or get its exception.
Publish(p) ==
  /\ producer[p].wrapper = "runs" /\ producer[p].thread \in {"built", "raised"}
  /\ producer' = [producer EXCEPT ![p].wrapper = "done"]
  /\ LET k == producer[p].key
         good == producer[p].thread = "built"
     IN  /\ cached' = IF good /\ MayPublish(p) THEN [cached EXCEPT ![k] = producer[p].from] ELSE cached
         /\ inFlight' = IF inFlight[k] = p THEN [inFlight EXCEPT ![k] = 0] ELSE inFlight
         /\ reader' = [r \in Readers |->
              IF reader[r].at = "waits" /\ reader[r].on = p
              THEN [reader[r] EXCEPT !.at = IF good THEN "answered" ELSE "idle", !.on = 0,
                                     !.got = IF good THEN producer[p].from ELSE NoPayload]
              ELSE reader[r]]
  /\ UNCHANGED fenceVars

-----------------------------------------------------------------------------
(* Invalidations and lifespans *)

Cleared(K) == cached' = [k \in SnapKeys |-> IF k \in K THEN NoPayload ELSE cached[k]]

\* invalidate_status_snapshot_cache of one key, after what it shows was changed.
Invalidate(k) ==
  /\ changes[k] < MaxInvalidations
  /\ changes' = [changes EXCEPT ![k] = @ + 1]
  /\ keyGen' = [keyGen EXCEPT ![k] = @ + 1]
  /\ Cleared({k})
  /\ UNCHANGED <<admits, globalGen, lifespans, drained, inFlight, producer, reader>>

NewGeneration ==
  /\ globalGen' = globalGen + 1
  /\ keyGen' = [k \in SnapKeys |-> 0]
  /\ Cleared(SnapKeys)

\* The same for all keys: _invalidate_server_status_cache, when a server was saved or deleted.
InvalidateAll ==
  /\ \A k \in SnapKeys : changes[k] < MaxInvalidations
  /\ changes' = [k \in SnapKeys |-> changes[k] + 1]
  /\ NewGeneration
  /\ UNCHANGED <<admits, lifespans, drained, inFlight, producer, reader>>

\* begin_status_snapshot_shutdown
SnapShutdown ==
  /\ admits /\ admits' = FALSE
  /\ NewGeneration
  /\ UNCHANGED <<changes, lifespans, drained, inFlight, producer, reader>>

\* shutdown_status_snapshot_cache: every builder is over ...
SnapDrains ==
  /\ ~admits /\ ~drained
  /\ \A p \in Producers : producer[p].thread \in {"built", "raised"}
  /\ drained' = TRUE
  /\ UNCHANGED <<admits, globalGen, keyGen, changes, lifespans, cached, inFlight, producer, reader>>

\* The wrappers in flight are cancelled, and their requests with them; their threads go on.
Cancelled ==
  LET gone == {inFlight[k] : k \in SnapKeys} \ {0}
  IN  /\ producer' = [p \in Producers |->
                        IF p \in gone /\ producer[p].wrapper = "runs"
                        THEN [producer[p] EXCEPT !.wrapper = "cancelled"] ELSE producer[p]]
      /\ reader' = [r \in Readers |->
                      IF reader[r].at = "waits" /\ reader[r].on \in gone
                      THEN [reader[r] EXCEPT !.at = "idle", !.need = 0, !.on = 0] ELSE reader[r]]
      /\ inFlight' = [k \in SnapKeys |-> 0]

\* ... or the deadline has passed.
SnapTimesOut ==
  /\ ~admits /\ ~drained
  /\ \E k \in SnapKeys : inFlight[k] # 0
  /\ Cancelled
  /\ UNCHANGED <<fenceVars, cached>>

\* initialize_status_snapshot_cache, whatever threads of the last lifespan still run.
Reinitialize ==
  /\ ~admits /\ lifespans < MaxLifespans
  /\ admits' = TRUE /\ lifespans' = lifespans + 1 /\ drained' = FALSE
  /\ NewGeneration
  /\ Cancelled
  /\ UNCHANGED changes

SnapNext ==
  \/ \E r \in Readers : Refused(r) \/ Join(r) \/ Disconnect(r) \/ \E k \in SnapKeys : Ask(r, k)
  \/ \E p \in Producers : Build(p) \/ Built(p) \/ Publish(p)
  \/ \E k \in SnapKeys : Invalidate(k)
  \/ InvalidateAll \/ SnapShutdown \/ SnapDrains \/ SnapTimesOut \/ Reinitialize

SnapSpec == SnapInit /\ [][SnapNext]_snapVars

-----------------------------------------------------------------------------
(* Properties *)

\* A cached payload was begun after every invalidation of its key, and a request is never
\* answered with a payload that was begun before an invalidation it came after: not from
\* the cache, not by a producer it joined, nor by one of an earlier lifespan.
AnswersAreFresh ==
  /\ \A k \in SnapKeys : cached[k] # NoPayload => cached[k] = changes[k]
  /\ \A r \in Readers : reader[r].at = "answered" => reader[r].got >= reader[r].need

\* "Single-flight cache shared by all Emby status-stream subscribers": while requests come
\* and go, no two builders of one key and one generation are at the servers together; and
\* once the shutdown has reported success, none is, until the next lifespan.
OneBuilder ==
  /\ \A p, q \in Producers :
       /\ p # q /\ producer[p].key = producer[q].key /\ producer[p].gen = producer[q].gen
       => producer[p].thread \in {"built", "raised"} \/ producer[q].thread \in {"built", "raised"}
  /\ drained => \A p \in Producers : producer[p].thread \notin {"waits", "builds"}
=============================================================================
