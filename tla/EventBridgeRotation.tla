------------------------ MODULE EventBridgeRotation -------------------------
(***************************************************************************)
(* The credential that the Event Bridge plugin of one Emby server presents *)
(* to OctoHubs, and its rotation: provision_event_bridge_credential        *)
(* (emby_runtime/event_bridge_provisioning.py), the durable record and the *)
(* authentication of events (event_bridge_credentials.py), what only the   *)
(* process knows (event_bridge_credential_rotation_state.py) and the       *)
(* journal of refusals (event_bridge_rejection_journal.py).                *)
(*                                                                         *)
(* OctoHubs writes its record first, tells the plugin, and then settles    *)
(* the record; the push may be refused, lost, or applied without an answer *)
(* and the process may die between any two writes.                         *)
(*                                                                         *)
(* Abstractions: one server and one process (the deployment has one); a    *)
(* credential is its generation; one event is in flight at a time; pushes  *)
(* reach the plugin in order; neither a push nor the authentication of an  *)
(* event lasts as long as the grace period of five minutes.                *)
(***************************************************************************)
EXTENDS Naturals

CONSTANTS
  MaxGen,   \* bound: credentials that are generated
  BridgeEvents    \* the external events this instance explores

ASSUME BridgeBoundAssumption == MaxGen \in Nat \ {0}
ASSUME BridgeEventAssumption ==
  BridgeEvents \subseteq {"refusal",       \* the plugin refuses a push
                    "lostPush",      \* a push does not reach the plugin
                    "lostAnswer",    \* the answer of a push is lost
                    "dbError",       \* a transaction raises
                    "journalError",  \* the journal cannot be read or written
                    "crash",         \* the process dies and is started again
                    "reinstall",     \* the plugin forgets its credential
                    "delete"}        \* the server is removed

Gen == 1..MaxGen
NoGen == 0
MaybeGen == Gen \cup {NoGen}
Unreadable == MaxGen + 1   \* what reading the journal may return

VARIABLES
  \* The record of the server in the application settings.
  configured,  \* the server is configured
  current,     \* digest
  pending,     \* pending_digest
  marked,      \* pending_outcome is "rejected"
  old,         \* pending_started_at is five minutes ago
  \* A file, and two dictionaries of the process.
  journal,     \* the refused generation it names
  mem,         \* _rejected_digests
  active,      \* _active_digests
  \* The attempt that holds the lock of _acquire_provisioning_lock.
  rpc,
  cred,        \* the generation it provisions
  next,        \* the next fresh generation
  \* The plugin.
  wire,        \* a push that is on its way
  plugin,      \* the generation it presents
  event,       \* an event it sent, and what its authentication has read
  refused      \* history: generations whose refusal was recorded durably

record == <<configured, current, pending, marked, old>>
local == <<mem, active>>
attempt == <<rpc, cred, next>>
remote == <<wire, plugin>>
bridgeVars == <<record, journal, local, attempt, remote, event, refused>>

NoEvent == [at |-> "none", shown |-> NoGen, seen |-> NoGen]
Phases == {"idle", "prepared", "pushed", "confirmed", "rejected", "journaled", "marked"}

\* Types; an attempt that ended leaves nothing active, and a removed server keeps
\* no generation.
BridgeTypeOK ==
  /\ configured \in BOOLEAN /\ marked \in BOOLEAN /\ old \in BOOLEAN
  /\ current \in MaybeGen /\ pending \in MaybeGen
  /\ journal \in MaybeGen /\ mem \in MaybeGen
  /\ cred \in MaybeGen /\ active \in {NoGen, cred}
  /\ wire \in MaybeGen /\ plugin \in MaybeGen
  /\ rpc \in Phases
  /\ next \in 1..(MaxGen + 1)
  /\ event \in [at : {"none", "sent", "promote", "reconcile"},
                shown : MaybeGen, seen : MaybeGen]
  /\ refused \subseteq Gen
  /\ rpc = "idle" <=> cred = NoGen
  /\ ~configured => current = NoGen /\ pending = NoGen

BridgeInit ==
  /\ configured = TRUE
  /\ current = NoGen /\ pending = NoGen
  /\ marked = FALSE /\ old = FALSE
  /\ journal = NoGen /\ mem = NoGen /\ active = NoGen
  /\ rpc = "idle" /\ cred = NoGen /\ next = 1
  /\ wire = NoGen /\ plugin = NoGen
  /\ event = NoEvent
  /\ refused = {}

-----------------------------------------------------------------------------
(* Helpers *)

BridgeDbError == "dbError" \in BridgeEvents
JournalError == "journalError" \in BridgeEvents

\* load_rejection_journal
Readings == {journal} \cup (IF JournalError THEN {Unreadable} ELSE {})

\* _pending_rejection_status, for a reading j of the journal.
Rejected(j) == pending # NoGen /\ (marked \/ pending \in {mem, j})

\* Mutation of Unknown: an unreadable journal names nothing.
UnknownNever(j) == FALSE

Unknown(j) == pending # NoGen /\ ~Rejected(j) /\ j = Unreadable /\ active # pending

\* _record_authentication_digests: the pending generation is accepted too.
PendingAccepted(j) == pending # NoGen /\ ~Rejected(j) /\ ~Unknown(j)

\* forget_rejected_digest_safely
Forget(g) ==
  \/ journal' = IF journal = g THEN NoGen ELSE journal
  \/ JournalError /\ UNCHANGED journal

ForgetLocal(g) ==
  /\ mem' = IF mem = g THEN NoGen ELSE mem
  /\ active' = IF active = g THEN NoGen ELSE active

SetPending(g) == pending' = g /\ marked' = FALSE /\ old' = FALSE

\* Mutation of Ended: the attempt stays active.
EndedActive ==
  /\ rpc' = "idle" /\ cred' = NoGen
  /\ UNCHANGED <<next, active>>

\* finish_event_bridge_credential_rotation_attempt; the lock is released.
Ended ==
  /\ rpc' = "idle" /\ cred' = NoGen
  /\ UNCHANGED next
  /\ active' = IF active = cred THEN NoGen ELSE active

Go(phase) == rpc' = phase /\ UNCHANGED <<cred, next>>

-----------------------------------------------------------------------------
(* provision_event_bridge_credential *)

\* _rotation_base_digests: a refused generation is dropped, one that may have
\* reached the plugin is kept as the current one, and otherwise
\* EventBridgeCredentialRotationPendingError leaves everything as it is.
MayRotate(j) ==
  /\ configured
  /\ \/ pending = NoGen
     \/ Rejected(j)
     \/ ~Unknown(j) /\ current = NoGen /\ active # pending

PrepareRecord(j) ==
  /\ current' = IF pending = NoGen \/ Rejected(j) THEN current ELSE pending
  /\ SetPending(next)
  /\ UNCHANGED configured

BeginRotation ==
  /\ rpc = "idle" /\ next <= MaxGen
  /\ \E j \in Readings :
       /\ MayRotate(j)
       /\ PrepareRecord(j)
       /\ mem' = IF Rejected(j) /\ mem = pending THEN NoGen ELSE mem
       /\ IF j \in Gen THEN Forget(j) ELSE UNCHANGED journal
  /\ active' = next
  /\ rpc' = "prepared" /\ cred' = next /\ next' = next + 1
  /\ UNCHANGED <<remote, event, refused>>

\* The transaction raises, perhaps after it was committed.
BeginRaises ==
  /\ BridgeDbError
  /\ rpc = "idle" /\ next <= MaxGen
  /\ \E j \in Readings : MayRotate(j) /\ PrepareRecord(j)
  /\ next' = next + 1
  /\ UNCHANGED <<journal, local, rpc, cred, remote, event, refused>>

Push ==
  /\ rpc = "prepared" /\ wire = NoGen
  /\ wire' = cred
  /\ Go("pushed")
  /\ UNCHANGED <<record, journal, local, plugin, event, refused>>

\* _credential_was_applied
Confirmed ==
  /\ rpc = "pushed" /\ plugin = cred
  /\ Go("confirmed")
  /\ UNCHANGED <<record, journal, local, remote, event, refused>>

\* _credential_was_rejected: the answer proves that the plugin did not take over.
Refuse ==
  /\ "refusal" \in BridgeEvents
  /\ rpc = "pushed" /\ wire = cred
  /\ wire' = NoGen
  /\ Go("rejected")
  /\ UNCHANGED <<record, journal, local, plugin, event, refused>>

\* No answer, an error of HTTP or an answer that proves nothing: the pending
\* generation stays.
Unanswered ==
  /\ rpc = "pushed"
  /\ \/ plugin # cred
     \/ "lostAnswer" \in BridgeEvents
  /\ Ended
  /\ UNCHANGED <<record, journal, mem, remote, event, refused>>

\* The record of promote_event_bridge_credential_if_pending.
PromotedAlready(g) == configured /\ current = g /\ pending = NoGen
Promotes(g, j) == configured /\ pending = g /\ PendingAccepted(j)

PromoteRecord(g) ==
  /\ current' = IF pending = g THEN g ELSE current
  /\ SetPending(NoGen)
  /\ UNCHANGED configured

\* Its journal: a file that cannot be read is removed, for no generation is pending.
PromoteJournal(g, j) ==
  IF j # Unreadable THEN Forget(g) ELSE journal' = NoGen \/ UNCHANGED journal

\* A transaction that raises is only logged: the pending generation is accepted.
PromoteFails(g, j) ==
  /\ UNCHANGED <<journal, mem>>
  /\ \/ (BridgeDbError \/ ~(PromotedAlready(g) \/ Promotes(g, j))) /\ UNCHANGED record
     \/ BridgeDbError /\ Promotes(g, j) /\ PromoteRecord(g)

\* _promote_confirmed_credential, the end of a successful attempt.
Promote ==
  /\ rpc = "confirmed"
  /\ \E j \in Readings :
       \/ /\ PromotedAlready(cred) \/ Promotes(cred, j)
          /\ PromoteRecord(cred)
          /\ PromoteJournal(cred, j)
          /\ mem' = IF mem = cred THEN NoGen ELSE mem
       \/ PromoteFails(cred, j)
  /\ Ended
  /\ UNCHANGED <<remote, event, refused>>

\* remember_rejected_event_bridge_credential_rotation: the process, the journal ...
RememberInJournal ==
  /\ rpc = "rejected"
  /\ mem' = cred
  /\ \/ journal' = cred /\ refused' = refused \cup {cred}
     \/ JournalError /\ UNCHANGED <<journal, refused>>
  /\ Go("journaled")
  /\ UNCHANGED <<record, active, remote, event>>

\* ... and the record; if it names another generation the refusal is forgotten,
\* unless one of the two writes raised.
RememberInRecord ==
  /\ rpc = "journaled"
  /\ \/ /\ pending = cred
        /\ marked' = TRUE
        /\ refused' = refused \cup {cred}
        /\ UNCHANGED <<mem, journal>>
     \/ /\ pending # cred
        /\ mem' = IF mem = cred THEN NoGen ELSE mem
        /\ Forget(cred)
        /\ UNCHANGED <<marked, refused>>
     \/ /\ BridgeDbError \/ (JournalError /\ pending # cred)
        /\ UNCHANGED <<marked, refused, mem, journal>>
  /\ Go("marked")
  /\ UNCHANGED <<configured, current, pending, old, active, remote, event>>

CancelRecord ==
  /\ IF pending = cred THEN SetPending(NoGen) ELSE UNCHANGED <<pending, marked, old>>
  /\ UNCHANGED <<configured, current>>

\* cancel_event_bridge_credential_rotation; an error is only logged.
Cancel ==
  /\ rpc = "marked"
  /\ \/ /\ CancelRecord
        /\ mem' = IF pending = cred /\ mem = cred THEN NoGen ELSE mem
        /\ Forget(cred)
     \/ /\ BridgeDbError
        /\ CancelRecord \/ UNCHANGED record
        /\ UNCHANGED <<mem, journal>>
  /\ Ended
  /\ UNCHANGED <<remote, event, refused>>

-----------------------------------------------------------------------------
(* The plugin, and event_bridge_credential_generation *)

Apply ==
  /\ wire # NoGen
  /\ plugin' = wire /\ wire' = NoGen
  /\ UNCHANGED <<record, journal, local, attempt, event, refused>>

Drop ==
  /\ "lostPush" \in BridgeEvents
  /\ wire # NoGen
  /\ wire' = NoGen
  /\ UNCHANGED <<record, journal, local, attempt, plugin, event, refused>>

Send ==
  /\ plugin # NoGen /\ event = NoEvent
  /\ event' = [NoEvent EXCEPT !.at = "sent", !.shown = plugin]
  /\ UNCHANGED <<record, journal, local, attempt, remote, refused>>

\* The record and the journal are read; what to do is decided.
Decision(j) ==
  IF configured /\ PendingAccepted(j)
  THEN CASE event.shown = pending -> [event EXCEPT !.at = "promote"]
         [] event.shown = current -> [event EXCEPT !.at = "reconcile", !.seen = pending]
         [] OTHER -> NoEvent
  ELSE NoEvent

\* Mutation of Authenticate: pending_started_at is renewed.
AuthenticateRenews(j) ==
  /\ event.at = "sent"
  /\ event' = Decision(j)
  /\ old' = FALSE
  /\ UNCHANGED <<configured, current, pending, marked, journal, local, attempt, remote, refused>>

Authenticate(j) ==
  /\ event.at = "sent"
  /\ event' = Decision(j)
  /\ UNCHANGED <<record, journal, local, attempt, remote, refused>>

\* The plugin presents the pending generation: it took over.
PromoteByEvent ==
  /\ event.at = "promote"
  /\ \E j \in Readings :
       \/ /\ PromotedAlready(event.shown) \/ Promotes(event.shown, j)
          /\ PromoteRecord(event.shown)
          /\ PromoteJournal(event.shown, j)
          /\ ForgetLocal(event.shown)
       \/ PromoteFails(event.shown, j) /\ UNCHANGED active
  /\ event' = NoEvent
  /\ UNCHANGED <<attempt, remote, refused>>

\* Mutation of Abandoned: the grace period is not waited for.
AbandonedAtOnce == current = event.shown /\ pending = event.seen /\ active # pending

\* The plugin still presents the current generation five minutes later.
Abandoned == current = event.shown /\ pending = event.seen /\ active # pending /\ old

\* _reconcile_pending_after_current_authentication
Reconcile ==
  /\ event.at = "reconcile"
  /\ \/ Abandoned /\ SetPending(NoGen) /\ UNCHANGED <<configured, current>>
     \/ (~Abandoned \/ BridgeDbError) /\ UNCHANGED record
  /\ event' = NoEvent
  /\ UNCHANGED <<journal, local, attempt, remote, refused>>

-----------------------------------------------------------------------------
(* The environment *)

\* Five minutes after the rotation began: its push and the events sent before it
\* are over.
Age ==
  /\ pending # NoGen /\ ~old
  /\ rpc # "prepared" /\ wire = NoGen /\ event = NoEvent
  /\ old' = TRUE
  /\ UNCHANGED <<configured, current, pending, marked, journal, local, attempt, remote, event,
                 refused>>

\* _remove_emby_server_configuration: the server and its record in one transaction,
\* then what the process and the journal know.
Delete ==
  /\ "delete" \in BridgeEvents
  /\ configured
  /\ configured' = FALSE /\ current' = NoGen /\ SetPending(NoGen)
  /\ mem' = NoGen /\ active' = NoGen
  /\ Forget(journal)
  /\ UNCHANGED <<attempt, remote, event, refused>>

Reinstall ==
  /\ "reinstall" \in BridgeEvents
  /\ plugin' = NoGen
  /\ UNCHANGED <<record, journal, local, attempt, wire, event, refused>>

\* What the process knew, its attempt and the request it was handling are gone.
BridgeCrash ==
  /\ "crash" \in BridgeEvents
  /\ mem' = NoGen /\ active' = NoGen
  /\ rpc' = "idle" /\ cred' = NoGen
  /\ event' = NoEvent
  /\ UNCHANGED <<record, journal, next, remote, refused>>

-----------------------------------------------------------------------------
Answer == Confirmed \/ Refuse \/ Unanswered
Settle == Promote \/ RememberInJournal \/ RememberInRecord \/ Cancel
Handle == (\E j \in Readings : Authenticate(j)) \/ PromoteByEvent \/ Reconcile

BridgeNext ==
  \/ BeginRotation \/ BeginRaises \/ Push \/ Answer \/ Settle
  \/ Apply \/ Drop \/ Send \/ Handle
  \/ Age \/ Delete \/ Reinstall \/ BridgeCrash

\* An attempt and a request always end, the plugin sends events, time passes, and
\* neither the journal nor the database fails at the same point for ever.
BridgeFairness ==
  /\ WF_bridgeVars(Push) /\ WF_bridgeVars(Answer) /\ WF_bridgeVars(Settle)
  /\ WF_bridgeVars(Apply \/ Drop)
  /\ WF_bridgeVars(Send) /\ SF_bridgeVars(Age)
  /\ WF_bridgeVars(Handle) /\ SF_bridgeVars(Authenticate(journal))
  /\ SF_bridgeVars(PromoteByEvent /\ pending' = NoGen)
  /\ SF_bridgeVars(Reconcile /\ pending' = NoGen)

BridgeSpec == BridgeInit /\ [][BridgeNext]_bridgeVars
BridgeFairSpec == BridgeSpec /\ BridgeFairness

-----------------------------------------------------------------------------
(* Properties *)

\* "Rotate a credential while retaining a shared generation at every phase": the
\* generation the plugin presents is one of the two of the record, whatever is
\* lost, refused, or interrupted.
SharedGeneration ==
  configured /\ plugin # NoGen => plugin \in {current, pending}

\* Once a refusal was written to the journal or to the record, its generation is
\* not accepted any more, not even after a restart, with a journal that cannot be
\* read, or by the next rotation (_pending_rejection_status, _rotation_base_digests).
RejectedStaysOut ==
  \A g \in refused : g # current /\ \A j \in Readings : g = pending => ~PendingAccepted(j)

\* Connect is refused: "Una rotazione Event Bridge precedente e' ancora in
\* riconciliazione".
Stuck == configured /\ rpc = "idle" /\ current # NoGen /\ pending # NoGen /\ ~Rejected(journal)

\* A server whose plugin presents a credential can be connected again: its events
\* settle every rotation (event_bridge_credential_generation).
EvidenceResolves == Stuck /\ plugin # NoGen ~> ~Stuck \/ plugin = NoGen

\* A server can be connected again, whatever became of its earlier rotations.
\* False if two pushes do not reach a plugin that has no credential: there is no
\* event that could settle the pair.
ConnectRecovers == Stuck ~> ~Stuck
=============================================================================
