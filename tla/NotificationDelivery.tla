------------------------ MODULE NotificationDelivery ------------------------
(***************************************************************************)
(* The notifications of Latest Publications: LatestNotificationDispatcher  *)
(* (emby_latest/notification_dispatcher.py and its delivery and checkpoint *)
(* phases), the ledger of deliveries                                       *)
(* (core/storage/storage_latest_notifications.py) and the guard that       *)
(* serializes dispatches, refreshes and resets                             *)
(* (emby_latest/refresh_coordination.py).                                  *)
(*                                                                         *)
(* A publication is announced to one destination.  Two records keep it     *)
(* from being announced twice: the state, written when a dispatch ends,    *)
(* and the ledger, written around every message.                           *)
(*                                                                         *)
(* Abstractions: one server, one rule and one recipient, so a delivery is  *)
(* a publication; publications are numbered in the order of their dates;   *)
(* the second attempt after a retry_after is part of the send, since the   *)
(* first one was refused; rows are not pruned (90 and 365 days).           *)
(***************************************************************************)
EXTENDS Naturals, FiniteSets

CONSTANTS
  Proc,     \* application processes, each with one dispatch at a time
  NoProc,   \* nobody
  MaxPub,   \* bound: publications of a behaviour
  Limit,    \* per_server_limit; 0 is none
  Events    \* the external events this instance explores

ASSUME ProcAssumption == NoProc \notin Proc
ASSUME BoundAssumption == MaxPub \in Nat \ {0} /\ Limit \in Nat
ASSUME EventAssumption ==
  Events \subseteq {"failure",     \* Telegram refuses, or a picture is missing
                    "lostAnswer",  \* a request to Telegram has no usable answer
                    "dbError",     \* a database call raises
                    "guardLoss",   \* the connection that holds the guard breaks
                    "crash",       \* a process dies, and is started again
                    "reset"}       \* the operator resets the notifications

Pub == 1..MaxPub
NoPub == 0
Twice == 2   \* bound of accepted: twice or more often

VARIABLES
  published,  \* the publications of the batch cache are 1..published
  notified,   \* publications the persisted state says were announced
  status,     \* of each row of the ledger; "claimed" may be stale (15 minutes)
  token,      \* the dispatch that claimed the row
  guard,      \* who holds the advisory lock of latest_refresh_guard
  pc,         \* where the dispatch of each process is
  plan,       \* publications it has still to announce
  item,       \* the publication it has claimed
  delivered,  \* publications it has announced
  accepted    \* history: messages Telegram accepted since the last reset

ledger == <<status, token>>
dispatch == <<pc, plan, item, delivered>>
vars == <<published, notified, ledger, guard, dispatch, accepted>>

Statuses == {"none", "claimed", "stale", "failed", "sent", "unknown"}

\* The rows of the ledger and the dispatches; what one dispatch planned, claimed or
\* announced never leaks into the next.
TypeOK ==
  /\ published \in 0..MaxPub
  /\ notified \subseteq Pub
  /\ status \in [Pub -> Statuses]
  /\ token \in [Pub -> Proc \cup {NoProc}]
  /\ guard \in Proc \cup {NoProc}
  /\ pc \in [Proc -> {"idle", "planning", "choosing", "claimed", "refused", "accepted"}]
  /\ plan \in [Proc -> SUBSET Pub]
  /\ item \in [Proc -> Pub \cup {NoPub}]
  /\ delivered \in [Proc -> SUBSET Pub]
  /\ accepted \in [Pub -> 0..Twice]
  /\ \A p \in Proc :
       /\ item[p] = NoPub <=> pc[p] \in {"idle", "planning", "choosing"}
       /\ pc[p] \in {"idle", "planning"} => plan[p] = {} /\ delivered[p] = {}

Init ==
  /\ published = 0 /\ notified = {}
  /\ status = [d \in Pub |-> "none"]
  /\ token = [d \in Pub |-> NoProc]
  /\ guard = NoProc
  /\ pc = [p \in Proc |-> "idle"]
  /\ plan = [p \in Proc |-> {}]
  /\ item = [p \in Proc |-> NoPub]
  /\ delivered = [p \in Proc |-> {}]
  /\ accepted = [d \in Pub |-> 0]

-----------------------------------------------------------------------------
(* send_notifications *)

\* latest_refresh_guard is entered.
Begin(p) ==
  /\ pc[p] = "idle" /\ guard = NoProc
  /\ guard' = p
  /\ pc' = [pc EXCEPT ![p] = "planning"]
  /\ UNCHANGED <<published, notified, ledger, plan, item, delivered, accepted>>

Pending == (1..published) \ notified
\* _allowed_signatures: the latest ones, if there is a limit.
Allowed(S) == {d \in S : Limit = 0 \/ Cardinality({e \in S : e > d}) < Limit}

\* The cache and the state are read once, before the first message.
Plan(p) ==
  /\ pc[p] = "planning"
  /\ plan' = [plan EXCEPT ![p] = Allowed(Pending)]
  /\ pc' = [pc EXCEPT ![p] = "choosing"]
  /\ UNCHANGED <<published, notified, ledger, guard, item, delivered, accepted>>

\* The oldest publication first.
Chosen(p, d) == pc[p] = "choosing" /\ d \in plan[p] /\ \A e \in plan[p] : d <= e

Skip(p, d) ==
  /\ plan' = [plan EXCEPT ![p] = @ \ {d}]
  /\ UNCHANGED <<published, notified, guard, pc, item, delivered, accepted>>

DbError == "dbError" \in Events

\* Mutation of Claimable: an abandoned claim is free.
ClaimableWhenStale(d) == status[d] \in {"none", "failed", "stale"}

\* No row yet, or a confirmed failure.
Claimable(d) == status[d] \in {"none", "failed"}

ClaimRow(p, d) ==
  /\ status' = [status EXCEPT ![d] = "claimed"]
  /\ token' = [token EXCEPT ![d] = p]

\* claim_latest_notification_delivery returns "acquired".
Claim(p, d) ==
  /\ Chosen(p, d) /\ Claimable(d)
  /\ ClaimRow(p, d)
  /\ item' = [item EXCEPT ![p] = d]
  /\ pc' = [pc EXCEPT ![p] = "claimed"]
  /\ plan' = [plan EXCEPT ![p] = @ \ {d}]
  /\ UNCHANGED <<published, notified, guard, delivered, accepted>>

\* Mutation of ClaimRefused: an abandoned claim stays as it is.
ClaimRefusedKeepsStale(p, d) ==
  /\ Chosen(p, d) /\ ~Claimable(d)
  /\ UNCHANGED ledger
  /\ Skip(p, d)

\* It returns the state of the row; a stale claim becomes unknown for good.
ClaimRefused(p, d) ==
  /\ Chosen(p, d) /\ ~Claimable(d)
  /\ status' = [status EXCEPT ![d] = IF @ = "stale" THEN "unknown" ELSE @]
  /\ UNCHANGED token
  /\ Skip(p, d)

\* It raises, perhaps after the claim was committed.
ClaimRaises(p, d) ==
  /\ DbError
  /\ Chosen(p, d)
  /\ \/ UNCHANGED ledger
     \/ Claimable(d) /\ ClaimRow(p, d)
  /\ Skip(p, d)

Sent(p) == accepted' = [accepted EXCEPT ![item[p]] = IF @ < Twice THEN @ + 1 ELSE @]

Told(p, answer) ==
  /\ pc' = [pc EXCEPT ![p] = answer]
  /\ UNCHANGED <<published, notified, ledger, guard, plan, item, delivered>>

\* _send_telegram
SendAccepted(p) ==
  /\ pc[p] = "claimed"
  /\ Sent(p)
  /\ Told(p, "accepted")

\* Telegram answers that it refuses, or _prepare_photo finds no picture.
SendRefused(p) ==
  /\ "failure" \in Events
  /\ pc[p] = "claimed"
  /\ UNCHANGED accepted
  /\ Told(p, "refused")

\* A timeout or an answer that cannot be read is taken for a refusal.
SendUnanswered(p) ==
  /\ "lostAnswer" \in Events
  /\ pc[p] = "claimed"
  /\ Sent(p) \/ UNCHANGED accepted
  /\ Told(p, "refused")

Owns(p, d) == status[d] \in {"claimed", "stale"} /\ token[d] = p

Recorded(p) ==
  /\ item' = [item EXCEPT ![p] = NoPub]
  /\ pc' = [pc EXCEPT ![p] = "choosing"]
  /\ UNCHANGED <<published, notified, token, guard, plan, accepted>>

\* Mutation of RecordFailure: a refused message counts as announced.
RecordFailureAsSent(p) ==
  /\ pc[p] = "refused"
  /\ UNCHANGED status
  /\ delivered' = [delivered EXCEPT ![p] = @ \cup {item[p]}]
  /\ Recorded(p)

\* _fail_claim: the row can be claimed again.  An error is only logged.
RecordFailure(p) ==
  /\ pc[p] = "refused"
  /\ \/ /\ Owns(p, item[p])
        /\ status' = [status EXCEPT ![item[p]] = "failed"]
     \/ ~Owns(p, item[p]) /\ UNCHANGED status
     \/ DbError /\ UNCHANGED status
  /\ UNCHANGED delivered
  /\ Recorded(p)

\* complete_delivery.  An error is only logged: the message was sent.
RecordSuccess(p) ==
  /\ pc[p] = "accepted"
  /\ \/ /\ Owns(p, item[p])
        /\ status' = [status EXCEPT ![item[p]] = "sent"]
     \/ ~Owns(p, item[p]) /\ UNCHANGED status
     \/ DbError /\ UNCHANGED status
  /\ delivered' = [delivered EXCEPT ![p] = @ \cup {item[p]}]
  /\ Recorded(p)

\* The guard is left, or was lost, and the objects of the dispatch are dropped.
Released(p) ==
  /\ guard' = IF guard = p THEN NoProc ELSE guard
  /\ pc' = [pc EXCEPT ![p] = "idle"]
  /\ plan' = [plan EXCEPT ![p] = {}]
  /\ item' = [item EXCEPT ![p] = NoPub]
  /\ delivered' = [delivered EXCEPT ![p] = {}]

\* _persist_delivery_updates merges into the state, and the guard is left.
Checkpoint(p) ==
  /\ pc[p] = "choosing" /\ plan[p] = {}
  /\ notified' = notified \cup delivered[p]
  /\ Released(p)
  /\ UNCHANGED <<published, ledger, accepted>>

\* The state cannot be written: the dispatch raises, the ledger remembers.
CheckpointRaises(p) ==
  /\ DbError
  /\ pc[p] = "choosing" /\ plan[p] = {}
  /\ Released(p)
  /\ UNCHANGED <<published, notified, ledger, accepted>>

-----------------------------------------------------------------------------
(* The environment *)

\* A claim is 15 minutes old.
Expire(d) ==
  /\ status[d] = "claimed"
  /\ status' = [status EXCEPT ![d] = "stale"]
  /\ UNCHANGED <<published, notified, token, guard, dispatch, accepted>>

\* A refresh of the collector, under the guard, keeps what was announced.
Publish ==
  /\ guard = NoProc
  /\ published < MaxPub
  /\ published' = published + 1
  /\ UNCHANGED <<notified, ledger, guard, dispatch, accepted>>

\* _clear_latest_notification_state, under the guard: the state and the ledger
\* in one transaction.
Reset ==
  /\ "reset" \in Events
  /\ guard = NoProc
  /\ notified' = {}
  /\ status' = [d \in Pub |-> "none"]
  /\ token' = [d \in Pub |-> NoProc]
  /\ accepted' = [d \in Pub |-> 0]
  /\ UNCHANGED <<published, guard, dispatch>>

GuardLost(p) ==
  /\ "guardLoss" \in Events
  /\ guard = p
  /\ guard' = NoProc
  /\ UNCHANGED <<published, notified, ledger, dispatch, accepted>>

Crash(p) ==
  /\ "crash" \in Events
  /\ pc[p] # "idle"
  /\ Released(p)
  /\ UNCHANGED <<published, notified, ledger, accepted>>

-----------------------------------------------------------------------------
Answers(p) == SendAccepted(p) \/ SendRefused(p) \/ SendUnanswered(p)
Records(p) == RecordFailure(p) \/ RecordSuccess(p)
Chooses(p, d) == Claim(p, d) \/ ClaimRefused(p, d)

Next ==
  \/ \E p \in Proc : \/ Begin(p) \/ Plan(p) \/ Answers(p) \/ Records(p)
                     \/ Checkpoint(p) \/ CheckpointRaises(p)
                     \/ GuardLost(p) \/ Crash(p)
  \/ \E p \in Proc, d \in Pub : Chooses(p, d) \/ ClaimRaises(p, d)
  \/ \E d \in Pub : Expire(d)
  \/ Publish \/ Reset

\* Dispatches recur (the workflow is scheduled), time passes, and no process dies,
\* no database call raises and no message is refused at the same point for ever.
Fairness ==
  /\ \A p \in Proc :
       /\ SF_vars(Begin(p)) /\ SF_vars(Plan(p)) /\ SF_vars(Checkpoint(p))
       /\ \A d \in Pub : SF_vars(Chooses(p, d))
       /\ SF_vars(SendAccepted(p)) /\ SF_vars(Records(p))
  /\ \A d \in Pub : WF_vars(Expire(d))

Spec == Init /\ [][Next]_vars
FairSpec == Spec /\ Fairness

-----------------------------------------------------------------------------
(* Properties *)

\* No publication is announced twice between two resets, whatever crashes, is
\* retried, or loses the guard (claim_latest_notification_delivery).  False if a
\* request without an answer is taken for a refusal, as _telegram_api_request
\* does: the message may have been accepted and is sent again.
AnnouncedOnce == \A d \in Pub : accepted[d] <= 1

\* What the state or the ledger records as announced was accepted by Telegram:
\* no failure is hidden by a later step (_record_delivery, the checkpoint).
RecordedWasSent ==
  \A d \in Pub : d \in notified \/ status[d] = "sent" => accepted[d] > 0

\* The ledger and the state implement AnnouncementLedger, under the same condition
\* (claim_latest_notification_delivery, _record_delivery, _persist_delivery_updates).
Attempted == {d \in Pub : status[d] \in {"claimed", "stale", "unknown", "sent"}}
Accepted == {d \in Pub : accepted[d] > 0}
RecordedAs == notified \cup {d \in Pub : status[d] = "sent"}
Announcements ==
  INSTANCE AnnouncementLedger WITH attempted <- Attempted, announced <- Accepted, recorded <- RecordedAs
KeepsAnnouncements == Announcements!Spec

\* A publication is in the end announced or, if a crash left the outcome of its
\* message open, marked as unknown for the operator (claim_delivery, Checkpoint),
\* unless the operator goes on resetting.  False with a limit: publications
\* whose outcome is unknown stay pending and use it up.
EventuallySettled ==
  <>[][~Reset]_vars =>
    \A d \in Pub : published >= d ~> (d \in notified \/ status[d] \in {"sent", "unknown"})
=============================================================================
