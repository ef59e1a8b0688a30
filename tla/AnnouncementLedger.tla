------------------------- MODULE AnnouncementLedger -------------------------
(***************************************************************************)
(* What the ledger of deliveries and the persisted state promise together  *)
(* about the publications of one destination                               *)
(* (core/storage/storage_latest_notifications.py), whatever happens to the *)
(* dispatches: a message is sent for a publication only while it is        *)
(* attempted, one attempt at a time, and none again once it was accepted;  *)
(* and what is recorded as announced was accepted.                         *)
(***************************************************************************)
CONSTANT Pub

VARIABLES
  attempted,  \* publications that nobody may claim: one has, and was not refused for sure
  announced,  \* those whose message was accepted
  recorded    \* those the ledger or the state says were announced

vars == <<attempted, announced, recorded>>

Init == attempted = {} /\ announced = {} /\ recorded = {}

Attempt(d) ==
  /\ d \notin attempted
  /\ attempted' = attempted \cup {d}
  /\ UNCHANGED <<announced, recorded>>

Accept(d) ==
  /\ d \in attempted \ announced
  /\ announced' = announced \cup {d}
  /\ UNCHANGED <<attempted, recorded>>

\* Only what was not accepted may be attempted again.
Refuse(d) ==
  /\ d \in attempted \ announced
  /\ attempted' = attempted \ {d}
  /\ UNCHANGED <<announced, recorded>>

Record(some) ==
  /\ some \subseteq announced
  /\ recorded' = recorded \cup some
  /\ UNCHANGED <<attempted, announced>>

\* The operator has everything announced once more.
Forget == attempted' = {} /\ announced' = {} /\ recorded' = {}

Next ==
  \/ \E some \in SUBSET Pub : Record(some)
  \/ \E d \in Pub : Attempt(d) \/ Accept(d) \/ Refuse(d)
  \/ Forget

Spec == Init /\ [][Next]_vars
=============================================================================
