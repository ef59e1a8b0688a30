---------------------------- MODULE ClaimsProofs ----------------------------
(***************************************************************************)
(* Proofs about the occurrences of the scheduler, the deliveries of        *)
(* notifications and the credential of the Event Bridge, and about MCClaims, *)
(* where they are checked together with the probe and the users: for any   *)
(* number of processes, schedule times, leases, publications and           *)
(* credentials.                                                            *)
(***************************************************************************)
EXTENDS MCClaims, ProbeProofs, UserSyncProofs, TLAPS

(***************************************************************************)
(* SchedulerOccurrence.  The inductive invariant.                          *)
(***************************************************************************)

\* What a thread has in hand is an occurrence.
OccInHand ==
  /\ \A p \in OccProc : at[p] \in {"claimed", "closing", "retry"} => target[p] # NoSlot
  /\ \A p \in OccProc : worker[p] # "none" => wslot[p] # NoSlot
  /\ \A l \in Lease : phase[l] # "free" => slotOf[l] # NoSlot

\* A registered lease is open, and one that is being finished is waited for by
\* one thread, which does nothing else.
OneFinisher ==
  /\ \A p \in OccProc : run[p] # NoLease => Of(run[p]) = p /\ phase[run[p]] = "open"
  /\ \A l \in Lease : phase[l] \in {"free", "open"} => by[l] = "none" /\ l \notin ok
  /\ \A l \in Lease : by[l] = "scheduler" => at[Of(l)] = "closing"
  /\ \A l \in Lease : by[l] = "worker" => worker[Of(l)] = "closing"
  /\ \A l, m \in Lease :
       by[l] = by[m] /\ by[l] \in {"scheduler", "worker"} /\ Of(l) = Of(m) => l = m

\* Success is claimed for a task that succeeded.
OccHonest ==
  /\ \A p \in OccProc : p \in wok => worker[p] \in {"report", "closing"} /\ wslot[p] \in done
  /\ \A l \in Lease : l \in ok => slotOf[l] \in done
  /\ RecordedWasDone

OccInv == OccTypeOK /\ OccInHand /\ OneFinisher /\ RunHasThread /\ OccHonest

LEMMA NoLeaseIsNoLease == NoLease \notin Lease
  BY OccProcAssumption DEF NoLease, Lease

LEMMA OwnerOfLease == \A l \in Lease : Of(l) \in OccProc
  BY DEF Of, Lease

LEMMA OccSlots == NoSlot \notin Slot /\ Slot \subseteq 1..MaxSlot /\ 1..MaxSlot \subseteq Slot
  BY DEF NoSlot, Slot

USE DEF Soon

LEMMA InitOccInv == OccInit => OccInv
  BY OccProcAssumption, OccBoundAssumption, OccSlots
  DEF OccInit, OccInv, OccTypeOK, OccInHand, OneFinisher, RunHasThread, OccHonest, RecordedWasDone

\* A task that succeeds is an occurrence done.
LEMMA TaskIsDone ==
  ASSUME OccTypeOK, OccInHand, NEW p \in OccProc, TaskSucceeds(p)
  PROVE  done' \subseteq Slot /\ done \subseteq done' /\ wslot[p] \in done'
<1>1. wslot[p] \in Slot
  BY DEF OccTypeOK, OccInHand, TaskSucceeds, TaskReturns
<1>2. done \subseteq Slot
  BY DEF OccTypeOK
<1> QED
  BY <1>1, <1>2 DEF TaskSucceeds

\* What complete records was done.
LEMMA RecordIsDone ==
  ASSUME OccTypeOK, OccInHand, OccHonest, NEW l \in Lease, Complete(l)
  PROVE  recorded' \subseteq Slot /\ recorded' \subseteq done
<1>1. slotOf[l] \in Slot /\ slotOf[l] \in done
  BY DEF OccTypeOK, OccInHand, OccHonest, Complete, Finishes
<1>2. recorded \subseteq Slot /\ recorded \subseteq done
  BY DEF OccTypeOK, OccHonest, RecordedWasDone
<1> QED
  BY <1>1, <1>2 DEF Complete

\* Every action keeps the invariant: one step per action.
LEMMA NextOccInv == OccInv /\ [OccNext]_occVars => OccInv'
<1> SUFFICES ASSUME OccInv, [OccNext]_occVars PROVE OccInv'
  OBVIOUS
<1> USE OccBoundAssumption, NoLeaseIsNoLease, OwnerOfLease, OccSlots
    DEF OccInv, OccTypeOK, OccInHand, OneFinisher, RunHasThread, OccHonest, RecordedWasDone
<1>1. ASSUME NEW p \in OccProc, OccClaim(p) PROVE OccInv'
  BY <1>1 DEF OccClaim, Due, Target, OccClaimRow, Evaluates, pool
<1>2. ASSUME NEW p \in OccProc, ClaimRejected(p) PROVE OccInv'
  BY <1>2 DEF row, ClaimRejected, Due, Target, Evaluates, leases, pool
<1>3. ASSUME NEW p \in OccProc, OccClaimRaises(p) PROVE OccInv'
  BY <1>3 DEF OccClaimRaises, Due, Target, OccClaimRow, Evaluates, row, leases, pool
<1>4. ASSUME NEW p \in OccProc, Trigger(p) PROVE OccInv'
  BY <1>4 DEF row, Trigger, leases
<1>5. ASSUME NEW p \in OccProc, TriggerRefused(p) PROVE OccInv'
  <2>1. CASE Registered(p, target[p])
    <3>1. OccTypeOK'
      BY SMTT(40), <1>5, <2>1 DEF row, TriggerRefused, Registered, Pop, pool
    <3>2. OccInHand'
      BY <1>5, <2>1 DEF row, TriggerRefused, Registered, Pop, pool
    <3>3. OneFinisher'
      BY SMTT(40), <1>5, <2>1 DEF row, TriggerRefused, Registered, Pop, pool
    <3>4. RunHasThread'
      BY <1>5, <2>1 DEF row, TriggerRefused, Registered, Pop, pool
    <3>5. OccHonest'
      BY <1>5, <2>1 DEF row, TriggerRefused, Registered, Pop, pool
    <3> QED
      BY <3>1, <3>2, <3>3, <3>4, <3>5
  <2>2. CASE ~Registered(p, target[p])
    BY <1>5, <2>2 DEF row, TriggerRefused, Registered, pool, leases
  <2> QED
    BY <2>1, <2>2
<1>6. ASSUME NEW p \in OccProc, OccSettle(p) PROVE OccInv'
  BY <1>6 DEF row, OccSettle, pool, leases
<1>7. ASSUME NEW p \in OccProc, TaskSucceeds(p) PROVE OccInv'
  <2>2. done' \subseteq Slot /\ done \subseteq done' /\ wslot[p] \in done'
    BY <1>7, TaskIsDone
  <2>3. wok' \subseteq OccProc /\ wok' \subseteq wok \cup {p}
    BY <1>7 DEF TaskSucceeds
  <2> QED
    BY <1>7, <2>2, <2>3 DEF row, TaskSucceeds, TaskReturns, scheduler, leases
<1>8. ASSUME NEW p \in OccProc, TaskFails(p) PROVE OccInv'
  BY <1>8 DEF row, TaskFails, TaskReturns, scheduler, leases
<1>9. ASSUME NEW p \in OccProc, Report(p) PROVE OccInv'
  <2>1. CASE Registered(p, wslot[p])
      <3>1. OccTypeOK'
        BY <1>9, <2>1 DEF row, Report, Registered, Pop
      <3>2. OccInHand'
        BY <1>9, <2>1 DEF row, Report, Registered, Pop
      <3>3. OneFinisher'
        BY SMTT(40), <1>9, <2>1 DEF row, Report, Registered, Pop
      <3>4. RunHasThread'
        BY <1>9, <2>1 DEF row, Report, Registered, Pop
      <3>5. OccHonest'
        BY <1>9, <2>1 DEF row, Report, Registered, Pop
      <3> QED
        BY <3>1, <3>2, <3>3, <3>4, <3>5
  <2>2. CASE ~Registered(p, wslot[p])
    BY <1>9, <2>2 DEF row, Report, Registered, WorkerGone, leases
  <2> QED
    BY <2>1, <2>2
<1>10. ASSUME NEW p \in OccProc, Stop(p) PROVE OccInv'
  BY <1>10 DEF row, Stop, leases
<1>11. ASSUME NEW p \in OccProc, OccCrash(p) PROVE OccInv'
  BY <1>11 DEF row, OccCrash, WorkerGone
<1>12. ASSUME NEW p \in OccProc, OccBoot(p) PROVE OccInv'
  BY <1>12 DEF row, OccBoot, pool, leases
<1>13. ASSUME NEW l \in Lease, Complete(l) PROVE OccInv'
  <2>6. recorded' \subseteq Slot /\ recorded' \subseteq done
    BY <1>13, RecordIsDone
  <2>7. ok' \subseteq ok
    BY <1>13 DEF Complete
  <2>1. OccTypeOK'
    BY <1>13, <2>6, <2>7 DEF Complete, Finishes, CloseRow, scheduler, pool
  <2>2. OccInHand'
    BY <1>13 DEF Complete, Finishes, OccOwns, CloseRow, scheduler, pool
  <2>3. OneFinisher'
    BY <1>13 DEF Complete, Finishes, OccOwns, CloseRow, scheduler, pool
  <2>4. RunHasThread'
    BY <1>13 DEF Complete, Finishes, OccOwns, CloseRow, scheduler, pool
  <2>5. OccHonest'
    BY <1>13, <2>6, <2>7 DEF Complete, Finishes, scheduler, pool
  <2> QED
    BY <2>1, <2>2, <2>3, <2>4, <2>5
<1>14. ASSUME NEW l \in Lease, ReleaseClaim(l) PROVE OccInv'
  BY <1>14 DEF ReleaseClaim, Finishes, OccOwns, CloseRow, scheduler, pool
<1>15. ASSUME NEW l \in Lease, NotFinished(l) PROVE OccInv'
  BY <1>15 DEF row, NotFinished, Finishes, scheduler, pool
<1>16. ASSUME NEW l \in Lease, Write(l) PROVE OccInv'
  BY SMTT(40), <1>16 DEF row, Write, Freed, WorkerGone, pool
<1>17. ASSUME NEW l \in Lease, OccRenew(l) PROVE OccInv'
  BY <1>17 DEF OccRenew, OccOwns, OccClaimRow, scheduler, pool, leases
<1>18. ASSUME NEW l \in Lease, Lost(l) PROVE OccInv'
  <2>a. /\ Of(l) \in OccProc /\ phase[l] = "open" /\ cancel' \subseteq OccProc
        /\ UNCHANGED <<clock, row, nextRun, retry, at, target, stopping, worker, wslot, wok,
                      done, recorded>>
    BY <1>18 DEF Lost, OccBeating
  <2>1. CASE run[Of(l)] = l
    <3>1. /\ run' = [run EXCEPT ![Of(l)] = NoLease]
          /\ phase' = [phase EXCEPT ![l] = "write"]
          /\ ok' = ok \ {l} /\ by' = [by EXCEPT ![l] = "renewal"] /\ slotOf' = slotOf
      BY <1>18, <2>1 DEF Lost
    <3> QED
      BY <2>a, <2>1, <3>1 DEF row
  <2>2. CASE run[Of(l)] # l /\ ~Registered(Of(l), slotOf[l])
    BY SMTT(40), <1>18, <2>a, <2>2 DEF row, Lost, Freed
  <2>3. CASE run[Of(l)] # l /\ Registered(Of(l), slotOf[l])
    <3>1. PICK m \in Lease : m = run[Of(l)]
      BY <2>a, <2>3 DEF Registered
    <3>2. m # l /\ Of(m) = Of(l) /\ phase[m] = "open" /\ slotOf[m] = slotOf[l]
      BY <2>a, <2>3, <3>1 DEF Registered
    <3>3. /\ run' = [run EXCEPT ![Of(l)] = NoLease]
          /\ phase' = [phase EXCEPT ![l] = "free", ![m] = "persist"]
          /\ slotOf' = [slotOf EXCEPT ![l] = NoSlot]
          /\ ok' = ok \ {m} /\ by' = [by EXCEPT ![m] = "renewal"]
      BY <1>18, <2>3, <3>1 DEF Lost
    <3>4. OccTypeOK'
      BY <2>a, <3>2, <3>3 DEF row
    <3>5. OccInHand'
      BY <2>a, <3>2, <3>3 DEF row
    <3>6. OneFinisher'
      BY <2>a, <3>1, <3>2, <3>3 DEF row
    <3>7. RunHasThread'
      BY <2>a, <3>3 DEF row
    <3>8. OccHonest'
      BY <2>a, <3>2, <3>3 DEF row
    <3> QED
      BY <3>4, <3>5, <3>6, <3>7, <3>8
  <2> QED
    BY <2>1, <2>2, <2>3
<1>19. ASSUME Tick PROVE OccInv'
  BY <1>19 DEF row, Tick, scheduler, pool, leases
<1>20. ASSUME OccExpire PROVE OccInv'
  BY <1>20 DEF OccExpire, OccActive, scheduler, pool, leases
<1>21. CASE UNCHANGED occVars
  BY <1>21 DEF occVars, row, scheduler, pool, leases
<1> QED
  BY <1>1, <1>2, <1>3, <1>4, <1>5, <1>6, <1>7, <1>8, <1>9, <1>10, <1>11, <1>12, <1>13, <1>14,
     <1>15, <1>16, <1>17, <1>18, <1>19, <1>20, <1>21
  DEF OccNext, Scheduler, OccWorker, LeaseThreads, OccNotRenewed, OccRenewRaises

LEMMA OccInvariant == OccSpec => []OccInv
  BY InitOccInv, NextOccInv, PTL DEF OccSpec

(***************************************************************************)
(* What follows for the code.                                              *)
(***************************************************************************)

\* The threads, leases and the row hold values of their types, and a retry that
\* is a minute away has an occurrence to claim.
THEOREM OccTypeCorrect == OccSpec => []OccTypeOK
  BY OccInvariant, PTL DEF OccInv

\* Whatever processes do to each other's claims, no occurrence is recorded as
\* completed unless its task succeeded.
THEOREM RecordedAlwaysDone == OccSpec => []RecordedWasDone
<1>1. OccInv => RecordedWasDone
  BY DEF OccInv, OccHonest
<1> QED
  BY OccInvariant, <1>1, PTL

\* No registered run is left behind: a thread will finish it.
THEOREM RunAlwaysHasThread == OccSpec => []RunHasThread
  BY OccInvariant, PTL DEF OccInv

(***************************************************************************)
(* The latest schedule time, when the database answers and no thread       *)
(* stalls: whoever works on it has the claim of the row.                   *)
(***************************************************************************)
InTime == {"dbError", "stall"} \cap OccEvents = {}

\* A lease of the latest schedule time that its process goes on renewing.
Current(l) == phase[l] \in {"open", "persist"} /\ slotOf[l] = clock /\ Of(l) \notin stopping
AtWork(p) == worker[p] \in {"working", "report"} /\ wslot[p] = clock
Claimant(p) == at[p] = "claimed" /\ target[p] = clock

\* Nobody is ahead of the calendar.
UpToNow ==
  /\ \A p \in OccProc : /\ retry[p] <= clock /\ target[p] <= clock /\ wslot[p] <= clock
                        /\ nextRun[p] <= clock + 1
  /\ \A l \in Lease : slotOf[l] <= clock
  /\ occSlot <= clock

\* There is one such lease at most, and the row has its claim, alive.
HoldsRow ==
  /\ \A l \in Lease : Current(l) => rowStatus = "live" /\ occSlot = clock /\ occOwner = Of(l)
  /\ \A l, m \in Lease : Current(l) /\ Current(m) => l = m

\* Who works on the latest schedule time, or is about to, has that lease open; nobody
\* does both; and a worker of a process that stops was told.
WorksOnLease ==
  /\ \A p \in OccProc : p \notin stopping /\ (AtWork(p) \/ Claimant(p)) =>
       \E l \in Lease : Current(l) /\ Of(l) = p /\ phase[l] = "open"
  /\ \A p \in OccProc : p \notin stopping => ~(AtWork(p) /\ Claimant(p))
  /\ \A p \in OccProc : worker[p] = "working" /\ p \in stopping => p \in cancel

Claims == UpToNow /\ HoldsRow /\ WorksOnLease

LEMMA InitClaims == OccInit => Claims
  BY OccBoundAssumption, OccSlots
  DEF OccInit, Claims, UpToNow, HoldsRow, WorksOnLease, Current, AtWork, Claimant, NoSlot

LEMMA TimesAreNumbers ==
  ASSUME OccTypeOK
  PROVE  /\ clock \in Nat /\ occSlot \in Nat
         /\ \A p \in OccProc : retry[p] \in Nat /\ target[p] \in Nat /\ wslot[p] \in Nat
                              /\ nextRun[p] \in Nat
         /\ \A l \in Lease : slotOf[l] \in Nat
  BY OccBoundAssumption DEF OccTypeOK, Slot, NoSlot

LEMMA NextClaims == InTime /\ OccInv /\ Claims /\ [OccNext]_occVars => Claims'
<1> SUFFICES ASSUME InTime, OccInv, Claims, [OccNext]_occVars PROVE Claims'
  OBVIOUS
<1> USE OccBoundAssumption, NoLeaseIsNoLease, OwnerOfLease, OccSlots
    DEF InTime, OccDbError, Claims, OccInv, OccTypeOK, OccInHand, OneFinisher, RunHasThread,
        UpToNow, HoldsRow, WorksOnLease, Current, AtWork, Claimant, NoSlot
<1>1. ASSUME NEW p \in OccProc, OccClaim(p) PROVE Claims'
  <2>1. UpToNow'
    BY <1>1 DEF OccClaim, Due, Target, OccRejected, Duplicate, OccActive, OccClaimRow,
       Evaluates, pool
  <2>2. HoldsRow'
    BY <1>1 DEF OccClaim, Due, Target, OccRejected, Duplicate, OccActive, OccClaimRow,
       Evaluates, pool
  <2>3. WorksOnLease'
    BY <1>1 DEF OccClaim, Due, Target, OccRejected, Duplicate, OccActive, OccClaimRow,
       Evaluates, pool
  <2> QED
    BY <2>1, <2>2, <2>3
<1>2. ASSUME NEW p \in OccProc, ClaimRejected(p) PROVE Claims'
  <2>1. UpToNow'
    BY <1>2 DEF row, ClaimRejected, Due, Target, Evaluates, leases, pool
  <2>2. HoldsRow'
    BY <1>2 DEF row, ClaimRejected, Due, Target, Evaluates, leases, pool
  <2>3. WorksOnLease'
    BY <1>2 DEF row, ClaimRejected, Due, Target, Evaluates, leases, pool
  <2> QED
    BY <2>1, <2>2, <2>3
<1>3. ASSUME NEW p \in OccProc, Trigger(p) PROVE Claims'
  <2>1. UpToNow'
    BY <1>3 DEF row, Trigger, leases
  <2>2. HoldsRow'
    BY <1>3 DEF row, Trigger, leases
  <2>3. WorksOnLease'
    BY <1>3 DEF row, Trigger, leases
  <2> QED
    BY <2>1, <2>2, <2>3
<1>4. ASSUME NEW p \in OccProc, TriggerRefused(p) PROVE Claims'
  <2>1. UpToNow'
    BY <1>4 DEF row, TriggerRefused, Registered, Pop, pool, leases
  <2>2. HoldsRow'
    BY <1>4 DEF row, TriggerRefused, Registered, Pop, pool, leases
  <2>3. WorksOnLease'
    BY <1>4 DEF row, TriggerRefused, Registered, Pop, pool, leases
  <2> QED
    BY <2>1, <2>2, <2>3
<1>5. ASSUME NEW p \in OccProc, OccSettle(p) PROVE Claims'
  <2>1. UpToNow'
    BY <1>5 DEF row, OccSettle, pool, leases
  <2>2. HoldsRow'
    BY <1>5 DEF row, OccSettle, pool, leases
  <2>3. WorksOnLease'
    BY <1>5 DEF row, OccSettle, pool, leases
  <2> QED
    BY <2>1, <2>2, <2>3
<1>6. ASSUME NEW p \in OccProc, TaskSucceeds(p) PROVE Claims'
  <2>1. UpToNow'
    BY <1>6 DEF row, TaskSucceeds, TaskReturns, scheduler, leases
  <2>2. HoldsRow'
    BY <1>6 DEF row, TaskSucceeds, TaskReturns, scheduler, leases
  <2>3. WorksOnLease'
    BY <1>6 DEF row, TaskSucceeds, TaskReturns, scheduler, leases
  <2> QED
    BY <2>1, <2>2, <2>3
<1>7. ASSUME NEW p \in OccProc, TaskFails(p) PROVE Claims'
  <2>1. UpToNow'
    BY <1>7 DEF row, TaskFails, TaskReturns, scheduler, leases
  <2>2. HoldsRow'
    BY <1>7 DEF row, TaskFails, TaskReturns, scheduler, leases
  <2>3. WorksOnLease'
    BY <1>7 DEF row, TaskFails, TaskReturns, scheduler, leases
  <2> QED
    BY <2>1, <2>2, <2>3
<1>8. ASSUME NEW p \in OccProc, Report(p) PROVE Claims'
  <2>1. UpToNow'
    BY SMTT(40), <1>8 DEF row, Report, Registered, Pop, WorkerGone, leases
  <2>2. HoldsRow'
    BY <1>8 DEF row, Report, Registered, Pop, WorkerGone, leases
  <2>3. WorksOnLease'
    BY SMTT(40), <1>8 DEF row, Report, Registered, Pop, WorkerGone, leases
  <2> QED
    BY <2>1, <2>2, <2>3
<1>9. ASSUME NEW p \in OccProc, Stop(p) PROVE Claims'
  <2>1. UpToNow'
    BY <1>9 DEF row, Stop, leases
  <2>2. HoldsRow'
    BY <1>9 DEF row, Stop, leases
  <2>3. WorksOnLease'
    BY <1>9 DEF row, Stop, leases
  <2> QED
    BY <2>1, <2>2, <2>3
<1>10. ASSUME NEW p \in OccProc, OccCrash(p) PROVE Claims'
  <2>1. UpToNow'
    BY <1>10 DEF row, OccCrash, WorkerGone
  <2>2. HoldsRow'
    BY <1>10 DEF row, OccCrash, WorkerGone
  <2>3. WorksOnLease'
    BY <1>10 DEF row, OccCrash, WorkerGone
  <2> QED
    BY <2>1, <2>2, <2>3
<1>11. ASSUME NEW p \in OccProc, OccBoot(p) PROVE Claims'
  <2>1. UpToNow'
    BY <1>11 DEF row, OccBoot, pool, leases
  <2>2. HoldsRow'
    BY <1>11 DEF row, OccBoot, pool, leases
  <2>3. WorksOnLease'
    BY <1>11 DEF row, OccBoot, pool, leases
  <2> QED
    BY <2>1, <2>2, <2>3
<1>12. ASSUME NEW l \in Lease, Complete(l) PROVE Claims'
  <2>1. UpToNow'
    BY <1>12 DEF Complete, Finishes, OccOwns, CloseRow, scheduler, pool
  <2>2. HoldsRow'
    BY <1>12 DEF Complete, Finishes, OccOwns, CloseRow, scheduler, pool
  <2>3. WorksOnLease'
    BY <1>12 DEF Complete, Finishes, OccOwns, CloseRow, scheduler, pool
  <2> QED
    BY <2>1, <2>2, <2>3
<1>13. ASSUME NEW l \in Lease, ReleaseClaim(l) PROVE Claims'
  <2>1. UpToNow'
    BY <1>13 DEF ReleaseClaim, Finishes, OccOwns, CloseRow, scheduler, pool
  <2>2. HoldsRow'
    BY <1>13 DEF ReleaseClaim, Finishes, OccOwns, CloseRow, scheduler, pool
  <2>3. WorksOnLease'
    BY <1>13 DEF ReleaseClaim, Finishes, OccOwns, CloseRow, scheduler, pool
  <2> QED
    BY <2>1, <2>2, <2>3
<1>14. ASSUME NEW l \in Lease, NotFinished(l) PROVE Claims'
  <2>1. UpToNow'
    BY <1>14 DEF row, NotFinished, Finishes, scheduler, pool
  <2>2. HoldsRow'
    BY <1>14 DEF row, NotFinished, Finishes, scheduler, pool
  <2>3. WorksOnLease'
    BY <1>14 DEF row, NotFinished, Finishes, scheduler, pool
  <2> QED
    BY <2>1, <2>2, <2>3
<1>15. ASSUME NEW l \in Lease, Write(l) PROVE Claims'
  <2>1. UpToNow'
    BY <1>15 DEF row, Write, Freed, WorkerGone, pool
  <2>2. HoldsRow'
    BY <1>15 DEF row, Write, Freed, WorkerGone, pool
  <2>3. WorksOnLease'
    BY <1>15 DEF row, Write, Freed, WorkerGone, pool
  <2> QED
    BY <2>1, <2>2, <2>3
<1>16. ASSUME NEW l \in Lease, OccNotRenewed(l) PROVE Claims'
  <2>1. UpToNow'
    BY <1>16 DEF OccNotRenewed, Lost, OccBeating, OccOwns, Freed, Registered, row
  <2>2. HoldsRow'
    BY SMTT(40), <1>16 DEF OccNotRenewed, Lost, OccBeating, OccOwns, Freed, Registered, row
  <2>3. WorksOnLease'
    BY <1>16 DEF OccNotRenewed, Lost, OccBeating, OccOwns, Freed, Registered, row
  <2> QED
    BY <2>1, <2>2, <2>3
<1>17. ASSUME NEW l \in Lease, OccRenew(l) PROVE Claims'
  <2>1. UpToNow'
    BY <1>17 DEF OccRenew, OccOwns, scheduler, pool, leases
  <2>2. HoldsRow'
    BY <1>17 DEF OccRenew, OccOwns, scheduler, pool, leases
  <2>3. WorksOnLease'
    BY <1>17 DEF OccRenew, OccOwns, scheduler, pool, leases
  <2> QED
    BY <2>1, <2>2, <2>3
<1>18. ASSUME Tick PROVE Claims'
  <2>1. clock \in Nat /\ clock' = clock + 1 /\ UNCHANGED <<row, scheduler, pool, leases>>
    BY <1>18 DEF Tick
  <2>2. \A p \in OccProc : target[p] # clock' /\ wslot[p] # clock'
    BY <2>1
  <2>3. \A l \in Lease : slotOf[l] # clock'
    BY <2>1
  <2>4. UpToNow'
    <3>1. \A p \in OccProc : /\ retry[p] <= clock' /\ target[p] <= clock' /\ wslot[p] <= clock'
                             /\ nextRun[p] <= clock' + 1
      <4> TAKE p \in OccProc
      <4>1. retry[p] \in Nat /\ target[p] \in Nat /\ wslot[p] \in Nat /\ nextRun[p] \in Nat
        BY TimesAreNumbers
      <4> QED
        BY <2>1, <4>1
    <3>2. \A l \in Lease : slotOf[l] <= clock'
      <4> TAKE l \in Lease
      <4>1. slotOf[l] \in Nat
        BY TimesAreNumbers
      <4> QED
        BY <2>1, <4>1
    <3>3. occSlot <= clock'
      BY <2>1
    <3> QED
      BY <2>1, <3>1, <3>2, <3>3 DEF row, scheduler, pool, leases
  <2>5. HoldsRow' /\ WorksOnLease'
    BY <2>1, <2>2, <2>3 DEF row, scheduler, pool, leases
  <2> QED
    BY <2>4, <2>5
<1>19. ASSUME OccExpire PROVE Claims'
  BY <1>19 DEF OccExpire, OccActive, OccOwns, Kept, scheduler, pool, leases
<1>20. CASE UNCHANGED occVars
  BY <1>20 DEF occVars, row, scheduler, pool, leases
<1> QED
  BY <1>1, <1>2, <1>3, <1>4, <1>5, <1>6, <1>7, <1>8, <1>9, <1>10, <1>11, <1>12, <1>13, <1>14,
     <1>15, <1>16, <1>17, <1>18, <1>19, <1>20
  DEF OccNext, Scheduler, OccWorker, LeaseThreads, OccClaimRaises, OccRenewRaises

\* Of any number of processes, one at most consumes the latest occurrence: an active
\* claim refuses the others and does not run out while its owner renews it.
THEOREM LatestConsumedOnce ==
  ASSUME InTime PROVE OccSpec => []SingleConsumer
<1>1. OccInv /\ Claims => SingleConsumer
  BY DEF Claims, HoldsRow, WorksOnLease, AtWork, Current, Consumes, SingleConsumer
<1>2. OccInit => OccInv /\ Claims
  BY InitOccInv, InitClaims
<1>3. OccInv /\ Claims /\ [OccNext]_occVars => (OccInv /\ Claims)'
  BY NextOccInv, NextClaims
<1> QED
  BY <1>1, <1>2, <1>3, PTL DEF OccSpec

\* No task outlasts the time to the next schedule time.
PromptTasks == \A p \in OccProc : worker[p] = "working" => wslot[p] = clock

\* A worker that was not cancelled has its row live.
LiveForWorker ==
  \A p \in OccProc : worker[p] = "working" /\ p \notin cancel => rowStatus = "live"

\* The row holds the claim of a running worker, live, as SchedulerOccurrenceLease promises, as
\* long as no task is still at work at the next schedule time of its kind: where the database
\* answers and no thread stalls (InTime), such a task is the only way to lose a claim, whatever
\* crashes, stops or fails.
THEOREM PromptTasksKeepClaims ==
  ASSUME InTime PROVE OccSpec /\ []PromptTasks => [](ClaimKeptForWorker /\ LiveForWorker)
<1>1. ASSUME OccInv, Claims, PromptTasks, NEW p \in OccProc, worker[p] = "working", p \notin cancel
      PROVE  rowStatus = "live" /\ occOwner = p /\ occSlot = wslot[p]
  <2>1. p \notin stopping /\ AtWork(p)
    BY <1>1 DEF Claims, WorksOnLease, AtWork, PromptTasks
  <2>2. PICK l \in Lease : Current(l) /\ Of(l) = p
    BY <1>1, <2>1 DEF Claims, WorksOnLease
  <2> QED
    BY <1>1, <2>1, <2>2 DEF Claims, HoldsRow, AtWork
<1>2. OccInv /\ Claims /\ PromptTasks => ClaimKeptForWorker /\ LiveForWorker
  BY <1>1 DEF ClaimKeptForWorker, LiveForWorker
<1>3. OccInit => OccInv /\ Claims
  BY InitOccInv, InitClaims
<1>4. OccInv /\ Claims /\ [OccNext]_occVars => (OccInv /\ Claims)'
  BY NextOccInv, NextClaims
<1> QED
  BY <1>2, <1>3, <1>4, PTL DEF OccSpec

(***************************************************************************)
(* NotificationDelivery.                                                   *)
(***************************************************************************)

\* What the safety of the ledger rests on: a refusal is a refusal, and a reset
\* does not pull the rows from under a dispatch.
Trusted ==
  /\ "lostAnswer" \notin Events
  /\ "reset" \notin Events \/ "guardLoss" \notin Events

(***************************************************************************)
(* The inductive invariant.                                                *)
(***************************************************************************)

Busy == {"claimed", "refused", "accepted"}

\* The guard serializes the dispatches as long as it cannot be lost.
Serial == "guardLoss" \notin Events => \A p \in Proc : pc[p] # "idle" => guard = p

\* A dispatch that has a publication in hand still has its row, which nobody else
\* can claim, and knows whether its message was accepted.
RowInHand ==
  \A p \in Proc :
    /\ pc[p] \in Busy => token[item[p]] = p /\ status[item[p]] \notin {"none", "failed"}
    /\ pc[p] \in {"claimed", "refused"} => accepted[item[p]] = 0
    /\ pc[p] = "accepted" => accepted[item[p]] = 1

\* A row that can be claimed is one of a publication that was not announced.
Unannounced == \A d \in Pub : status[d] \in {"none", "failed"} => accepted[d] = 0

\* A dispatch remembers as announced what was.
DeliveryHonest == \A p \in Proc : \A d \in delivered[p] : accepted[d] > 0

DeliveryInv == /\ TypeOK /\ Serial /\ RowInHand /\ Unannounced /\ DeliveryHonest
        /\ AnnouncedOnce /\ RecordedWasSent

LEMMA PubsArePubs == NoPub \notin Pub /\ \A n \in 0..MaxPub : 1..n \subseteq Pub
  BY BoundAssumption DEF NoPub, Pub

LEMMA InitDeliveryInv == Init => DeliveryInv
  BY ProcAssumption, BoundAssumption, PubsArePubs
  DEF Init, DeliveryInv, Twice, TypeOK, Serial, RowInHand, Unannounced, DeliveryHonest, AnnouncedOnce,
      RecordedWasSent, Busy, Statuses

\* A plan is a set of publications.
LEMMA PlannedIsPublished == TypeOK => Allowed(Pending) \in SUBSET Pub
  BY PubsArePubs DEF TypeOK, Allowed, Pending

\* Every action keeps the invariant: one step per action.
LEMMA NextDeliveryInv == Trusted /\ DeliveryInv /\ [Next]_vars => DeliveryInv'
<1> SUFFICES ASSUME Trusted, DeliveryInv, [Next]_vars PROVE DeliveryInv'
  OBVIOUS
<1> USE BoundAssumption, ProcAssumption, PubsArePubs
    DEF DeliveryInv, Twice, TypeOK, Serial, RowInHand, Unannounced, DeliveryHonest, AnnouncedOnce,
        RecordedWasSent, Busy, Statuses
<1>1. ASSUME NEW p \in Proc, Begin(p) PROVE DeliveryInv'
  BY <1>1 DEF Begin, ledger
<1>2. ASSUME NEW p \in Proc, Plan(p) PROVE DeliveryInv'
  BY <1>2, PlannedIsPublished DEF Plan, ledger
<1>3. ASSUME NEW p \in Proc, NEW d \in Pub, Claim(p, d) PROVE DeliveryInv'
  BY <1>3 DEF Claim, Chosen, Claimable, ClaimRow
<1>4. ASSUME NEW p \in Proc, NEW d \in Pub, ClaimRefused(p, d) PROVE DeliveryInv'
  BY <1>4 DEF ClaimRefused, Chosen, Claimable, Skip
<1>5. ASSUME NEW p \in Proc, NEW d \in Pub, ClaimRaises(p, d) PROVE DeliveryInv'
  BY <1>5 DEF ClaimRaises, Chosen, Claimable, ClaimRow, Skip, ledger
<1>6. ASSUME NEW p \in Proc, SendAccepted(p) PROVE DeliveryInv'
  BY <1>6 DEF SendAccepted, Sent, Told, ledger
<1>7. ASSUME NEW p \in Proc, SendRefused(p) PROVE DeliveryInv'
  BY <1>7 DEF SendRefused, Told, ledger
<1>8. ASSUME NEW p \in Proc, SendUnanswered(p) PROVE DeliveryInv'
  BY <1>8 DEF Trusted, SendUnanswered
<1>9. ASSUME NEW p \in Proc, RecordFailure(p) PROVE DeliveryInv'
  BY <1>9 DEF RecordFailure, Owns, Recorded
<1>10. ASSUME NEW p \in Proc, RecordSuccess(p) PROVE DeliveryInv'
  BY <1>10 DEF RecordSuccess, Owns, Recorded
<1>11. ASSUME NEW p \in Proc, Checkpoint(p) PROVE DeliveryInv'
  BY <1>11 DEF Checkpoint, Released, ledger
<1>12. ASSUME NEW p \in Proc, CheckpointRaises(p) PROVE DeliveryInv'
  BY <1>12 DEF CheckpointRaises, Released, ledger
<1>13. ASSUME NEW p \in Proc, GuardLost(p) PROVE DeliveryInv'
  BY <1>13 DEF GuardLost, ledger, dispatch
<1>14. ASSUME NEW p \in Proc, Crash(p) PROVE DeliveryInv'
  BY <1>14 DEF Crash, Released, ledger
<1>15. ASSUME NEW d \in Pub, Expire(d) PROVE DeliveryInv'
  BY <1>15 DEF Expire, dispatch
<1>16. CASE Publish
  BY <1>16 DEF Publish, ledger, dispatch
<1>17. CASE Reset
  BY <1>17 DEF Trusted, Reset, dispatch
<1>18. CASE UNCHANGED vars
  BY <1>18 DEF vars, ledger, dispatch
<1> QED
  BY <1>1, <1>2, <1>3, <1>4, <1>5, <1>6, <1>7, <1>8, <1>9, <1>10, <1>11, <1>12,
     <1>13, <1>14, <1>15, <1>16, <1>17, <1>18
  DEF Next, Chooses, Answers, Records

\* DeliveryInv is an invariant when requests are answered and no reset meets a lost guard.
THEOREM DeliveryInvariant == ASSUME Trusted PROVE Spec => []DeliveryInv
<1>1. DeliveryInv /\ [Next]_vars => DeliveryInv'
  BY NextDeliveryInv
<1> QED
  BY InitDeliveryInv, <1>1, PTL DEF Spec

\* Type correctness, and no plan, claim or outcome of one dispatch in the next
\* (LatestNotificationDispatcher), for any number of processes and publications
\* and whatever is lost or reset.
THEOREM DeliveryTypeCorrect == Spec => []TypeOK
<1>1. Init => TypeOK
  BY InitDeliveryInv DEF DeliveryInv
<1>2. TypeOK /\ [Next]_vars => TypeOK'
  <2> SUFFICES ASSUME TypeOK, [Next]_vars PROVE TypeOK'
    OBVIOUS
  <2> USE BoundAssumption, ProcAssumption, PubsArePubs DEF TypeOK, Statuses, Twice
  <2>1. ASSUME NEW p \in Proc, Begin(p) \/ Plan(p) PROVE TypeOK'
    BY <2>1, PlannedIsPublished DEF Begin, Plan, ledger
  <2>2. ASSUME NEW p \in Proc, NEW d \in Pub, Chooses(p, d) \/ ClaimRaises(p, d)
        PROVE TypeOK'
    BY <2>2 DEF Chooses, Claim, ClaimRefused, ClaimRaises, Chosen, ClaimRow, Skip, ledger
  <2>3. ASSUME NEW p \in Proc, Answers(p) PROVE TypeOK'
    BY <2>3 DEF Answers, SendAccepted, SendRefused, SendUnanswered, Sent, Told, ledger
  <2>4. ASSUME NEW p \in Proc, Records(p) PROVE TypeOK'
    BY <2>4 DEF Records, RecordFailure, RecordSuccess, Recorded
  <2>5. ASSUME NEW p \in Proc, Checkpoint(p) \/ CheckpointRaises(p) \/ Crash(p)
        PROVE TypeOK'
    BY <2>5 DEF Checkpoint, CheckpointRaises, Crash, Released, ledger
  <2>6. CASE Publish \/ Reset \/ UNCHANGED vars
    BY <2>6 DEF Publish, Reset, vars, ledger, dispatch
  <2>7. ASSUME NEW p \in Proc, GuardLost(p) PROVE TypeOK'
    BY <2>7 DEF GuardLost, ledger, dispatch
  <2>8. ASSUME NEW d \in Pub, Expire(d) PROVE TypeOK'
    BY <2>8 DEF Expire, dispatch
  <2> QED
    BY <2>1, <2>2, <2>3, <2>4, <2>5, <2>6, <2>7, <2>8 DEF Next
<1> QED
  BY <1>1, <1>2, PTL DEF Spec

\* No message is sent twice (claim_latest_notification_delivery), whatever crashes,
\* raises or loses the guard, while Telegram answers and no reset meets a lost guard.
THEOREM NeverAnnouncedTwice == ASSUME Trusted PROVE Spec => []AnnouncedOnce
<1>1. DeliveryInv => AnnouncedOnce
  BY DEF DeliveryInv
<1> QED
  BY DeliveryInvariant, <1>1, PTL

\* The state and the ledger record only messages that Telegram accepted
\* (_record_delivery, _persist_delivery_updates).
THEOREM RecordedAlwaysSent == ASSUME Trusted PROVE Spec => []RecordedWasSent
<1>1. DeliveryInv => RecordedWasSent
  BY DEF DeliveryInv
<1> QED
  BY DeliveryInvariant, <1>1, PTL

\* The ledger and the state together implement AnnouncementLedger: whatever raises, crashes or
\* loses the guard, an attempt is open before a message is sent and stays open until the message
\* was refused, and nothing is recorded that was not accepted.
THEOREM AnnouncementsKept == ASSUME Trusted PROVE Spec => KeepsAnnouncements
<1> DEFINE mapped == <<Attempted, Accepted, RecordedAs>>
<1>1. Init => Announcements!Init
  BY DEF Init, Announcements!Init, Attempted, Accepted, RecordedAs
<1>2. DeliveryInv /\ [Next]_vars => [Announcements!Next]_(Announcements!vars)
  <2> SUFFICES ASSUME DeliveryInv, [Next]_vars PROVE [Announcements!Next]_(Announcements!vars)
    OBVIOUS
  <2>0. TypeOK /\ RowInHand /\ DeliveryHonest
    BY DEF DeliveryInv
  <2>1. ASSUME UNCHANGED <<status, accepted, notified>> PROVE UNCHANGED mapped
    BY <2>1 DEF Attempted, Accepted, RecordedAs
  <2>2. ASSUME NEW d \in Pub, NEW p \in Proc, Claimable(d), ClaimRow(p, d), UNCHANGED <<accepted, notified>>
        PROVE  Announcements!Attempt(d)
    <3>1. status' = [status EXCEPT ![d] = "claimed"] /\ status[d] \in {"none", "failed"}
      BY <2>2 DEF ClaimRow, Claimable
    <3>2. d \notin Attempted /\ Attempted' = Attempted \cup {d}
      BY <2>0, <3>1 DEF Attempted, TypeOK
    <3>3. Accepted' = Accepted /\ RecordedAs' = RecordedAs
      BY <2>0, <2>2, <3>1 DEF Accepted, RecordedAs, TypeOK
    <3> QED
      BY <3>2, <3>3 DEF Announcements!Attempt
  <2>3. ASSUME NEW p \in Proc, SendAccepted(p)
        PROVE  item[p] \in Pub /\ Announcements!Accept(item[p])
    <3>1. /\ pc[p] = "claimed" /\ UNCHANGED <<status, notified>>
          /\ accepted' = [accepted EXCEPT ![item[p]] = IF @ < Twice THEN @ + 1 ELSE @]
      BY <2>3 DEF SendAccepted, Sent, Told, ledger
    <3>2. item[p] \in Pub /\ accepted[item[p]] = 0 /\ status[item[p]] \in Statuses \ {"none", "failed"}
      BY <2>0, <3>1 DEF TypeOK, RowInHand, Busy
    <3>3. item[p] \in Attempted \ Accepted
      BY <3>2 DEF Attempted, Accepted, Statuses
    <3>4. Accepted' = Accepted \cup {item[p]}
      BY <2>0, <3>1, <3>2 DEF Accepted, TypeOK, Twice
    <3> QED
      BY <3>1, <3>2, <3>3, <3>4 DEF Announcements!Accept, Attempted, RecordedAs
  <2>4. ASSUME NEW p \in Proc, RecordFailure(p)
        PROVE  (item[p] \in Pub /\ Announcements!Refuse(item[p])) \/ UNCHANGED mapped
    <3>1. CASE UNCHANGED status
      BY <2>1, <2>4, <3>1 DEF RecordFailure, Recorded
    <3>2. CASE Owns(p, item[p]) /\ status' = [status EXCEPT ![item[p]] = "failed"]
      <4>1. /\ pc[p] = "refused" /\ UNCHANGED <<accepted, notified>>
            /\ status[item[p]] \in {"claimed", "stale"}
        BY <2>4, <3>2 DEF RecordFailure, Recorded, Owns
      <4>2. item[p] \in Pub /\ accepted[item[p]] = 0
        BY <2>0, <4>1 DEF TypeOK, RowInHand, Busy
      <4>3. item[p] \in Attempted \ Accepted /\ Attempted' = Attempted \ {item[p]}
        BY <2>0, <3>2, <4>1, <4>2 DEF Attempted, Accepted, TypeOK
      <4>4. Accepted' = Accepted /\ RecordedAs' = RecordedAs
        BY <2>0, <3>2, <4>1, <4>2 DEF Accepted, RecordedAs, TypeOK
      <4> QED
        BY <4>2, <4>3, <4>4 DEF Announcements!Refuse
    <3> QED
      BY <2>4, <3>1, <3>2 DEF RecordFailure
  <2>5. ASSUME NEW p \in Proc, RecordSuccess(p)
        PROVE  (Announcements!Record({item[p]}) /\ {item[p]} \in SUBSET Pub) \/ UNCHANGED mapped
    <3>1. CASE UNCHANGED status
      BY <2>1, <2>5, <3>1 DEF RecordSuccess, Recorded
    <3>2. CASE Owns(p, item[p]) /\ status' = [status EXCEPT ![item[p]] = "sent"]
      <4>1. /\ pc[p] = "accepted" /\ UNCHANGED <<accepted, notified>>
            /\ status[item[p]] \in {"claimed", "stale"}
        BY <2>5, <3>2 DEF RecordSuccess, Recorded, Owns
      <4>2. item[p] \in Pub /\ item[p] \in Accepted
        BY <2>0, <4>1 DEF TypeOK, RowInHand, Busy, Accepted
      <4>3. Attempted' = Attempted /\ Accepted' = Accepted
        BY <2>0, <3>2, <4>1, <4>2 DEF Attempted, Accepted, TypeOK
      <4>4. RecordedAs' = RecordedAs \cup {item[p]}
        BY <2>0, <3>2, <4>1, <4>2 DEF RecordedAs, TypeOK
      <4> QED
        BY <4>2, <4>3, <4>4 DEF Announcements!Record
    <3> QED
      BY <2>5, <3>1, <3>2 DEF RecordSuccess
  <2>6. ASSUME NEW p \in Proc, Checkpoint(p)
        PROVE  Announcements!Record(delivered[p]) /\ delivered[p] \in SUBSET Pub
    <3>1. notified' = notified \cup delivered[p] /\ UNCHANGED <<status, accepted>>
      BY <2>6 DEF Checkpoint, ledger
    <3>2. delivered[p] \subseteq Accepted /\ delivered[p] \in SUBSET Pub
      BY <2>0 DEF TypeOK, DeliveryHonest, Accepted
    <3> QED
      BY <3>1, <3>2 DEF Announcements!Record, Attempted, Accepted, RecordedAs
  <2>7. ASSUME NEW d \in Pub, status[d] \in {"claimed", "stale"}, NEW new \in {"stale", "unknown"},
               status' = [status EXCEPT ![d] = new], UNCHANGED <<accepted, notified>>
        PROVE  UNCHANGED mapped
    BY <2>0, <2>7 DEF Attempted, Accepted, RecordedAs, TypeOK
  <2>8. ASSUME NEW p \in Proc, NEW d \in Pub, ClaimRefused(p, d) PROVE UNCHANGED mapped
    <3>1. CASE status[d] = "stale"
      BY <2>7, <2>8, <3>1 DEF ClaimRefused, Skip
    <3>2. CASE status[d] # "stale"
      <4>1. status' = status
        BY <2>0, <2>8, <3>2 DEF ClaimRefused, TypeOK
      <4> QED
        BY <2>1, <2>8, <4>1 DEF ClaimRefused, Skip
    <3> QED
      BY <3>1, <3>2
  <2>9. ASSUME NEW d \in Pub, Expire(d) PROVE UNCHANGED mapped
    BY <2>7, <2>9 DEF Expire
  <2>10. ASSUME Reset PROVE Announcements!Forget
    BY <2>10, BoundAssumption DEF Reset, Announcements!Forget, Attempted, Accepted, RecordedAs
  <2>11. ASSUME NEW p \in Proc, NEW d \in Pub, Claim(p, d) \/ ClaimRaises(p, d)
         PROVE  Announcements!Attempt(d) \/ UNCHANGED mapped
    BY <2>1, <2>2, <2>11 DEF Claim, ClaimRaises, Skip, ledger
  <2>12. ASSUME NEW p \in Proc, Begin(p) \/ Plan(p) \/ SendRefused(p) \/ CheckpointRaises(p) \/ GuardLost(p) \/ Crash(p)
         PROVE  UNCHANGED mapped
    BY <2>1, <2>12 DEF Begin, Plan, SendRefused, Told, CheckpointRaises, GuardLost, Crash, ledger
  <2>13. ASSUME Publish \/ UNCHANGED vars PROVE UNCHANGED mapped
    BY <2>1, <2>13 DEF Publish, vars, ledger
  <2>14. ASSUME NEW p \in Proc PROVE ~SendUnanswered(p)
    BY DEF Trusted, SendUnanswered
  <2> HIDE DEF mapped
  <2>15. UNCHANGED mapped => UNCHANGED Announcements!vars
    BY DEF mapped, Announcements!vars
  <2> QED
    BY <2>3, <2>4, <2>5, <2>6, <2>8, <2>9, <2>10, <2>11, <2>12, <2>13, <2>14, <2>15
       DEF Next, Chooses, Answers, Records, Announcements!Next
<1> QED
  BY DeliveryInvariant, <1>1, <1>2, PTL DEF Spec, KeepsAnnouncements, Announcements!Spec

(***************************************************************************)
(* EventBridgeRotation.                                                    *)
(***************************************************************************)

(***************************************************************************)
(* The inductive invariant.                                                *)
(***************************************************************************)

\* Generations that the plugin refused, as far as anyone remembers.
Known == (refused \cup {mem, journal}) \ {NoGen}

\* A new generation is new.
Fresh ==
  /\ current < next /\ pending < next /\ journal < next /\ mem < next
  /\ cred < next /\ wire < next /\ plugin < next /\ event.shown < next
  /\ \A g \in refused : g < next
  /\ current # NoGen => current # pending

\* What an attempt knows of its generation.
AttemptKnows ==
  /\ rpc # "idle" => pending \in {cred, NoGen}
  /\ rpc = "prepared" => cred \notin {wire, plugin, event.shown} /\ (configured => pending = cred)
  /\ rpc = "pushed" => wire \in {cred, NoGen}
  /\ rpc = "confirmed" => plugin \in {cred, NoGen} /\ wire = NoGen
  /\ rpc \in {"prepared", "pushed", "confirmed"} => cred \notin Known
  /\ rpc \in {"rejected", "journaled", "marked"} =>
       wire = NoGen /\ cred \notin {current, plugin, event.shown}
  /\ rpc \in {"journaled", "marked"} /\ pending = cred => mem = cred

\* A push on its way is one of the record, has not arrived, and no other was sent
\* after it.
InOrder ==
  wire # NoGen =>
    /\ wire \notin {plugin, event.shown}
    /\ configured => wire \in {current, pending}
    /\ wire = current => rpc \in {"idle", "prepared"} /\ pending \notin {plugin, event.shown}

\* The evidence of an event: the pending generation took over, or, after the grace
\* period, what it shows is what the plugin has.
Evidence ==
  /\ event.shown = pending /\ pending # NoGen => plugin \in {pending, NoGen} /\ wire = NoGen
  /\ old => /\ wire = NoGen /\ rpc # "prepared"
            /\ event.at # "none" => plugin \in {event.shown, NoGen}

\* A refused generation is nowhere, and a recorded refusal of the pending one can
\* be found.
Refusals ==
  /\ \A g \in Known : g \notin {current, wire, plugin, event.shown}
  /\ journal \in refused \cup {NoGen}
  /\ marked => pending \in refused
  /\ pending \in refused => marked \/ journal = pending
  /\ pending \in refused /\ active = pending => mem = pending

BridgeInv == /\ BridgeTypeOK /\ Fresh /\ AttemptKnows /\ InOrder /\ Evidence /\ Refusals
        /\ SharedGeneration

\* Arithmetic of generations.
LEMMA Generations ==
  /\ NoGen \notin Gen /\ Unreadable \notin MaybeGen
  /\ MaybeGen \subseteq Nat /\ Gen \subseteq MaybeGen /\ NoGen \in MaybeGen /\ MaxGen \in Nat
  /\ \A g \in MaybeGen : g # NoGen => g \in Gen /\ g <= MaxGen /\ NoGen < g
  /\ \A n \in 1..(MaxGen + 1) : n \in Nat /\ NoGen < n /\ (n <= MaxGen => n \in Gen)
  BY BridgeBoundAssumption DEF Gen, MaybeGen, NoGen, Unreadable

\* What a fresh generation is.
LEMMA NextGeneration ==
  ASSUME BridgeTypeOK, Fresh, next <= MaxGen
  PROVE  /\ next \in Gen /\ next + 1 \in 1..(MaxGen + 1)
         /\ \A g \in MaybeGen : g < next => g < next + 1 /\ g # next
         /\ next < next + 1
<1>1. next \in Nat /\ MaxGen \in Nat /\ next > 0
  BY Generations DEF BridgeTypeOK
<1>2. next \in Gen /\ next + 1 \in 1..(MaxGen + 1) /\ next < next + 1
  BY <1>1 DEF Gen
<1>3. \A g \in Nat : g < next => g < next + 1 /\ g # next
  BY <1>1
<1> QED
  BY <1>2, <1>3, Generations

LEMMA InitBridgeInv == BridgeInit => BridgeInv
<1> SUFFICES ASSUME BridgeInit PROVE BridgeInv
  OBVIOUS
<1> USE Generations DEF BridgeInit, NoEvent
<1>1. BridgeTypeOK
  <2>1. next \in 1..(MaxGen + 1)
    BY BridgeBoundAssumption
  <2>2. event \in [at : {"none", "sent", "promote", "reconcile"},
                   shown : MaybeGen, seen : MaybeGen]
    OBVIOUS
  <2> QED
    BY <2>1, <2>2 DEF BridgeTypeOK, Phases
<1>2. Fresh
  BY DEF Fresh, NoGen
<1>3. AttemptKnows /\ InOrder /\ Evidence /\ SharedGeneration
  BY DEF AttemptKnows, InOrder, Evidence, SharedGeneration
<1>4. Refusals
  BY DEF Refusals, Known
<1> QED
  BY <1>1, <1>2, <1>3, <1>4 DEF BridgeInv

\* Every action keeps the invariant: one step per action, one per conjunct where the
\* action writes several of the variables they relate.
LEMMA NextBridgeInv == BridgeInv /\ [BridgeNext]_bridgeVars => BridgeInv'
<1> SUFFICES ASSUME BridgeInv, [BridgeNext]_bridgeVars PROVE BridgeInv'
  OBVIOUS
<1> USE Generations
    DEF BridgeInv, BridgeTypeOK, Fresh, AttemptKnows, InOrder, Evidence, Refusals, Known,
        SharedGeneration, Phases, Readings, Rejected, Unknown, PendingAccepted,
        record, local, attempt, remote, NoEvent
<1>1. ASSUME BeginRotation PROVE BridgeInv'
  <2> USE NextGeneration
  <2>1. BridgeTypeOK'
    BY <1>1 DEF BeginRotation, MayRotate, PrepareRecord, SetPending, Forget
  <2>2. Fresh'
    BY <1>1 DEF BeginRotation, MayRotate, PrepareRecord, SetPending, Forget
  <2>3. AttemptKnows'
    BY <1>1 DEF BeginRotation, MayRotate, PrepareRecord, SetPending, Forget
  <2>4. InOrder'
    BY <1>1 DEF BeginRotation, MayRotate, PrepareRecord, SetPending, Forget
  <2>5. Evidence'
    BY <1>1 DEF BeginRotation, MayRotate, PrepareRecord, SetPending, Forget
  <2>6. Refusals'
    BY <1>1 DEF BeginRotation, MayRotate, PrepareRecord, SetPending, Forget
  <2>7. SharedGeneration'
    BY <1>1 DEF BeginRotation, MayRotate, PrepareRecord, SetPending, Forget
  <2> QED
    BY <2>1, <2>2, <2>3, <2>4, <2>5, <2>6, <2>7 DEF BridgeInv
<1>2. ASSUME BeginRaises PROVE BridgeInv'
  <2> USE NextGeneration
  <2>1. BridgeTypeOK'
    BY <1>2 DEF BeginRaises, MayRotate, PrepareRecord, SetPending
  <2>2. Fresh'
    BY <1>2 DEF BeginRaises, MayRotate, PrepareRecord, SetPending
  <2>3. AttemptKnows'
    BY <1>2 DEF BeginRaises, MayRotate, PrepareRecord, SetPending
  <2>4. InOrder'
    BY <1>2 DEF BeginRaises, MayRotate, PrepareRecord, SetPending
  <2>5. Evidence'
    BY <1>2 DEF BeginRaises, MayRotate, PrepareRecord, SetPending
  <2>6. Refusals'
    BY <1>2 DEF BeginRaises, MayRotate, PrepareRecord, SetPending
  <2>7. SharedGeneration'
    BY <1>2 DEF BeginRaises, MayRotate, PrepareRecord, SetPending
  <2> QED
    BY <2>1, <2>2, <2>3, <2>4, <2>5, <2>6, <2>7 DEF BridgeInv
<1>3. ASSUME Push PROVE BridgeInv'
  BY <1>3 DEF Push, Go
<1>4. ASSUME Confirmed PROVE BridgeInv'
  BY <1>4 DEF Confirmed, Go
<1>5. ASSUME Refuse PROVE BridgeInv'
  BY <1>5 DEF Refuse, Go
<1>6. ASSUME Unanswered PROVE BridgeInv'
  BY <1>6 DEF Unanswered, Ended
<1>7. ASSUME Promote PROVE BridgeInv'
  <2>1. BridgeTypeOK'
    BY <1>7 DEF Promote, PromotedAlready, Promotes, PromoteRecord, PromoteJournal,
       PromoteFails, SetPending, Forget, Ended
  <2>2. Fresh'
    BY <1>7 DEF Promote, PromotedAlready, Promotes, PromoteRecord, PromoteJournal,
       PromoteFails, SetPending, Forget, Ended
  <2>3. AttemptKnows'
    BY <1>7 DEF Promote, PromotedAlready, Promotes, PromoteRecord, PromoteJournal,
       PromoteFails, SetPending, Forget, Ended
  <2>4. InOrder'
    BY <1>7 DEF Promote, PromotedAlready, Promotes, PromoteRecord, PromoteJournal,
       PromoteFails, SetPending, Forget, Ended
  <2>5. Evidence'
    BY <1>7 DEF Promote, PromotedAlready, Promotes, PromoteRecord, PromoteJournal,
       PromoteFails, SetPending, Forget, Ended
  <2>6. Refusals'
    BY <1>7 DEF Promote, PromotedAlready, Promotes, PromoteRecord, PromoteJournal,
       PromoteFails, SetPending, Forget, Ended
  <2>7. SharedGeneration'
    BY <1>7 DEF Promote, PromotedAlready, Promotes, PromoteRecord, PromoteJournal,
       PromoteFails, SetPending, Forget, Ended
  <2> QED
    BY <2>1, <2>2, <2>3, <2>4, <2>5, <2>6, <2>7 DEF BridgeInv
<1>8. ASSUME RememberInJournal PROVE BridgeInv'
  <2>1. BridgeTypeOK'
    BY <1>8 DEF RememberInJournal, Go
  <2>2. Fresh'
    BY <1>8 DEF RememberInJournal, Go
  <2>3. AttemptKnows'
    BY <1>8 DEF RememberInJournal, Go
  <2>4. InOrder'
    BY <1>8 DEF RememberInJournal, Go
  <2>5. Evidence'
    BY <1>8 DEF RememberInJournal, Go
  <2>6. Refusals'
    BY <1>8 DEF RememberInJournal, Go
  <2>7. SharedGeneration'
    BY <1>8 DEF RememberInJournal, Go
  <2> QED
    BY <2>1, <2>2, <2>3, <2>4, <2>5, <2>6, <2>7 DEF BridgeInv
<1>9. ASSUME RememberInRecord PROVE BridgeInv'
  <2>1. BridgeTypeOK'
    BY <1>9 DEF RememberInRecord, Go, Forget
  <2>2. Fresh'
    BY <1>9 DEF RememberInRecord, Go, Forget
  <2>3. AttemptKnows'
    BY <1>9 DEF RememberInRecord, Go, Forget
  <2>4. InOrder'
    BY <1>9 DEF RememberInRecord, Go, Forget
  <2>5. Evidence'
    BY <1>9 DEF RememberInRecord, Go, Forget
  <2>6. Refusals'
    <3>1. rpc = "journaled" /\ cred # NoGen /\ wire = NoGen
          /\ cred \notin {current, plugin, event.shown} /\ pending \in {cred, NoGen}
      BY <1>9 DEF RememberInRecord
    <3>2. UNCHANGED <<current, pending, active, wire, plugin, event>>
      BY <1>9 DEF RememberInRecord
    <3>3. CASE marked' = TRUE /\ refused' = refused \cup {cred} /\ pending = cred
               /\ UNCHANGED <<mem, journal>>
      BY <3>1, <3>2, <3>3
    <3>4. CASE pending # cred /\ mem' \in {mem, NoGen} /\ journal' \in {journal, NoGen}
               /\ UNCHANGED <<marked, refused>>
      BY <3>1, <3>2, <3>4
    <3>5. CASE UNCHANGED <<marked, refused, mem, journal>>
      BY <3>1, <3>2, <3>5
    <3> QED
      BY <1>9, <3>3, <3>4, <3>5 DEF RememberInRecord, Forget
  <2>7. SharedGeneration'
    BY <1>9 DEF RememberInRecord, Go, Forget
  <2> QED
    BY <2>1, <2>2, <2>3, <2>4, <2>5, <2>6, <2>7 DEF BridgeInv
<1>10. ASSUME Cancel PROVE BridgeInv'
  <2>1. BridgeTypeOK'
    BY <1>10 DEF Cancel, CancelRecord, SetPending, Forget, Ended
  <2>2. Fresh'
    BY <1>10 DEF Cancel, CancelRecord, SetPending, Forget, Ended
  <2>3. AttemptKnows'
    BY <1>10 DEF Cancel, CancelRecord, SetPending, Forget, Ended
  <2>4. InOrder'
    BY <1>10 DEF Cancel, CancelRecord, SetPending, Forget, Ended
  <2>5. Evidence'
    BY <1>10 DEF Cancel, CancelRecord, SetPending, Forget, Ended
  <2>6. Refusals'
    BY <1>10 DEF Cancel, CancelRecord, SetPending, Forget, Ended
  <2>7. SharedGeneration'
    BY <1>10 DEF Cancel, CancelRecord, SetPending, Forget, Ended
  <2> QED
    BY <2>1, <2>2, <2>3, <2>4, <2>5, <2>6, <2>7 DEF BridgeInv
<1>11. ASSUME Apply PROVE BridgeInv'
  BY <1>11 DEF Apply
<1>12. ASSUME Drop PROVE BridgeInv'
  BY <1>12 DEF Drop
<1>13. ASSUME Send PROVE BridgeInv'
  <2>1. BridgeTypeOK'
    BY <1>13 DEF Send
  <2>2. Fresh'
    BY <1>13 DEF Send
  <2>3. AttemptKnows'
    BY <1>13 DEF Send
  <2>4. InOrder'
    BY <1>13 DEF Send
  <2>5. Evidence'
    BY <1>13 DEF Send
  <2>6. Refusals'
    BY <1>13 DEF Send
  <2>7. SharedGeneration'
    BY <1>13 DEF Send
  <2> QED
    BY <2>1, <2>2, <2>3, <2>4, <2>5, <2>6, <2>7 DEF BridgeInv
<1>14. ASSUME NEW j \in Readings, Authenticate(j) PROVE BridgeInv'
  <2>1. BridgeTypeOK'
    BY <1>14 DEF Authenticate, Decision
  <2>2. Fresh'
    BY <1>14 DEF Authenticate, Decision
  <2>3. AttemptKnows'
    BY <1>14 DEF Authenticate, Decision
  <2>4. InOrder'
    BY <1>14 DEF Authenticate, Decision
  <2>5. Evidence'
    BY <1>14 DEF Authenticate, Decision
  <2>6. Refusals'
    BY <1>14 DEF Authenticate, Decision
  <2>7. SharedGeneration'
    BY <1>14 DEF Authenticate, Decision
  <2> QED
    BY <2>1, <2>2, <2>3, <2>4, <2>5, <2>6, <2>7 DEF BridgeInv
<1>15. ASSUME PromoteByEvent PROVE BridgeInv'
  <2>1. BridgeTypeOK'
    BY ZenonT(40), <1>15 DEF PromoteByEvent, PromotedAlready, Promotes, PromoteRecord,
       PromoteJournal, PromoteFails, SetPending, Forget, ForgetLocal
  <2>2. Fresh'
    BY <1>15 DEF PromoteByEvent, PromotedAlready, Promotes, PromoteRecord,
       PromoteJournal, PromoteFails, SetPending, Forget, ForgetLocal
  <2>3. AttemptKnows'
    BY <1>15 DEF PromoteByEvent, PromotedAlready, Promotes, PromoteRecord,
       PromoteJournal, PromoteFails, SetPending, Forget, ForgetLocal
  <2>4. InOrder'
    BY <1>15 DEF PromoteByEvent, PromotedAlready, Promotes, PromoteRecord,
       PromoteJournal, PromoteFails, SetPending, Forget, ForgetLocal
  <2>5. Evidence'
    BY <1>15 DEF PromoteByEvent, PromotedAlready, Promotes, PromoteRecord,
       PromoteJournal, PromoteFails, SetPending, Forget, ForgetLocal
  <2>6. Refusals'
    BY <1>15 DEF PromoteByEvent, PromotedAlready, Promotes, PromoteRecord,
       PromoteJournal, PromoteFails, SetPending, Forget, ForgetLocal
  <2>7. SharedGeneration'
    BY <1>15 DEF PromoteByEvent, PromotedAlready, Promotes, PromoteRecord,
       PromoteJournal, PromoteFails, SetPending, Forget, ForgetLocal
  <2> QED
    BY <2>1, <2>2, <2>3, <2>4, <2>5, <2>6, <2>7 DEF BridgeInv
<1>16. ASSUME Reconcile PROVE BridgeInv'
  <2>1. BridgeTypeOK'
    BY <1>16 DEF Reconcile, Abandoned, SetPending
  <2>2. Fresh'
    BY <1>16 DEF Reconcile, Abandoned, SetPending
  <2>3. AttemptKnows'
    BY <1>16 DEF Reconcile, Abandoned, SetPending
  <2>4. InOrder'
    BY <1>16 DEF Reconcile, Abandoned, SetPending
  <2>5. Evidence'
    BY <1>16 DEF Reconcile, Abandoned, SetPending
  <2>6. Refusals'
    BY <1>16 DEF Reconcile, Abandoned, SetPending
  <2>7. SharedGeneration'
    BY <1>16 DEF Reconcile, Abandoned, SetPending
  <2> QED
    BY <2>1, <2>2, <2>3, <2>4, <2>5, <2>6, <2>7 DEF BridgeInv
<1>17. ASSUME Age PROVE BridgeInv'
  BY <1>17 DEF Age
<1>18. ASSUME Delete PROVE BridgeInv'
  BY ZenonT(40), <1>18 DEF Delete, SetPending, Forget
<1>19. ASSUME Reinstall PROVE BridgeInv'
  BY <1>19 DEF Reinstall
<1>20. ASSUME BridgeCrash PROVE BridgeInv'
  BY <1>20 DEF BridgeCrash
<1>21. CASE UNCHANGED bridgeVars
  BY <1>21 DEF bridgeVars
<1> HIDE DEF BridgeInv
<1> QED
  BY <1>1, <1>2, <1>3, <1>4, <1>5, <1>6, <1>7, <1>8, <1>9, <1>10, <1>11, <1>12, <1>13,
     <1>14, <1>15, <1>16, <1>17, <1>18, <1>19, <1>20, <1>21 DEF BridgeNext, Answer, Settle,
     Handle

\* BridgeInv is an invariant.
THEOREM BridgeInvariant == BridgeSpec => []BridgeInv
  BY InitBridgeInv, NextBridgeInv, PTL DEF BridgeSpec

\* Type correctness, no attempt left active, no generation of a removed server
\* (finish_event_bridge_credential_rotation_attempt, _remove_emby_server_configuration).
THEOREM BridgeTypeCorrect == BridgeSpec => []BridgeTypeOK
<1>1. BridgeInv => BridgeTypeOK
  BY DEF BridgeInv
<1> QED
  BY BridgeInvariant, <1>1, PTL

\* The plugin and OctoHubs always share a generation, however many rotations are
\* refused, lost, interrupted or repeated (provision_event_bridge_credential).
THEOREM AlwaysShared == BridgeSpec => []SharedGeneration
<1>1. BridgeInv => SharedGeneration
  BY DEF BridgeInv
<1> QED
  BY BridgeInvariant, <1>1, PTL

\* A recorded refusal is never forgotten while its generation is pending, and the
\* generation never becomes the current one (_pending_rejection_status).
THEOREM RejectedForGood == BridgeSpec => []RejectedStaysOut
<1>1. BridgeInv => RejectedStaysOut
  <2> SUFFICES ASSUME BridgeInv, NEW g \in refused
               PROVE  g # current /\ \A j \in Readings : g = pending => ~PendingAccepted(j)
    BY DEF RejectedStaysOut
  <2>1. g \in Known
    BY Generations DEF BridgeInv, BridgeTypeOK, Known
  <2>2. g # current
    BY <2>1 DEF BridgeInv, Refusals
  <2>3. ASSUME NEW j \in Readings, g = pending PROVE ~PendingAccepted(j)
    <3>1. marked \/ journal = pending
      BY <2>3 DEF BridgeInv, Refusals
    <3>2. CASE active = pending
      BY <2>3, <3>2 DEF BridgeInv, Refusals, PendingAccepted, Rejected
    <3>3. CASE active # pending
      BY <2>3, <3>1, <3>3 DEF Readings, PendingAccepted, Rejected, Unknown
    <3> QED
      BY <3>2, <3>3
  <2> QED
    BY <2>2, <2>3
<1> QED
  BY BridgeInvariant, <1>1, PTL

(***************************************************************************)
(* Where pushes reach the plugin, which keeps its credential, and the      *)
(* process and its database do not fail, whoever cannot connect has a      *)
(* plugin whose events settle the rotation.                                *)
(***************************************************************************)
NothingLost == {"lostPush", "dbError", "crash", "reinstall"} \cap BridgeEvents = {}

\* A generation becomes the current one only after a push to the plugin; the push of a
\* pending one was sent before its attempt ends, and the next waits for it to arrive.
Reached ==
  /\ current # NoGen => plugin # NoGen \/ (rpc = "prepared" /\ wire # NoGen)
  /\ pending # NoGen /\ rpc \in {"idle", "pushed", "confirmed"} => plugin # NoGen \/ wire # NoGen
  /\ event.shown # NoGen => plugin # NoGen

LEMMA NextReached == NothingLost /\ BridgeInv /\ Reached /\ [BridgeNext]_bridgeVars => Reached'
<1> SUFFICES ASSUME NothingLost, BridgeInv, Reached, [BridgeNext]_bridgeVars PROVE Reached'
  OBVIOUS
<1> USE Generations
    DEF NothingLost, BridgeDbError, BridgeInv, BridgeTypeOK, AttemptKnows, InOrder, Phases, Reached,
        Rejected, Unknown, PendingAccepted, record, local, attempt, remote, NoEvent
<1>1. ASSUME BeginRotation PROVE Reached'
  BY <1>1 DEF BeginRotation, MayRotate, PrepareRecord, SetPending, Readings
<1>2. ASSUME BeginRaises PROVE Reached'
  BY <1>2 DEF BeginRaises
<1>3. ASSUME Push PROVE Reached'
  BY <1>3 DEF Push, Go
<1>4. ASSUME Confirmed PROVE Reached'
  BY <1>4 DEF Confirmed, Go
<1>5. ASSUME Refuse PROVE Reached'
  BY <1>5 DEF Refuse, Go
<1>6. ASSUME Unanswered PROVE Reached'
  BY <1>6 DEF Unanswered, Ended
<1>7. ASSUME Promote PROVE Reached'
  BY <1>7 DEF Promote, PromotedAlready, Promotes, PromoteRecord, PromoteFails, SetPending, Ended
<1>8. ASSUME RememberInJournal PROVE Reached'
  BY <1>8 DEF RememberInJournal, Go
<1>9. ASSUME RememberInRecord PROVE Reached'
  BY <1>9 DEF RememberInRecord, Go
<1>10. ASSUME Cancel PROVE Reached'
  BY <1>10 DEF Cancel, CancelRecord, SetPending, Ended
<1>11. ASSUME Apply PROVE Reached'
  BY <1>11 DEF Apply
<1>12. ASSUME Drop PROVE Reached'
  BY <1>12 DEF Drop
<1>13. ASSUME Send PROVE Reached'
  BY <1>13 DEF Send
<1>14. ASSUME NEW j \in Readings, Authenticate(j) PROVE Reached'
  BY <1>14 DEF Authenticate, Decision
<1>15. ASSUME PromoteByEvent PROVE Reached'
  BY <1>15 DEF PromoteByEvent, PromotedAlready, Promotes, PromoteRecord, PromoteFails, SetPending
<1>16. ASSUME Reconcile PROVE Reached'
  BY <1>16 DEF Reconcile, SetPending
<1>17. ASSUME Age PROVE Reached'
  BY <1>17 DEF Age
<1>18. ASSUME Delete PROVE Reached'
  BY <1>18 DEF Delete, SetPending
<1>19. ASSUME Reinstall PROVE Reached'
  BY <1>19 DEF Reinstall
<1>20. ASSUME BridgeCrash PROVE Reached'
  BY <1>20 DEF BridgeCrash
<1>21. CASE UNCHANGED bridgeVars
  BY <1>21 DEF bridgeVars
<1> QED
  BY <1>1, <1>2, <1>3, <1>4, <1>5, <1>6, <1>7, <1>8, <1>9, <1>10, <1>11, <1>12, <1>13, <1>14,
     <1>15, <1>16, <1>17, <1>18, <1>19, <1>20, <1>21
  DEF BridgeNext, Answer, Settle, Handle

LEMMA ReachedInvariant ==
  ASSUME NothingLost PROVE BridgeSpec => []Reached
<1>1. BridgeInit => Reached
  BY DEF BridgeInit, Reached, NoEvent, NoGen
<1> QED
  BY <1>1, NextReached, BridgeInvariant, PTL DEF BridgeSpec

\* A connection refused because "a previous rotation is still being reconciled"
\* (_rotation_base_digests) is refused by a server whose plugin presents a credential, so
\* there is an event to come that settles the pair: unless a push was lost, a transaction
\* raised, the process died or the plugin forgot its credential, each of which is enough.
THEOREM EvidenceExists ==
  ASSUME NothingLost PROVE BridgeSpec => [](Stuck => plugin # NoGen)
<1>1. BridgeInv /\ Reached => (Stuck => plugin # NoGen)
  BY DEF Reached, Stuck
<1> QED
  BY <1>1, BridgeInvariant, ReachedInvariant, PTL

\* Then a server can always be connected again, if events settle what they can: the one
\* liveness the run of the settled rotations checks is all that ConnectRecovers needs.
THEOREM EvidenceSuffices ==
  ASSUME NothingLost PROVE BridgeSpec /\ EvidenceResolves => ConnectRecovers
<1>1. BridgeInv /\ Reached => (Stuck => plugin # NoGen) /\ (plugin = NoGen => ~Stuck)
  BY DEF Reached, Stuck
<1> QED
  BY <1>1, BridgeInvariant, ReachedInvariant, PTL DEF EvidenceResolves, ConnectRecovers

(***************************************************************************)
(* The components together, as the run claims checks them.                 *)
(***************************************************************************)

\* Each of them begins as it does alone, and takes its own steps or none.
LEMMA ClaimsComponentsBegin ==
  ClaimsInit =>
    /\ OccInit /\ Init /\ BridgeInit /\ ProbeInit /\ LifeInit /\ UserInit
    /\ focus \in {"scheduler", "notifications", "bridge", "probe", "lifecycle", "users"}
  BY DEF ClaimsInit

LEMMA ClaimsComponentsStep ==
  [ClaimsNext]_claimsVars =>
    /\ [OccNext]_occVars
    /\ [Next]_vars
    /\ [BridgeNext]_bridgeVars
    /\ [ProbeNext]_probeVars
    /\ [LifeNext]_lifeVars
    /\ [UserNext]_userVars
    /\ UNCHANGED focus
<1>1. CASE UNCHANGED claimsVars
  BY <1>1 DEF claimsVars
<1>2. CASE ClaimsNext
  BY <1>2 DEF ClaimsNext, OthersStay
<1> QED
  BY <1>1, <1>2

\* What the run checks is each component as it is specified: what is proved of one of them holds
\* here too, for every value of the constants.
LEMMA ClaimsRunTheComponents ==
  ClaimsSpec =>
    /\ OccSpec
    /\ Spec
    /\ BridgeSpec
    /\ ProbeSpec
    /\ LifeSpec
    /\ UserSpec
  BY ClaimsComponentsBegin, ClaimsComponentsStep, PTL
     DEF ClaimsSpec, OccSpec, Spec, BridgeSpec, ProbeSpec, LifeSpec, UserSpec

\* The types of the run's components.
THEOREM ClaimsTypeCorrect == ClaimsSpec => []ClaimsTypeOK
<1> DEFINE Focus ==
      focus \in {"scheduler", "notifications", "bridge", "probe", "lifecycle", "users"}
<1>1. /\ Focus /\ OccTypeOK /\ TypeOK /\ BridgeTypeOK /\ ProbeTypeOK /\ LifeTypeOK /\ UserTypeOK
      => ClaimsTypeOK
  BY DEF ClaimsTypeOK
<1>2. ClaimsInit => Focus
  BY DEF ClaimsInit
<1>3. Focus /\ [ClaimsNext]_claimsVars => Focus'
  BY ClaimsComponentsStep
<1> QED
  BY <1>1, <1>2, <1>3, ClaimsRunTheComponents, OccTypeCorrect, DeliveryTypeCorrect,
     BridgeTypeCorrect, ProbeTypeCorrect, LifeTypeCorrect, UserTypeCorrect, PTL DEF ClaimsSpec
=============================================================================
