---------------------------- MODULE UserSyncProofs ----------------------------
(***************************************************************************)
(* Proofs about UserSync: a sync, in whatever mode and with whatever       *)
(* failures, takes away only what somebody took away, and carries what the *)
(* users added and removed to those it reaches; for any members and items. *)
(***************************************************************************)
EXTENDS UserSync, FiniteSetTheorems, TLAPS

Stages == {"idle", "reads", "writes", "marks", "looks"}
StoredTyped ==
  /\ favorites \in [Members -> SUBSET Items] /\ \A m \in Members : favorites[m] \subseteq HasItem[m]
  /\ base \in [Members -> {NoView} \cup SUBSET Items]
  /\ group \subseteq Members
HistoryTyped ==
  /\ dropped \in [Members -> SUBSET Items] /\ wanted \in [Members -> SUBSET Items]
  /\ touched \subseteq Items
SyncTyped ==
  /\ observed \in [Members -> {NoView} \cup View] /\ last \in [Members -> {NoView} \cup View]
  /\ desired \subseteq Items
  /\ \A c \in writes : c \in Members \X Items /\ c[2] \in HasItem[c[1]] /\ c[1] \notin toVisit
  /\ who \subseteq group /\ toVisit \subseteq who
  /\ stage \in Stages /\ mode \in {"delta", "bootstrap", "oneWay"} /\ failed \in BOOLEAN
CloneTyped ==
  /\ clone = [at |-> clone.at, from |-> clone.from, to |-> clone.to, views |-> clone.views]
  /\ clone.at = "viewed" => \A m \in DOMAIN clone.views : clone.views[m] \in View
  /\ clone.at = "copied" => clone.from \in Members /\ clone.to \in Members

\* What is missing from a baseline was taken from its user, and only that.
DroppedIsOpen ==
  \A m \in Members : BaseOf(m) \ favorites[m] \subseteq dropped[m] /\ dropped[m] \subseteq BaseOf(m)

\* What a sync holds where it is.
InPlace ==
  /\ stage = "idle" => observed = Views /\ who = {}
  /\ stage # "writes" => ~failed /\ writes = {}
  /\ stage # "looks" => last = Views
  /\ stage = "marks" => mode = "bootstrap" /\ toVisit = who

\* Everybody whose turn has come was read.
ReadByNow == IF stage = "reads" THEN who \ toVisit ELSE who
EverybodyRead ==
  /\ stage # "idle" /\ mode # "oneWay" => \A m \in ReadByNow : observed[m] # NoView
  /\ stage = "reads" /\ mode = "oneWay" =>
       leader \in Members /\ (leader \in toVisit \/ observed[leader] # NoView)

\* A view stays true but for what somebody moved during the sync, and what the sync wrote.
ByTheSync == IF stage = "reads" THEN {} ELSE desired
ViewsHold ==
  \A m \in Members : observed[m] # NoView =>
    /\ touched = Items \/ observed[m].was = base[m]
    /\ Removed(observed[m]) \subseteq dropped[m] \cup touched
    /\ favorites[m] \ observed[m].now \subseteq touched \cup ByTheSync

Outcome ==
  stage \in {"writes", "marks", "looks"} =>
    /\ mode = "delta" => desired = Merged(observed, who)
    /\ mode = "bootstrap" => desired = Union(observed, who)

\* What a sync has applied holds, and it finds it again when it looks.
WrittenByNow == IF stage = "writes" THEN who \ toVisit ELSE who
AppliedHolds ==
  stage \in {"writes", "marks", "looks"} /\ mode # "oneWay" /\ ~failed =>
    \A m \in WrittenByNow : \A x \in HasItem[m] \ touched :
      <<m, x>> \in writes \/ (x \in favorites[m] <=> x \in desired)
Found ==
  /\ stage = "looks" => \A m \in who \ toVisit : last[m] # NoView
  /\ \A m \in Members : last[m] # NoView =>
       /\ m \in who /\ last[m].now \subseteq HasItem[m]
       /\ mode # "oneWay" => \A x \in HasItem[m] \ touched : x \in last[m].now <=> x \in desired

UserInv ==
  /\ StoredTyped /\ HistoryTyped /\ SyncTyped /\ CloneTyped /\ DroppedIsOpen /\ InPlace /\ EverybodyRead
  /\ ViewsHold /\ Outcome /\ AppliedHolds /\ Found /\ NoUnexpectedRemoval

LEMMA InitUserInv == UserInit => UserInv
<1> SUFFICES ASSUME UserInit PROVE UserInv
  OBVIOUS
<1> USE DEF UserInit
<1>1. base = Views /\ observed = Views /\ last = Views /\ Views \in [Members -> {NoView}]
      /\ \A m \in Members : Views[m] = NoView
  BY DEF Views
<1>2. StoredTyped /\ HistoryTyped
  BY <1>1 DEF StoredTyped, HistoryTyped
<1>3. SyncTyped
  BY <1>1 DEF SyncTyped, Stages
<1>4. CloneTyped
  BY DEF CloneTyped, NoClone
<1>5. DroppedIsOpen
  BY <1>1 DEF DroppedIsOpen, BaseOf
<1>6. InPlace /\ EverybodyRead /\ Outcome /\ AppliedHolds /\ NoUnexpectedRemoval
  BY <1>1 DEF InPlace, EverybodyRead, Outcome, AppliedHolds, NoUnexpectedRemoval
<1>7. ViewsHold /\ Found
  BY <1>1 DEF ViewsHold, Found
<1> QED
  BY <1>2, <1>3, <1>4, <1>5, <1>6, <1>7 DEF UserInv

\* What is observed is a view, and nothing of the user is missing in it.
LEMMA ObservedIsView ==
  ASSUME StoredTyped, DroppedIsOpen, NEW m \in Members
  PROVE  /\ Observed(m) \in View /\ Observed(m) # NoView
         /\ Observed(m).was = base[m] /\ Observed(m).now = favorites[m]
         /\ Removed(Observed(m)) \subseteq dropped[m]
<1>1. Observed(m) \in View /\ Observed(m).was = base[m] /\ Observed(m).now = favorites[m]
  BY DEF StoredTyped, Observed, View
<1>2. Observed(m) # NoView
  BY <1>1, NoViewAssumption
<1>3. Removed(Observed(m)) \subseteq dropped[m]
  BY <1>1 DEF Removed, Initial, DroppedIsOpen, BaseOf
<1> QED
  BY <1>1, <1>2, <1>3

\* Whatever ends a sync leaves nothing of it.
LEMMA IdleKeeps ==
  ASSUME UserInv, Idle, group' = group
  PROVE  /\ SyncTyped' /\ InPlace' /\ EverybodyRead' /\ ViewsHold' /\ Outcome' /\ AppliedHolds' /\ Found'
         /\ NoUnexpectedRemoval'
<1> USE DEF Idle
<1>1. observed' = Views /\ last' = Views /\ Views \in [Members -> {NoView}] /\ \A m \in Members : Views[m] = NoView
  BY DEF Views
<1>2. SyncTyped'
  BY <1>1 DEF SyncTyped, Stages
<1>3. InPlace' /\ EverybodyRead' /\ Outcome' /\ AppliedHolds' /\ NoUnexpectedRemoval'
  BY <1>1 DEF InPlace, EverybodyRead, Outcome, AppliedHolds, NoUnexpectedRemoval, Views
<1>4. ViewsHold' /\ Found'
  BY <1>1 DEF ViewsHold, Found
<1> QED
  BY <1>2, <1>3, <1>4

\* An attempt that ends before the baselines move leaves everything stored as it is.
LEMMA EndsKeeps ==
  ASSUME UserInv, Idle, UNCHANGED <<stored, clone, userHistory>>
  PROVE  UserInv'
<1>1. UNCHANGED <<favorites, group, base, dropped, wanted, touched, clone>>
  BY DEF stored, emby, userHistory
<1>2. StoredTyped' /\ HistoryTyped' /\ CloneTyped' /\ DroppedIsOpen'
  BY <1>1 DEF UserInv, StoredTyped, HistoryTyped, CloneTyped, DroppedIsOpen, BaseOf
<1> QED
  BY <1>1, <1>2, IdleKeeps DEF UserInv

\* Steps of a sync that change nothing stored.
LEMMA StoredKept ==
  ASSUME UserInv, UNCHANGED <<stored, clone, userHistory>>
  PROVE  /\ StoredTyped' /\ HistoryTyped' /\ CloneTyped' /\ DroppedIsOpen'
         /\ UNCHANGED <<favorites, group, leader, base, dropped, wanted, touched>>
BY DEF UserInv, StoredTyped, HistoryTyped, CloneTyped, DroppedIsOpen, BaseOf, stored, emby,
   userHistory

LEMMA StartSyncKeeps == ASSUME UserInv, StartSync PROVE UserInv'
<1> USE DEF UserInv
<1>0. /\ stage = "idle" /\ stage' = "reads" /\ touched' = {}
      /\ UNCHANGED <<favorites, group, leader, base, observed, desired, writes, failed, last, clone, dropped, wanted>>
  BY DEF StartSync, stored, emby
<1>1. PICK ms \in SUBSET group : /\ leader \in ms /\ who' = ms
                                 /\ toVisit' = IF oneWay THEN {leader} ELSE ms
  BY DEF StartSync
<1>2. mode' = IF oneWay THEN "oneWay" ELSE IF bootDone THEN "delta" ELSE "bootstrap"
  BY DEF StartSync
<1>3. StoredTyped' /\ HistoryTyped' /\ CloneTyped' /\ DroppedIsOpen'
  BY <1>0 DEF StoredTyped, HistoryTyped, CloneTyped, DroppedIsOpen, BaseOf
<1>4. observed = Views /\ last = Views /\ writes = {} /\ ~failed /\ \A m \in Members : Views[m] = NoView
  BY <1>0 DEF InPlace, Views
<1>5. SyncTyped'
  BY <1>0, <1>1, <1>2, <1>4 DEF SyncTyped, Stages
<1>6. InPlace' /\ Outcome' /\ AppliedHolds' /\ NoUnexpectedRemoval'
  BY <1>0, <1>4 DEF InPlace, Outcome, AppliedHolds, NoUnexpectedRemoval, Views
<1>7. EverybodyRead'
  <2>1. leader \in Members
    BY <1>1 DEF StoredTyped
  <2> QED
    BY <1>0, <1>1, <1>2, <2>1 DEF EverybodyRead, ReadByNow
<1>8. ViewsHold' /\ Found'
  BY <1>0, <1>4 DEF ViewsHold, Found
<1> QED
  BY <1>3, <1>5, <1>6, <1>7, <1>8

LEMMA ObserveKeeps == ASSUME UserInv, NEW m \in Members, Observe(m) PROVE UserInv'
<1> USE DEF UserInv
<1>0. /\ stage = "reads" /\ m \in toVisit /\ toVisit' = toVisit \ {m}
      /\ observed' = [observed EXCEPT ![m] = Observed(m)]
      /\ UNCHANGED <<stored, stage, mode, who, desired, writes, failed, last, clone, userHistory>>
  BY DEF Observe, NextMember
<1>1. /\ StoredTyped' /\ HistoryTyped' /\ CloneTyped' /\ DroppedIsOpen'
      /\ UNCHANGED <<favorites, group, leader, base, dropped, wanted, touched>>
  BY <1>0, StoredKept
<1>2. /\ Observed(m) \in View /\ Observed(m) # NoView
      /\ Observed(m).was = base[m] /\ Observed(m).now = favorites[m]
      /\ Removed(Observed(m)) \subseteq dropped[m]
  BY ObservedIsView
<1>3. /\ observed' \in [Members -> {NoView} \cup View] /\ observed'[m] = Observed(m)
      /\ \A n \in Members : n # m => observed'[n] = observed[n]
  <2> HIDE DEF Observed
  <2> QED
    BY <1>0, <1>2 DEF SyncTyped
<1> HIDE DEF Observed
<1>4. SyncTyped'
  BY <1>0, <1>1, <1>3 DEF SyncTyped
<1>5. InPlace' /\ Outcome' /\ AppliedHolds' /\ NoUnexpectedRemoval' /\ Found'
  BY <1>0, <1>1 DEF InPlace, Outcome, AppliedHolds, NoUnexpectedRemoval, Found, Views
<1>6. EverybodyRead'
  BY <1>0, <1>1, <1>2, <1>3 DEF EverybodyRead, ReadByNow, SyncTyped, StoredTyped
<1>7. ViewsHold'
  <2> SUFFICES ASSUME NEW n \in Members, observed'[n] # NoView
               PROVE  /\ touched' = Items \/ observed'[n].was = base'[n]
                      /\ Removed(observed'[n]) \subseteq dropped'[n] \cup touched'
                      /\ favorites'[n] \ observed'[n].now \subseteq touched' \cup ByTheSync'
    BY DEF ViewsHold, Removed, Initial
  <2>1. CASE n = m
    BY <1>1, <1>2, <1>3, <2>1
  <2>2. CASE n # m
    BY <1>0, <1>1, <1>3, <2>2 DEF ViewsHold, ByTheSync
  <2> QED
    BY <2>1, <2>2
<1> QED
  BY <1>1, <1>4, <1>5, <1>6, <1>7

\* What a merge makes of views are items.
LEMMA MergedTyped ==
  ASSUME SyncTyped, NEW ms \in SUBSET Members, \A m \in ms : observed[m] # NoView
  PROVE  Merged(observed, ms) \subseteq Items /\ Union(observed, ms) \subseteq Items
<1>1. \A m \in ms : observed[m] \in View
  BY DEF SyncTyped
<1>2. \A m \in ms : observed[m].now \subseteq Items /\ Baseline(observed[m]) \subseteq Items
                    /\ Added(observed[m]) \subseteq Items
  BY <1>1 DEF View, Baseline, Added, Initial
<1>3. UNION {Baseline(observed[m]) : m \in ms} \subseteq Items /\ AllAdded(observed, ms) \subseteq Items
  BY <1>2 DEF AllAdded
<1>4. Union(observed, ms) \subseteq Items
  BY <1>2 DEF Union
<1>5. Merged(observed, ms) \subseteq (UNION {Baseline(observed[m]) : m \in ms}) \cup AllAdded(observed, ms)
  BY DEF Merged
<1> QED
  BY <1>3, <1>4, <1>5

LEMMA ResolveKeeps == ASSUME UserInv, Resolve PROVE UserInv'
<1> USE DEF UserInv
<1>0. /\ stage = "reads" /\ toVisit = {} /\ stage' = "writes"
      /\ toVisit' = (IF mode = "oneWay" THEN who \ {leader} ELSE who)
      /\ UNCHANGED <<stored, mode, who, observed, writes, failed, last, clone, userHistory>>
  BY DEF Resolve
<1>1. /\ StoredTyped' /\ HistoryTyped' /\ CloneTyped' /\ DroppedIsOpen'
      /\ UNCHANGED <<favorites, group, leader, base, dropped, wanted, touched>>
  BY <1>0, StoredKept
<1>2. writes = {} /\ ~failed /\ last = Views /\ who \in SUBSET Members
  BY <1>0 DEF InPlace, SyncTyped, StoredTyped
<1>3. /\ mode = "delta" => desired' = Merged(observed, who)
      /\ mode = "bootstrap" => desired' = Union(observed, who)
      /\ mode = "oneWay" => desired' = observed[leader].now
  BY DEF Resolve
<1>4. mode # "oneWay" => \A m \in who : observed[m] # NoView
  BY <1>0 DEF EverybodyRead, ReadByNow
<1>5. desired' \subseteq Items
  <2>1. CASE mode = "oneWay"
    <3>1. observed[leader] \in View
      BY <1>0, <2>1 DEF EverybodyRead, SyncTyped
    <3> QED
      BY <1>3, <2>1, <3>1 DEF View
  <2>2. CASE mode # "oneWay"
    BY <1>2, <1>3, <1>4, <2>2, MergedTyped DEF SyncTyped
  <2> QED
    BY <2>1, <2>2
<1> HIDE DEF Merged, Union
<1>6. SyncTyped'
  BY <1>0, <1>1, <1>2, <1>5 DEF SyncTyped, Stages
<1>7. InPlace' /\ AppliedHolds' /\ NoUnexpectedRemoval'
  BY <1>0, <1>2 DEF InPlace, AppliedHolds, WrittenByNow, NoUnexpectedRemoval, Views
<1>8. EverybodyRead'
  BY <1>0, <1>4 DEF EverybodyRead, ReadByNow
<1>9. ViewsHold'
  BY <1>0, <1>1 DEF ViewsHold, ByTheSync
<1>10. Outcome'
  BY <1>0, <1>3 DEF Outcome, Merged, Union
<1>11. Found'
  BY <1>0, <1>2 DEF Found, Views
<1> QED
  BY <1>1, <1>6, <1>7, <1>8, <1>9, <1>10, <1>11

\* A favorite that the outcome does not have was moved meanwhile, or somebody dropped it.
LEMMA RemovalExpected ==
  ASSUME UserInv, stage = "writes", mode # "oneWay", NEW m \in who, NEW x \in favorites[m], x \notin desired
  PROVE  x \in touched \/ \E n \in Members : x \in dropped[n]
<1> USE DEF UserInv
<1>1. who \subseteq Members /\ \A n \in who : observed[n] # NoView /\ observed[n] \in View
  BY DEF SyncTyped, StoredTyped, EverybodyRead, ReadByNow
<1>2. CASE x \notin observed[m].now
  BY <1>1, <1>2 DEF ViewsHold, ByTheSync
<1>3. CASE x \in observed[m].now
  <2>1. mode = "delta"
    BY <1>3 DEF Outcome, Union, SyncTyped
  <2>2. x \in Baseline(observed[m]) \cup Added(observed[m])
    BY <1>3 DEF Baseline, Added, Initial
  <2>3. x \in AllRemoved(observed, who)
    <3> DEFINE bases == {Baseline(observed[n]) : n \in who}
               adds == {Added(observed[n]) : n \in who}
    <3>0. Baseline(observed[m]) \in bases /\ Added(observed[m]) \in adds
      OBVIOUS
    <3>1. x \in (UNION bases) \cup (UNION adds)
      <4> HIDE DEF bases, adds
      <4> QED
        BY <2>2, <3>0
    <3>2. desired = Merged(observed, who)
      BY <2>1 DEF Outcome
    <3> QED
      BY <3>1, <3>2 DEF Merged, AllAdded
  <2>4. PICK n \in who : x \in Removed(observed[n])
    BY <2>3 DEF AllRemoved
  <2> QED
    BY <1>1, <2>4 DEF ViewsHold
<1> QED
  BY <1>2, <1>3

LEMMA TakeKeeps == ASSUME UserInv, NEW m \in Members, Take(m) PROVE UserInv'
<1> USE DEF UserInv
<1> DEFINE differ == {y \in HasItem[m] : y \in desired <=> y \notin favorites[m]}
<1>0. /\ stage = "writes" /\ writes = {} /\ m \in toVisit /\ toVisit' = toVisit \ {m}
      /\ writes' = {<<m, x>> : x \in differ}
      /\ UNCHANGED <<stored, stage, mode, who, observed, desired, failed, last, clone, userHistory>>
  BY DEF Take, NextMember
<1>1. /\ StoredTyped' /\ HistoryTyped' /\ CloneTyped' /\ DroppedIsOpen'
      /\ UNCHANGED <<favorites, group, leader, base, dropped, wanted, touched>>
  BY <1>0, StoredKept
<1>2. m \in who /\ HasItem[m] \subseteq Items
  BY <1>0, HasItemAssumption DEF SyncTyped
<1>3. \A c \in writes' : c[1] = m /\ c[2] \in differ /\ c \in Members \X Items
  BY <1>0, <1>2
<1>4. SyncTyped'
  BY <1>0, <1>1, <1>3 DEF SyncTyped
<1>5. InPlace' /\ EverybodyRead' /\ ViewsHold' /\ Outcome' /\ Found'
  BY <1>0, <1>1 DEF InPlace, EverybodyRead, ReadByNow, ViewsHold, ByTheSync, Outcome, Found, Views
<1>6. AppliedHolds'
  <2> SUFFICES ASSUME mode # "oneWay", ~failed, NEW n \in who \ toVisit', NEW x \in HasItem[n] \ touched
               PROVE  <<n, x>> \in writes' \/ (x \in favorites[n] <=> x \in desired)
    BY <1>0, <1>1 DEF AppliedHolds, WrittenByNow
  <2>1. CASE n = m
    BY <1>0, <2>1
  <2>2. CASE n # m
    BY <1>0, <2>2 DEF AppliedHolds, WrittenByNow
  <2> QED
    BY <2>1, <2>2
<1>7. NoUnexpectedRemoval'
  <2> SUFFICES ASSUME NEW c \in writes', mode # "oneWay", c[2] \notin desired
               PROVE  c[2] \in touched \/ \E n \in Members : c[2] \in dropped[n]
    BY <1>0, <1>1 DEF NoUnexpectedRemoval
  <2>1. c[2] \in favorites[m]
    BY <1>3
  <2> QED
    BY <1>0, <1>2, <2>1, RemovalExpected
<1> QED
  BY <1>1, <1>4, <1>5, <1>6, <1>7

LEMMA TakeFailsKeeps == ASSUME UserInv, NEW m \in Members, TakeFails(m) PROVE UserInv'
<1> USE DEF UserInv
<1>0. /\ stage = "writes" /\ writes = {} /\ m \in toVisit /\ toVisit' = toVisit \ {m} /\ failed' = TRUE
      /\ UNCHANGED <<stored, stage, mode, who, observed, desired, writes, last, clone, userHistory>>
  BY DEF TakeFails, NextMember
<1>1. /\ StoredTyped' /\ HistoryTyped' /\ CloneTyped' /\ DroppedIsOpen'
      /\ UNCHANGED <<favorites, group, leader, base, dropped, wanted, touched>>
  BY <1>0, StoredKept
<1>2. SyncTyped'
  BY <1>0, <1>1 DEF SyncTyped
<1>3. InPlace' /\ EverybodyRead' /\ ViewsHold' /\ Outcome' /\ Found'
  BY <1>0, <1>1 DEF InPlace, EverybodyRead, ReadByNow, ViewsHold, ByTheSync, Outcome, Found, Views
<1>4. AppliedHolds' /\ NoUnexpectedRemoval'
  BY <1>0 DEF AppliedHolds, NoUnexpectedRemoval
<1> QED
  BY <1>1, <1>2, <1>3, <1>4

LEMMA WriteItemKeeps == ASSUME UserInv, NEW m \in Members, NEW x \in Items, WriteItem(m, x) PROVE UserInv'
<1> USE DEF UserInv
<1>0. /\ <<m, x>> \in writes /\ writes' = writes \ {<<m, x>>} /\ stage = "writes"
      /\ UNCHANGED <<group, leader, base, stage, mode, who, toVisit, observed, desired, failed, last, clone, touched>>
  BY DEF WriteItem, InPlace
<1>1. x \in HasItem[m] /\ favorites \in [Members -> SUBSET Items] /\ dropped \in [Members -> SUBSET Items]
      /\ wanted \in [Members -> SUBSET Items]
  BY <1>0 DEF SyncTyped, StoredTyped, HistoryTyped
<1>2. /\ favorites' \in [Members -> SUBSET Items] /\ \A n \in Members : n # m => favorites'[n] = favorites[n]
      /\ favorites'[m] = IF x \in desired THEN favorites[m] \cup {x} ELSE favorites[m] \ {x}
  <2>1. favorites' = [favorites EXCEPT ![m] = IF x \in desired THEN @ \cup {x} ELSE @ \ {x}]
    BY DEF WriteItem
  <2> QED
    BY <1>1, <2>1
<1>3. /\ dropped' \in [Members -> SUBSET Items] /\ \A n \in Members : n # m => dropped'[n] = dropped[n]
      /\ dropped'[m] = IF x \in desired THEN dropped[m] ELSE dropped[m] \cup ({x} \cap BaseOf(m))
  <2>1. dropped' = (IF x \in desired THEN dropped ELSE [dropped EXCEPT ![m] = @ \cup ({x} \cap BaseOf(m))])
    BY DEF WriteItem, GoneFrom
  <2> HIDE DEF BaseOf
  <2> QED
    BY <1>1, <2>1
<1>4. wanted' \in [Members -> SUBSET Items]
  BY <1>1 DEF WriteItem
<1>5. StoredTyped' /\ HistoryTyped' /\ CloneTyped'
  <2>1. \A n \in Members : favorites'[n] \subseteq HasItem[n]
    BY <1>1, <1>2 DEF StoredTyped
  <2> QED
    BY <1>0, <1>2, <1>3, <1>4, <2>1 DEF StoredTyped, HistoryTyped, CloneTyped
<1>6. DroppedIsOpen'
  BY <1>0, <1>2, <1>3 DEF DroppedIsOpen, BaseOf
<1>7. SyncTyped'
  BY <1>0 DEF SyncTyped
<1>8. InPlace' /\ EverybodyRead' /\ Outcome' /\ Found'
  BY <1>0 DEF InPlace, EverybodyRead, ReadByNow, Outcome, Found, Views
<1>9. ViewsHold'
  BY <1>0, <1>2, <1>3 DEF ViewsHold, ByTheSync
<1>10. AppliedHolds'
  <2> SUFFICES ASSUME mode # "oneWay", ~failed, NEW n \in who \ toVisit, NEW y \in HasItem[n] \ touched
               PROVE  <<n, y>> \in writes' \/ (y \in favorites'[n] <=> y \in desired)
    BY <1>0 DEF AppliedHolds, WrittenByNow
  <2>1. <<n, y>> \in writes \/ (y \in favorites[n] <=> y \in desired)
    BY <1>0 DEF AppliedHolds, WrittenByNow
  <2>2. n \in Members
    BY DEF SyncTyped, StoredTyped
  <2>3. CASE n = m /\ y = x
    BY <1>2, <2>3
  <2>4. CASE ~(n = m /\ y = x)
    <3>1. y \in favorites'[n] <=> y \in favorites[n]
      BY <1>2, <2>2, <2>4
    <3>2. <<n, y>> # <<m, x>>
      BY <2>4
    <3> QED
      BY <1>0, <2>1, <3>1, <3>2
  <2> QED
    BY <2>3, <2>4
<1>11. NoUnexpectedRemoval'
  BY <1>0, <1>3 DEF NoUnexpectedRemoval
<1> QED
  BY <1>5, <1>6, <1>7, <1>8, <1>9, <1>10, <1>11

LEMMA WriteItemFailsKeeps ==
  ASSUME UserInv, NEW m \in Members, NEW x \in Items, WriteItemFails(m, x)
  PROVE  UserInv'
<1> USE DEF UserInv
<1>0. /\ writes' \subseteq writes /\ stage = "writes" /\ failed' = TRUE
      /\ UNCHANGED <<stored, stage, mode, who, toVisit, observed, desired, last, clone, userHistory>>
  BY DEF WriteItemFails, InPlace
<1>1. /\ StoredTyped' /\ HistoryTyped' /\ CloneTyped' /\ DroppedIsOpen'
      /\ UNCHANGED <<favorites, group, leader, base, dropped, wanted, touched>>
  BY <1>0, StoredKept
<1>2. SyncTyped'
  BY <1>0, <1>1 DEF SyncTyped
<1>3. InPlace' /\ EverybodyRead' /\ ViewsHold' /\ Outcome' /\ Found'
  BY <1>0, <1>1 DEF InPlace, EverybodyRead, ReadByNow, ViewsHold, ByTheSync, Outcome, Found, Views
<1>4. AppliedHolds' /\ NoUnexpectedRemoval'
  BY <1>0, <1>1 DEF AppliedHolds, NoUnexpectedRemoval
<1> QED
  BY <1>1, <1>2, <1>3, <1>4

LEMMA AppliedKeeps == ASSUME UserInv, Applied PROVE UserInv'
<1> USE DEF UserInv
<1>1. CASE failed
  <2>1. Idle /\ UNCHANGED <<stored, clone, userHistory>>
    BY <1>1 DEF Applied
  <2> QED
    BY <2>1, EndsKeeps
<1>2. CASE ~failed
  <2>0. /\ stage = "writes" /\ toVisit = {} /\ writes = {} /\ toVisit' = who
        /\ stage' = (IF mode = "bootstrap" THEN "marks" ELSE "looks")
        /\ UNCHANGED <<stored, mode, who, observed, desired, writes, failed, last, clone, userHistory>>
    BY <1>2 DEF Applied
  <2>1. /\ StoredTyped' /\ HistoryTyped' /\ CloneTyped' /\ DroppedIsOpen'
        /\ UNCHANGED <<favorites, group, leader, base, dropped, wanted, touched>>
    BY <2>0, StoredKept
  <2>2. last = Views /\ \A m \in Members : Views[m] = NoView
    BY <2>0 DEF InPlace, Views
  <2>3. SyncTyped'
    BY <2>0, <2>1 DEF SyncTyped, Stages
  <2>4. InPlace' /\ EverybodyRead' /\ Outcome'
    BY <1>2, <2>0, <2>2 DEF InPlace, EverybodyRead, ReadByNow, Outcome, Views
  <2>5. ViewsHold' /\ NoUnexpectedRemoval'
    BY <2>0, <2>1 DEF ViewsHold, ByTheSync, NoUnexpectedRemoval
  <2>6. AppliedHolds'
    BY <2>0, <2>1 DEF AppliedHolds, WrittenByNow
  <2>7. Found'
    BY <2>0, <2>2 DEF Found
  <2> QED
    BY <2>1, <2>3, <2>4, <2>5, <2>6, <2>7
<1> QED
  BY <1>1, <1>2

LEMMA MarkKeeps == ASSUME UserInv, Mark PROVE UserInv'
<1> USE DEF UserInv
<1>0. /\ stage = "marks" /\ stage' = "looks"
      /\ UNCHANGED <<favorites, group, leader, base, mode, who, toVisit, observed, desired, writes, failed, last,
                     clone, dropped, wanted, touched>>
  BY DEF Mark, emby, userHistory
<1>1. StoredTyped' /\ HistoryTyped' /\ CloneTyped' /\ DroppedIsOpen'
  BY <1>0 DEF StoredTyped, HistoryTyped, CloneTyped, DroppedIsOpen, BaseOf
<1>2. last = Views /\ \A m \in Members : Views[m] = NoView
  BY <1>0 DEF InPlace, Views
<1>3. SyncTyped'
  BY <1>0 DEF SyncTyped, Stages
<1>4. InPlace' /\ EverybodyRead' /\ Outcome'
  BY <1>0 DEF InPlace, EverybodyRead, ReadByNow, Outcome, Views
<1>5. ViewsHold' /\ NoUnexpectedRemoval'
  BY <1>0 DEF ViewsHold, ByTheSync, NoUnexpectedRemoval
<1>6. AppliedHolds'
  BY <1>0 DEF AppliedHolds, WrittenByNow
<1>7. Found'
  <2>1. toVisit = who
    BY <1>0 DEF InPlace
  <2> QED
    BY <1>0, <1>2, <2>1 DEF Found
<1> QED
  BY <1>1, <1>3, <1>4, <1>5, <1>6, <1>7

LEMMA LookKeeps == ASSUME UserInv, NEW m \in Members, Look(m) PROVE UserInv'
<1> USE DEF UserInv
<1>0. /\ stage = "looks" /\ m \in toVisit /\ toVisit' = toVisit \ {m}
      /\ last' = [last EXCEPT ![m] = Observed(m)]
      /\ UNCHANGED <<stored, stage, mode, who, observed, desired, writes, failed, clone, userHistory>>
  BY DEF Look, NextMember
<1>1. /\ StoredTyped' /\ HistoryTyped' /\ CloneTyped' /\ DroppedIsOpen'
      /\ UNCHANGED <<favorites, group, leader, base, dropped, wanted, touched>>
  BY <1>0, StoredKept
<1>2. /\ Observed(m) \in View /\ Observed(m) # NoView /\ Observed(m).now = favorites[m]
  BY ObservedIsView
<1>3. /\ last' \in [Members -> {NoView} \cup View] /\ last'[m] = Observed(m)
      /\ \A n \in Members : n # m => last'[n] = last[n]
  <2> HIDE DEF Observed
  <2> QED
    BY <1>0, <1>2 DEF SyncTyped
<1> HIDE DEF Observed
<1>4. SyncTyped'
  BY <1>0, <1>1, <1>3 DEF SyncTyped
<1>5. InPlace' /\ EverybodyRead' /\ Outcome'
  BY <1>0, <1>1 DEF InPlace, EverybodyRead, ReadByNow, Outcome, Views
<1>6. ViewsHold' /\ NoUnexpectedRemoval'
  BY <1>0, <1>1 DEF ViewsHold, ByTheSync, NoUnexpectedRemoval
<1>7. AppliedHolds'
  BY <1>0, <1>1 DEF AppliedHolds, WrittenByNow
<1>8. Found'
  <2>1. m \in who /\ favorites[m] \subseteq HasItem[m] /\ who \subseteq Members
    BY <1>0 DEF SyncTyped, StoredTyped
  <2>2. mode # "oneWay" => \A x \in HasItem[m] \ touched : x \in favorites[m] <=> x \in desired
    BY <1>0, <2>1 DEF AppliedHolds, WrittenByNow, InPlace
  <2>3. \A n \in who \ toVisit' : last'[n] # NoView
    BY <1>0, <1>2, <1>3, <2>1 DEF Found
  <2>4. ASSUME NEW n \in Members, last'[n] # NoView
        PROVE  /\ n \in who /\ last'[n].now \subseteq HasItem[n]
               /\ mode # "oneWay" => \A x \in HasItem[n] \ touched : x \in last'[n].now <=> x \in desired
    <3>1. CASE n = m
      BY <1>2, <1>3, <2>1, <2>2, <3>1
    <3>2. CASE n # m
      BY <1>3, <2>4, <3>2 DEF Found
    <3> QED
      BY <3>1, <3>2
  <2> QED
    BY <1>0, <1>1, <2>3, <2>4 DEF Found
<1> QED
  BY <1>1, <1>4, <1>5, <1>6, <1>7, <1>8

\* The baselines move to views of their users, and what is open is what they do not have.
LEMMA BaselinesMove ==
  ASSUME UserInv, NEW views, \A m \in Members \cap DOMAIN views : views[m] # NoView => views[m] \in View,
         base' = Moved(views), StillOpen, UNCHANGED <<favorites, group>>
  PROVE  StoredTyped' /\ DroppedIsOpen' /\ dropped' \in [Members -> SUBSET Items]
         /\ wanted' \in [Members -> SUBSET Items]
<1> USE DEF UserInv
<1>1. base' \in [Members -> {NoView} \cup SUBSET Items]
  <2>1. \A m \in Members : m \in DOMAIN views /\ views[m] # NoView => views[m].now \in SUBSET Items
    BY DEF View
  <2> QED
    BY <2>1 DEF Moved, StoredTyped
<1>2. StoredTyped'
  BY <1>1 DEF StoredTyped
<1>3. \A m \in Members : BaseOf(m)' \subseteq Items
  BY <1>1 DEF BaseOf
<1>4. dropped' = [m \in Members |-> BaseOf(m)' \ favorites[m]]
  BY DEF StillOpen, Missing
<1> HIDE DEF BaseOf
<1>5. DroppedIsOpen' /\ dropped' \in [Members -> SUBSET Items]
  BY <1>3, <1>4 DEF DroppedIsOpen
<1>6. wanted' \in [Members -> SUBSET Items]
  BY DEF StillOpen, HistoryTyped
<1> QED
  BY <1>2, <1>5, <1>6

LEMMA SyncCommitsKeeps == ASSUME UserInv, SyncCommits PROVE UserInv'
<1> USE DEF UserInv
<1>0. base' = Moved(last) /\ StillOpen /\ Idle /\ UNCHANGED <<favorites, group, clone, touched>>
  BY DEF SyncCommits, emby
<1>1. \A m \in Members \cap DOMAIN last : last[m] # NoView => last[m] \in View
  BY DEF SyncTyped
<1>2. StoredTyped' /\ DroppedIsOpen' /\ dropped' \in [Members -> SUBSET Items]
      /\ wanted' \in [Members -> SUBSET Items]
  BY <1>0, <1>1, BaselinesMove
<1>3. HistoryTyped' /\ CloneTyped'
  BY <1>0, <1>2 DEF HistoryTyped, CloneTyped
<1> QED
  BY <1>0, <1>2, <1>3, IdleKeeps

-----------------------------------------------------------------------------

\* Steps that are not of the sync: what they move is touched.
LEMMA OthersKeep ==
  ASSUME UserInv, StoredTyped', HistoryTyped', CloneTyped', DroppedIsOpen', UNCHANGED sync,
         touched \subseteq touched',
         stage # "idle" => group' = group /\ leader' = leader,
         \/ touched' = Items
         \/ /\ base' = base /\ \A m \in Members : dropped[m] \subseteq dropped'[m]
            /\ \A m \in Members, x \in Items : x \notin touched' => (x \in favorites'[m] <=> x \in favorites[m])
  PROVE  UserInv'
<1> USE DEF UserInv
<1>0. UNCHANGED <<stage, mode, who, toVisit, observed, desired, writes, failed, last>>
  BY DEF sync
<1>1. \A m \in Members : HasItem[m] \subseteq Items /\ favorites'[m] \subseteq HasItem[m] /\ favorites[m] \subseteq HasItem[m]
  BY HasItemAssumption DEF StoredTyped
<1>2. touched \subseteq Items /\ touched' \subseteq Items
  BY DEF HistoryTyped
<1>3. SyncTyped'
  BY <1>0 DEF SyncTyped, InPlace
<1>4. InPlace' /\ Outcome'
  BY <1>0 DEF InPlace, Outcome, Views
<1>5. EverybodyRead'
  BY <1>0 DEF EverybodyRead, ReadByNow
<1>6. ViewsHold'
  <2> SUFFICES ASSUME NEW m \in Members, observed[m] # NoView
               PROVE  /\ touched' = Items \/ observed[m].was = base'[m]
                      /\ Removed(observed[m]) \subseteq dropped'[m] \cup touched'
                      /\ favorites'[m] \ observed[m].now \subseteq touched' \cup ByTheSync'
    BY <1>0 DEF ViewsHold, Removed, Initial
  <2>1. /\ touched = Items \/ observed[m].was = base[m]
        /\ Removed(observed[m]) \subseteq dropped[m] \cup touched
        /\ favorites[m] \ observed[m].now \subseteq touched \cup ByTheSync
    BY DEF ViewsHold
  <2>2. ByTheSync' = ByTheSync
    BY <1>0 DEF ByTheSync
  <2>3. Removed(observed[m]) \subseteq Items
    BY DEF Removed, Initial, SyncTyped, View
  <2> HIDE DEF ByTheSync, Removed
  <2> QED
    BY <1>1, <1>2, <2>1, <2>2, <2>3
<1>7. AppliedHolds'
  BY <1>0, <1>1, <1>2 DEF AppliedHolds, WrittenByNow, SyncTyped, StoredTyped
<1>8. Found'
  BY <1>0 DEF Found
<1>9. NoUnexpectedRemoval'
  BY <1>0 DEF NoUnexpectedRemoval, SyncTyped
<1> QED
  BY <1>3, <1>4, <1>5, <1>6, <1>7, <1>8, <1>9

LEMMA UserChangesKeeps ==
  ASSUME UserInv, NEW m \in Members, NEW x \in Items, UserChanges(m, x)
  PROVE  UserInv'
<1> USE DEF UserInv
<1>0. /\ x \in HasItem[m] /\ touched' = touched \cup {x}
      /\ UNCHANGED <<group, leader, base, bootDone, sync, clone>>
  BY DEF UserChanges
<1>1. /\ favorites \in [Members -> SUBSET Items] /\ dropped \in [Members -> SUBSET Items]
      /\ wanted \in [Members -> SUBSET Items]
  BY DEF StoredTyped, HistoryTyped
<1>2. /\ favorites' \in [Members -> SUBSET Items] /\ \A n \in Members : n # m => favorites'[n] = favorites[n]
      /\ favorites'[m] = IF x \in favorites[m] THEN favorites[m] \ {x} ELSE favorites[m] \cup {x}
  <2>1. favorites' = [favorites EXCEPT ![m] = IF x \in favorites[m] THEN @ \ {x} ELSE @ \cup {x}]
    BY DEF UserChanges
  <2> QED
    BY <1>1, <2>1
<1>3. /\ dropped' \in [Members -> SUBSET Items] /\ \A n \in Members : n # m => dropped'[n] = dropped[n]
      /\ dropped'[m] = IF x \in favorites[m] THEN dropped[m] \cup ({x} \cap BaseOf(m)) ELSE dropped[m]
  <2>1. dropped' = (IF x \in favorites[m] THEN [dropped EXCEPT ![m] = @ \cup ({x} \cap BaseOf(m))] ELSE dropped)
    BY DEF UserChanges, GoneFrom
  <2> HIDE DEF BaseOf
  <2> QED
    BY <1>1, <2>1
<1>4. wanted' \in [Members -> SUBSET Items]
  BY <1>1 DEF UserChanges
<1>5. StoredTyped' /\ HistoryTyped' /\ CloneTyped'
  <2>1. \A n \in Members : favorites'[n] \subseteq HasItem[n]
    BY <1>0, <1>2 DEF StoredTyped
  <2> QED
    BY <1>0, <1>2, <1>3, <1>4, <2>1 DEF StoredTyped, HistoryTyped, CloneTyped
<1>6. DroppedIsOpen'
  BY <1>0, <1>2, <1>3 DEF DroppedIsOpen, BaseOf
<1>7. /\ \A n \in Members : dropped[n] \subseteq dropped'[n]
      /\ \A n \in Members, y \in Items : y \notin touched' => (y \in favorites'[n] <=> y \in favorites[n])
  BY <1>0, <1>2, <1>3
<1> QED
  BY <1>0, <1>5, <1>6, <1>7, OthersKeep

LEMMA RegroupKeeps ==
  ASSUME UserInv, stage = "idle", group' \subseteq Members,
         UNCHANGED <<favorites, base, sync, clone, dropped, wanted, touched>>
  PROVE  UserInv'
<1> USE DEF UserInv
<1>1. StoredTyped' /\ HistoryTyped' /\ CloneTyped' /\ DroppedIsOpen'
  BY DEF StoredTyped, HistoryTyped, CloneTyped, DroppedIsOpen, BaseOf
<1> QED
  BY <1>1, OthersKeep

LEMMA LinkKeeps == ASSUME UserInv, NEW m \in Members, Link(m) \/ Unlink(m) PROVE UserInv'
<1>1. group \subseteq Members
  BY DEF UserInv, StoredTyped
<1>2. stage = "idle" /\ UNCHANGED <<favorites, base, sync, clone, dropped, wanted, touched>>
  BY DEF Link, Unlink
<1>3. group' \subseteq Members
  BY <1>1 DEF Link, Unlink
<1> QED
  BY <1>2, <1>3, RegroupKeeps

LEMMA SaveSettingsKeeps == ASSUME UserInv, SaveSettings PROVE UserInv'
<1> USE DEF UserInv
<1>0. UNCHANGED <<favorites, group, leader, base, sync, clone, dropped, wanted, touched>>
  BY DEF SaveSettings
<1>1. StoredTyped' /\ HistoryTyped' /\ CloneTyped' /\ DroppedIsOpen'
  BY <1>0 DEF StoredTyped, HistoryTyped, CloneTyped, DroppedIsOpen, BaseOf
<1> QED
  BY <1>0, <1>1, OthersKeep

LEMMA CloneKeeps == ASSUME UserInv, NEW m \in Members, NEW n \in Members, Clone(m, n) PROVE UserInv'
<1> USE DEF UserInv
<1>0. /\ favorites' = [favorites EXCEPT ![n] = @ \cup (favorites[m] \cap HasItem[n])]
      /\ wanted' = [wanted EXCEPT ![n] = @ \cup (favorites[m] \cap HasItem[n])]
      /\ touched' = touched \cup favorites[m]
      /\ UNCHANGED <<group, leader, base, sync, dropped>>
  BY DEF Clone
<1>1. /\ favorites \in [Members -> SUBSET Items] /\ wanted \in [Members -> SUBSET Items]
  BY DEF StoredTyped, HistoryTyped
<1>2. /\ favorites' \in [Members -> SUBSET Items] /\ \A k \in Members : k # n => favorites'[k] = favorites[k]
      /\ favorites'[n] = favorites[n] \cup (favorites[m] \cap HasItem[n])
  BY <1>0, <1>1
<1>3. wanted' \in [Members -> SUBSET Items]
  BY <1>0, <1>1
<1>4. CloneTyped'
  BY DEF Clone, NoClone, CloneTyped
<1>5. StoredTyped' /\ HistoryTyped'
  <2>1. \A k \in Members : favorites'[k] \subseteq HasItem[k]
    BY <1>2 DEF StoredTyped
  <2> QED
    BY <1>0, <1>1, <1>2, <1>3, <2>1 DEF StoredTyped, HistoryTyped
<1>6. DroppedIsOpen'
  BY <1>0, <1>2 DEF DroppedIsOpen, BaseOf
<1>7. /\ \A k \in Members : dropped[k] \subseteq dropped'[k]
      /\ \A k \in Members, y \in Items : y \notin touched' => (y \in favorites'[k] <=> y \in favorites[k])
  BY <1>0, <1>2
<1> QED
  BY <1>0, <1>4, <1>5, <1>6, <1>7, OthersKeep

LEMMA CloneViewsKeeps == ASSUME UserInv, CloneViews PROVE UserInv'
<1> USE DEF UserInv
<1> DEFINE views == [m \in {clone.from, clone.to} |-> Observed(m)]
<1>0. /\ clone.at = "copied" /\ clone' = [clone EXCEPT !.at = "viewed", !.views = views]
      /\ UNCHANGED <<favorites, group, leader, base, sync, dropped, wanted, touched>>
  BY DEF CloneViews, stored, emby, userHistory
<1>1. StoredTyped' /\ HistoryTyped' /\ DroppedIsOpen'
  BY <1>0 DEF StoredTyped, HistoryTyped, DroppedIsOpen, BaseOf
<1>2. \A m \in DOMAIN views : views[m] \in View
  <2>1. \A m \in {clone.from, clone.to} : Observed(m) \in View
    BY <1>0, ObservedIsView DEF CloneTyped
  <2> HIDE DEF Observed
  <2> QED
    BY <2>1
<1> HIDE DEF views
<1>3. CloneTyped'
  <2>1. clone' = [at |-> "viewed", from |-> clone.from, to |-> clone.to, views |-> views]
    BY <1>0 DEF CloneTyped
  <2> QED
    BY <1>2, <2>1 DEF CloneTyped
<1> QED
  BY <1>0, <1>1, <1>3, OthersKeep

LEMMA CloneCommitsKeeps == ASSUME UserInv, CloneCommits PROVE UserInv'
<1> USE DEF UserInv
<1>0. /\ clone.at = "viewed" /\ clone' = NoClone /\ UNCHANGED <<favorites, group, leader, sync>>
  BY DEF CloneCommits, emby
<1>1. CloneTyped'
  BY <1>0 DEF CloneTyped, NoClone
<1>2. CASE base' = Moved(clone.views) /\ StillOpen /\ touched' = Items
  <2>1. \A m \in Members \cap DOMAIN clone.views : clone.views[m] # NoView => clone.views[m] \in View
    BY <1>0 DEF CloneTyped
  <2>2. StoredTyped' /\ DroppedIsOpen' /\ dropped' \in [Members -> SUBSET Items]
        /\ wanted' \in [Members -> SUBSET Items]
    BY <1>0, <1>2, <2>1, BaselinesMove
  <2>3. HistoryTyped'
    BY <1>2, <2>2 DEF HistoryTyped
  <2>4. touched \subseteq touched'
    BY <1>2 DEF HistoryTyped
  <2> QED
    BY <1>0, <1>1, <1>2, <2>2, <2>3, <2>4, OthersKeep
<1>3. CASE UNCHANGED <<base, dropped, wanted, touched>>
  <2>1. StoredTyped' /\ HistoryTyped' /\ DroppedIsOpen'
    BY <1>0, <1>3 DEF StoredTyped, HistoryTyped, DroppedIsOpen, BaseOf
  <2> QED
    BY <1>0, <1>1, <1>3, <2>1, OthersKeep
<1> QED
  BY <1>2, <1>3 DEF CloneCommits

-----------------------------------------------------------------------------

LEMMA UserStep == UserInv /\ [UserNext]_userVars => UserInv'
<1> SUFFICES ASSUME UserInv, [UserNext]_userVars PROVE UserInv'
  OBVIOUS
<1>1. CASE ObserveFails \/ Contested \/ LookFails \/ SyncRefused \/ SyncDies
  BY <1>1, EndsKeeps DEF ObserveFails, Contested, LookFails, SyncRefused, SyncDies
<1>2. CASE StartSync \/ Resolve \/ Applied \/ Mark \/ SyncCommits
  BY <1>2, StartSyncKeeps, ResolveKeeps, AppliedKeeps, MarkKeeps, SyncCommitsKeeps
<1>3. CASE SaveSettings \/ CloneViews \/ CloneCommits
  BY <1>3, SaveSettingsKeeps, CloneViewsKeeps, CloneCommitsKeeps
<1>4. ASSUME NEW m \in Members, Observe(m) \/ Take(m) \/ TakeFails(m) \/ Look(m) \/ Link(m) \/ Unlink(m)
      PROVE  UserInv'
  BY <1>4, ObserveKeeps, TakeKeeps, TakeFailsKeeps, LookKeeps, LinkKeeps
<1>5. ASSUME NEW m \in Members, NEW n \in Members, Clone(m, n) PROVE UserInv'
  BY <1>5, CloneKeeps
<1>6. ASSUME NEW m \in Members, NEW x \in Items, WriteItem(m, x) \/ WriteItemFails(m, x) \/ UserChanges(m, x)
      PROVE  UserInv'
  BY <1>6, WriteItemKeeps, WriteItemFailsKeeps, UserChangesKeeps
<1>7. CASE UNCHANGED userVars
  <2>1. UNCHANGED <<favorites, group, leader, base, sync, clone, dropped, wanted, touched>>
    BY <1>7 DEF userVars, stored, emby, userHistory
  <2>2. StoredTyped' /\ HistoryTyped' /\ CloneTyped' /\ DroppedIsOpen'
    BY <2>1 DEF UserInv, StoredTyped, HistoryTyped, CloneTyped, DroppedIsOpen, BaseOf
  <2> QED
    BY <2>1, <2>2, OthersKeep
<1> QED
  BY <1>1, <1>2, <1>3, <1>4, <1>5, <1>6, <1>7 DEF UserNext

LEMMA AlwaysUserInv == UserSpec => []UserInv
BY InitUserInv, UserStep, PTL DEF UserSpec

\* require_complete_snapshots, sync_merge_favorites, commit_many: a merging sync takes a
\* favorite from a user only if it is gone from somebody whose baseline has it, or was moved
\* during the sync; for any number of users and items and any mixture of failures.
THEOREM RemovalsExpected == UserSpec => []NoUnexpectedRemoval
<1>1. UserInv => NoUnexpectedRemoval
  BY DEF UserInv
<1> QED
  BY <1>1, AlwaysUserInv, PTL

\* What the baselines move to has the outcome, but for what was moved meanwhile.
LEMMA BaselinesHaveOutcome ==
  ASSUME UserInv, stage = "looks", toVisit = {}, mode = "delta", SyncCommits
  PROVE  \A n \in who : /\ base'[n] \subseteq HasItem[n]
                        /\ \A x \in HasItem[n] \ touched : x \in base'[n] <=> x \in desired
<1> SUFFICES ASSUME NEW n \in who
             PROVE  /\ base'[n] \subseteq HasItem[n]
                    /\ \A x \in HasItem[n] \ touched : x \in base'[n] <=> x \in desired
  OBVIOUS
<1>1. n \in Members /\ last[n] # NoView /\ DOMAIN last = Members
  BY DEF UserInv, Found, SyncTyped, StoredTyped
<1>2. base'[n] = last[n].now
  BY <1>1 DEF SyncCommits, Moved
<1> QED
  BY <1>1, <1>2 DEF UserInv, Found

\* Who takes part was read, and what was removed of the baseline is removed from the outcome.
LEMMA OutcomeCarries ==
  ASSUME UserInv, stage = "looks", mode = "delta", NEW m \in who, NEW x \in Items \ touched
  PROVE  /\ Removal(m, x) => x \notin desired
         /\ Addition(m, x) /\ (\A n \in Members : x \notin dropped[n]) => x \in desired
<1> USE DEF UserInv
<1>1. m \in Members /\ observed[m] # NoView /\ who \subseteq Members /\ \A n \in who : observed[n] # NoView
  BY DEF SyncTyped, StoredTyped, EverybodyRead, ReadByNow
<1>2. desired = ((UNION {Baseline(observed[n]) : n \in who}) \cup AllAdded(observed, who)) \ AllRemoved(observed, who)
  BY DEF Outcome, Merged
<1>3. ASSUME Removal(m, x) PROVE x \notin desired
  <2>1. x \in BaseOf(m) /\ x \notin observed[m].now
    BY <1>1, <1>3 DEF Removal, DroppedIsOpen
  <2>2. observed[m].was = base[m]
    BY <1>1 DEF ViewsHold, HistoryTyped
  <2>3. x \in Removed(observed[m])
    BY <2>1, <2>2 DEF BaseOf, Removed, Initial
  <2>4. x \in AllRemoved(observed, who)
    BY <2>3 DEF AllRemoved
  <2> QED
    BY <1>2, <2>4
<1>4. ASSUME Addition(m, x), \A n \in Members : x \notin dropped[n] PROVE x \in desired
  <2>1. x \in Baseline(observed[m]) \cup Added(observed[m])
    BY <1>4 DEF Addition, Baseline, Added, Initial
  <2>2. x \in (UNION {Baseline(observed[n]) : n \in who}) \cup AllAdded(observed, who)
    <3> DEFINE bases == {Baseline(observed[n]) : n \in who}
               adds == {Added(observed[n]) : n \in who}
    <3>1. Baseline(observed[m]) \in bases /\ Added(observed[m]) \in adds
      OBVIOUS
    <3>2. x \in (UNION bases) \cup (UNION adds)
      <4> HIDE DEF bases, adds
      <4> QED
        BY <2>1, <3>1
    <3> QED
      BY <3>2 DEF AllAdded
  <2>3. x \notin AllRemoved(observed, who)
    <3> SUFFICES ASSUME NEW n \in who, x \in Removed(observed[n]) PROVE FALSE
      BY DEF AllRemoved
    <3> QED
      BY <1>1, <1>4 DEF ViewsHold
  <2> QED
    BY <1>2, <2>2, <2>3
<1> QED
  BY <1>3, <1>4

\* _run_favorites_delta_sync, commit_many: when a delta sync succeeds, an uncontested change
\* has reached every participant, whatever attempts failed before.
THEOREM ChangesAlwaysCarried == UserSpec => ChangesCarried
<1> DEFINE A == stage = "looks" /\ toVisit = {} /\ mode = "delta" /\ SyncCommits =>
                  \A m \in who, x \in Items \ touched :
                    /\ Removal(m, x) /\ (\A n \in Members : x \notin wanted[n]) =>
                         \A n \in who : x \notin base'[n]
                    /\ Addition(m, x) /\ (\A n \in Members : x \notin dropped[n]) =>
                         \A n \in who : x \in HasItem[n] => x \in base'[n]
<1>1. UserInv /\ [UserNext]_userVars => [A]_userVars
  <2> SUFFICES ASSUME UserInv, stage = "looks", toVisit = {}, mode = "delta", SyncCommits,
                      NEW m \in who, NEW x \in Items \ touched
               PROVE  /\ Removal(m, x) /\ (\A n \in Members : x \notin wanted[n]) =>
                           \A n \in who : x \notin base'[n]
                      /\ Addition(m, x) /\ (\A n \in Members : x \notin dropped[n]) =>
                           \A n \in who : x \in HasItem[n] => x \in base'[n]
    OBVIOUS
  <2> HIDE DEF Removal, Addition, SyncCommits
  <2> QED
    BY BaselinesHaveOutcome, OutcomeCarries
<1>2. UserSpec => [][UserNext]_userVars
  BY DEF UserSpec
<1> QED
  BY <1>1, <1>2, AlwaysUserInv, PTL DEF ChangesCarried

(***************************************************************************)
(* Types: the groups the code lets be.                                     *)
(***************************************************************************)

Linked ==
  /\ group \subseteq Members /\ leader \in Members
  /\ group # {} => leader \in group /\ Cardinality(group) >= 2
EnoughTakePart == stage # "idle" => Cardinality(who) >= 2
RestTyped ==
  /\ oneWay \in BOOLEAN /\ bootDone \in BOOLEAN /\ gone \subseteq Items
  /\ userChanges \in 0 .. MaxUserChanges /\ clone.at \in {"none", "copied", "viewed"}

GroupInv == Linked /\ EnoughTakePart /\ RestTyped

\* Two users and more: a set with two members has at least two.
LEMMA TwoOfThem ==
  ASSUME NEW m \in Members, NEW n \in Members, m # n
  PROVE  Cardinality({m, n}) = 2
<1>1. IsFiniteSet({m}) /\ Cardinality({m}) = 1
  BY FS_Singleton
<1>2. {m, n} = {m} \cup {n} /\ n \notin {m}
  OBVIOUS
<1>3. Cardinality({m} \cup {n}) = Cardinality({m}) + 1
  BY <1>1, <1>2, FS_AddElement
<1> QED
  BY <1>1, <1>2, <1>3

LEMMA GroupsAreFinite ==
  ASSUME group \subseteq Members
  PROVE  IsFiniteSet(group) /\ Cardinality(group) \in Nat
  BY MemberAssumption, FS_Subset, FS_CardinalityType

LEMMA LinkLinks == ASSUME Linked, NEW m \in Members, Link(m) PROVE Linked'
<1>1. CASE group # {} /\ group' = group \cup {m} /\ UNCHANGED leader
  <2>1. IsFiniteSet(group) /\ Cardinality(group) \in Nat
    BY GroupsAreFinite DEF Linked
  <2>2. m \notin group
    BY DEF Link
  <2>3. Cardinality(group') = Cardinality(group) + 1
    BY <1>1, <2>1, <2>2, FS_AddElement
  <2> QED
    BY <1>1, <2>1, <2>3 DEF Linked
<1>2. ASSUME NEW n \in Members \ {m}, group' = {m, n}, leader' = m PROVE Linked'
  <2>1. Cardinality(group') = 2
    BY <1>2, TwoOfThem
  <2> QED
    BY <1>2, <2>1 DEF Linked
<1> QED
  BY <1>1, <1>2 DEF Link

LEMMA UnlinkLinks == ASSUME Linked, NEW m \in Members, Unlink(m) PROVE Linked'
<1>1. IsFiniteSet(group) /\ Cardinality(group) \in Nat /\ m \in group /\ Cardinality(group) >= 2
  BY GroupsAreFinite DEF Linked, Unlink
<1>2. group' = IF Cardinality(group) = 2 THEN {} ELSE group \ {m}
  BY DEF Unlink
<1>3. leader' \in IF group' = {} \/ leader # m THEN {leader} ELSE group'
  BY DEF Unlink
<1>4. CASE Cardinality(group) = 2
  BY <1>2, <1>3, <1>4 DEF Linked
<1>5. CASE Cardinality(group) # 2
  <2>1. group' = group \ {m}
    BY <1>2, <1>5
  <2>2. Cardinality(group \ {m}) = Cardinality(group) - 1
    BY <1>1, FS_RemoveElement
  <2>3. Cardinality(group') >= 2
    BY <1>1, <1>5, <2>1, <2>2
  <2>4. group' \subseteq Members /\ (leader # m => leader \in group')
    BY <1>1, <2>1 DEF Linked
  <2>5. leader' \in group'
    <3>1. group' # {}
      <4>1. Cardinality({}) = 0
        BY FS_EmptySet
      <4> QED
        BY <2>3, <4>1
    <3> QED
      BY <1>3, <2>4, <3>1
  <2> QED
    BY <2>3, <2>4, <2>5 DEF Linked
<1> QED
  BY <1>4, <1>5

LEMMA InitGroups == UserInit => GroupInv
<1> SUFFICES ASSUME UserInit PROVE GroupInv
  OBVIOUS
<1>1. Members # {}
  <2>1. Cardinality({}) = 0
    BY FS_EmptySet
  <2> QED
    BY <2>1, MemberAssumption
<1>2. leader \in Members
  BY <1>1 DEF UserInit
<1>3. group \in {Members, {}} /\ stage = "idle" /\ clone = NoClone
  BY DEF UserInit
<1>4. Linked
  BY <1>2, <1>3, MemberAssumption DEF Linked
<1>5. EnoughTakePart
  BY <1>3 DEF EnoughTakePart
<1>6. clone.at = "none"
  BY <1>3 DEF NoClone
<1>7. oneWay = FALSE /\ bootDone = FALSE /\ gone = {} /\ userChanges = 0
  BY DEF UserInit
<1>8. RestTyped
  <2>1. oneWay \in BOOLEAN /\ bootDone \in BOOLEAN
    BY <1>7, Zenon
  <2>2. 0 \in 0 .. MaxUserChanges
    BY MemberAssumption
  <2> QED
    BY <1>6, <1>7, <2>1, <2>2 DEF RestTyped
<1> QED
  BY <1>4, <1>5, <1>8 DEF GroupInv

LEMMA IdleIsQuiet == Idle => EnoughTakePart'
  BY DEF Idle, EnoughTakePart

\* Only a link changes who is linked.
LEMMA LinksMove ==
  ASSUME Linked, [UserNext]_userVars
  PROVE  Linked'
<1>1. ASSUME NEW m \in Members, Link(m) \/ Unlink(m) PROVE Linked'
  BY <1>1, LinkLinks, UnlinkLinks
<1>2. ASSUME UNCHANGED <<group, leader>> PROVE Linked'
  BY <1>2 DEF Linked
<1>3. StartSync \/ ObserveFails \/ Contested \/ Resolve \/ Applied \/ Mark \/ LookFails \/ SyncCommits
        \/ SyncRefused \/ SyncDies \/ SaveSettings \/ CloneViews \/ CloneCommits \/ UNCHANGED userVars
      => UNCHANGED <<group, leader>>
  BY DEF StartSync, ObserveFails, Contested, Resolve, Applied, Mark, LookFails, SyncCommits,
    SyncRefused, SyncDies, SaveSettings, CloneViews, CloneCommits, userVars, stored, emby
<1>4. ASSUME NEW m \in Members,
             \/ Observe(m) \/ Take(m) \/ TakeFails(m) \/ Look(m)
             \/ \E n \in Members : Clone(m, n)
             \/ \E x \in Items : WriteItem(m, x) \/ WriteItemFails(m, x) \/ UserChanges(m, x)
      PROVE  UNCHANGED <<group, leader>>
  BY <1>4 DEF Observe, Take, TakeFails, Look, Clone, WriteItem, WriteItemFails, UserChanges,
     stored, emby
<1> QED
  BY <1>1, <1>2, <1>3, <1>4, Zenon DEF UserNext

\* Who takes part is settled when a sync starts, and nobody else is let in before it ends.
LEMMA PartsStay ==
  ASSUME EnoughTakePart, [UserNext]_userVars
  PROVE  EnoughTakePart'
<1>1. CASE StartSync
  BY <1>1 DEF StartSync, EnoughTakePart
<1>2. ASSUME who' = who, stage = "idle" => stage' = "idle" PROVE EnoughTakePart'
  BY <1>2 DEF EnoughTakePart
<1>3. ASSUME Resolve \/ Mark \/ SaveSettings \/ CloneViews \/ CloneCommits \/ UNCHANGED userVars
      PROVE  who' = who /\ (stage = "idle" => stage' = "idle")
  BY <1>3 DEF Resolve, Mark, SaveSettings, CloneViews, CloneCommits, userVars, sync
<1>4. ASSUME ObserveFails \/ Contested \/ LookFails \/ SyncCommits \/ SyncRefused \/ SyncDies PROVE Idle
  BY <1>4 DEF ObserveFails, Contested, LookFails, SyncCommits, SyncRefused, SyncDies
<1>5. Applied => Idle \/ (who' = who /\ (stage = "idle" => stage' = "idle"))
  BY DEF Applied
<1>6. ASSUME NEW m \in Members,
             \/ Observe(m) \/ Take(m) \/ TakeFails(m) \/ Look(m) \/ Link(m) \/ Unlink(m)
             \/ \E n \in Members : Clone(m, n)
             \/ \E x \in Items : WriteItem(m, x) \/ WriteItemFails(m, x) \/ UserChanges(m, x)
      PROVE  who' = who /\ (stage = "idle" => stage' = "idle")
  BY <1>6 DEF Observe, Take, TakeFails, Look, Link, Unlink, Clone, WriteItem, WriteItemFails,
     UserChanges,
    sync
<1> QED
  BY <1>1, <1>2, <1>3, <1>4, <1>5, <1>6, IdleIsQuiet, Zenon DEF UserNext

LEMMA RestStays ==
  ASSUME UserInv, RestTyped, [UserNext]_userVars
  PROVE  RestTyped'
<1>0. /\ favorites \in [Members -> SUBSET Items] /\ dropped \in [Members -> SUBSET Items]
      /\ group \subseteq Members
  BY DEF UserInv, StoredTyped, HistoryTyped
<1>1. ASSUME UNCHANGED <<oneWay, bootDone, gone, userChanges, clone>> PROVE RestTyped'
  BY <1>1 DEF RestTyped
<1>2. ASSUME \/ StartSync \/ ObserveFails \/ Contested \/ Resolve \/ Applied \/ LookFails
             \/ SyncRefused \/ SyncDies \/ UNCHANGED userVars
      PROVE  UNCHANGED <<oneWay, bootDone, gone, userChanges, clone>>
  BY <1>2 DEF StartSync, ObserveFails, Contested, Resolve, Applied, LookFails,
    SyncRefused, SyncDies, userVars, userHistory, stored, emby
<1>3. CASE Mark
  BY <1>3 DEF Mark, RestTyped, userHistory, emby
<1>4. CASE SyncCommits
  <2>1. /\ gone' \subseteq gone \cup UNION {dropped[m] \cap BaseOf(m) : m \in who}
        /\ UNCHANGED <<oneWay, bootDone, userChanges, clone>>
    BY <1>4 DEF SyncCommits, emby
  <2>2. \A m \in who : dropped[m] \subseteq Items
    BY <1>0 DEF UserInv, SyncTyped
  <2>3. gone' \subseteq Items
    BY <2>1, <2>2 DEF RestTyped
  <2> QED
    BY <2>1, <2>3 DEF RestTyped
<1>5. ASSUME UserActs PROVE userChanges' \in 0 .. MaxUserChanges
  BY <1>5, MemberAssumption DEF UserActs, RestTyped
<1>6. CASE SaveSettings
  BY <1>5, <1>6 DEF SaveSettings, RestTyped
<1>7. CASE CloneViews
  <2>1. clone'.at = "viewed"
    BY <1>7 DEF CloneViews, UserInv, CloneTyped
  <2>2. UNCHANGED <<oneWay, bootDone, gone, userChanges>>
    BY <1>7 DEF CloneViews, stored, emby, userHistory
  <2> QED
    BY <2>1, <2>2 DEF RestTyped
<1>8. CASE CloneCommits
  BY <1>8 DEF CloneCommits, NoClone, emby, RestTyped
<1>9. ASSUME NEW m \in Members, Observe(m) \/ Take(m) \/ TakeFails(m) \/ Look(m)
      PROVE  UNCHANGED <<oneWay, bootDone, gone, userChanges, clone>>
  BY <1>9 DEF Observe, Take, TakeFails, Look, stored, emby, userHistory
<1>10. ASSUME NEW m \in Members, Link(m) PROVE RestTyped'
  <2>1. UNCHANGED <<oneWay, bootDone, clone>> /\ gone' \subseteq gone /\ UserActs
    BY <1>10 DEF Link
  <2> QED
    BY <1>5, <2>1 DEF RestTyped
<1>11. ASSUME NEW m \in Members, Unlink(m) PROVE RestTyped'
  <2>1. /\ UNCHANGED <<gone, clone>> /\ UserActs
        /\ oneWay' = (oneWay /\ group' # {}) /\ bootDone' = (bootDone /\ group' # {})
    BY <1>11 DEF Unlink
  <2>2. oneWay' \in BOOLEAN /\ bootDone' \in BOOLEAN
    BY <2>1, Zenon
  <2> QED
    BY <1>5, <2>1, <2>2 DEF RestTyped
<1>12. ASSUME NEW m \in Members, NEW n \in Members, Clone(m, n) PROVE RestTyped'
  <2>1. UNCHANGED <<oneWay, bootDone>> /\ gone' \subseteq gone /\ UserActs
    BY <1>12 DEF Clone
  <2>2. clone'.at = "copied"
    BY <1>12 DEF Clone, NoClone
  <2> QED
    BY <1>5, <2>1, <2>2 DEF RestTyped
<1>13. ASSUME NEW m \in Members, NEW x \in Items, WriteItem(m, x) PROVE RestTyped'
  <2>1. UNCHANGED <<oneWay, bootDone, userChanges, clone>> /\ gone' \subseteq gone
    BY <1>13 DEF WriteItem
  <2> QED
    BY <2>1 DEF RestTyped
<1>14. ASSUME NEW m \in Members, NEW x \in Items, WriteItemFails(m, x)
       PROVE  UNCHANGED <<oneWay, bootDone, gone, userChanges, clone>>
  BY <1>14 DEF WriteItemFails, stored, emby, userHistory
<1>15. ASSUME NEW m \in Members, NEW x \in Items, UserChanges(m, x) PROVE RestTyped'
  <2>1. UNCHANGED <<oneWay, bootDone, clone>> /\ gone' \subseteq gone /\ UserActs
    BY <1>15 DEF UserChanges
  <2> QED
    BY <1>5, <2>1 DEF RestTyped
<1> QED
  BY <1>1, <1>2, <1>3, <1>4, <1>6, <1>7, <1>8, <1>9, <1>10, <1>11, <1>12, <1>13, <1>14, <1>15, Zenon
    DEF UserNext

\* link_users, unlink_user, get_users_dashboard_data: a group has two members or more, its leader
\* among them, and a sync at least two participants; and every variable has its type.
THEOREM UserTypeCorrect == UserSpec => []UserTypeOK
<1>1. UserInv /\ GroupInv /\ [UserNext]_userVars => GroupInv'
  BY LinksMove, PartsStay, RestStays DEF GroupInv
<1>2. UserInv /\ GroupInv => UserTypeOK
  <2> SUFFICES ASSUME UserInv, GroupInv PROVE UserTypeOK
    OBVIOUS
  <2>1. Cardinality(group) # 1
    <3>1. Cardinality({}) = 0
      BY FS_EmptySet
    <3>2. CASE group = {}
      BY <3>1, <3>2
    <3>3. CASE group # {}
      BY <3>3, GroupsAreFinite DEF GroupInv, Linked
    <3> QED
      BY <3>2, <3>3
  <2>2. writes \subseteq Members \X Items
    BY DEF UserInv, SyncTyped
  <2>3. StoredTyped /\ HistoryTyped /\ SyncTyped
    BY DEF UserInv
  <2>4. Linked /\ EnoughTakePart /\ RestTyped
    BY DEF GroupInv
  <2> QED
    BY <2>1, <2>2, <2>3, <2>4
    DEF StoredTyped, HistoryTyped, SyncTyped, Linked, EnoughTakePart, RestTyped, Stages, UserTypeOK
<1> QED
  BY <1>1, <1>2, InitGroups, AlwaysUserInv, PTL DEF UserSpec


-----------------------------------------------------------------------------
(* Where every server answers and nobody changes a favorite during a sync, what *)
(* a sync has taken away stays away.                                            *)

AllAnswer == {"offline", "meanwhile"} \cap UserEvents = {}

\* A removal that was carried has reached the whole group.
GoneEverywhere == \A m \in group : favorites[m] \cap gone = {}

\* A sync takes in the whole group and finds what it has read.
Undisturbed ==
  /\ stage # "idle" => who = group
  /\ stage = "reads" => \A m \in Members : observed[m] # NoView => observed[m].now = favorites[m]
  /\ \A m \in Members : last[m] # NoView => last[m].now = favorites[m]

\* A delta sync brings nothing back.
NotBroughtBack ==
  mode = "delta" /\ stage \in {"writes", "marks", "looks"} => desired \cap gone = {}

StaysInv == GoneEverywhere /\ Undisturbed /\ NotBroughtBack

\* Whatever ends a sync before its baselines move.
LEMMA EndsStay ==
  ASSUME StaysInv, Idle, UNCHANGED <<favorites, group, gone>>
  PROVE  StaysInv'
<1>1. last' = Views /\ \A m \in Members : Views[m] = NoView
  BY DEF Idle, Views
<1> QED
  BY <1>1 DEF Idle, StaysInv, GoneEverywhere, Undisturbed, NotBroughtBack

\* The merge has what somebody has still, or has just added.
LEMMA MergeIsHad ==
  ASSUME NEW x \in Merged(observed, who), \A m \in who : observed[m] \in View
  PROVE  \E m \in who : x \in observed[m].now
<1> DEFINE bases == {Baseline(observed[m]) : m \in who}
           adds == {Added(observed[m]) : m \in who}
<1>1. (x \in UNION bases \/ x \in UNION adds) /\ x \notin AllRemoved(observed, who)
  BY DEF Merged, AllAdded
<1>2. PICK m \in who : x \in Baseline(observed[m]) \/ x \in Added(observed[m])
  BY <1>1
<1>3. x \notin Removed(observed[m])
  BY <1>1 DEF AllRemoved
<1>4. x \in observed[m].now
  BY <1>2, <1>3 DEF Baseline, Added, Removed, Initial
<1> QED
  BY <1>4

LEMMA ResolveStays == ASSUME UserInv, StaysInv, Resolve PROVE StaysInv'
<1>0. /\ stage = "reads" /\ toVisit = {} /\ stage' = "writes" /\ group \subseteq Members
      /\ UNCHANGED <<favorites, group, gone, mode, who, last>>
  BY DEF Resolve, UserInv, StoredTyped, stored, emby, userHistory
<1>1. ASSUME mode = "delta", NEW x \in desired' \cap gone PROVE FALSE
  <2>1. \A m \in who : observed[m] \in View /\ observed[m].now = favorites[m] /\ m \in group
    BY <1>0, <1>1 DEF UserInv, EverybodyRead, ReadByNow, SyncTyped, StaysInv, Undisturbed
  <2>2. x \in Merged(observed, who)
    BY <1>1 DEF Resolve
  <2>3. PICK m \in who : x \in observed[m].now
    BY <2>1, <2>2, MergeIsHad
  <2> QED
    BY <1>1, <2>1, <2>3 DEF StaysInv, GoneEverywhere
<1> QED
  BY <1>0, <1>1 DEF StaysInv, GoneEverywhere, Undisturbed, NotBroughtBack

LEMMA WriteItemStays ==
  ASSUME UserInv, StaysInv, NEW m \in Members, NEW x \in Items, WriteItem(m, x)
  PROVE  StaysInv'
<1>0. /\ <<m, x>> \in writes /\ stage = "writes"
      /\ UNCHANGED <<group, stage, mode, who, observed, desired, last>>
  BY DEF WriteItem, UserInv, InPlace
<1>1. favorites' = [favorites EXCEPT ![m] = IF x \in desired THEN @ \cup {x} ELSE @ \ {x}]
  BY DEF WriteItem
<1>2. gone' = (IF mode = "delta" THEN gone ELSE gone \ desired)
  BY DEF WriteItem
<1>3. favorites \in [Members -> SUBSET Items] /\ group \subseteq Members
  BY DEF UserInv, StoredTyped
<1>4. x \in desired => x \notin gone'
  BY <1>0, <1>2 DEF StaysInv, NotBroughtBack
<1>5. GoneEverywhere'
  BY <1>0, <1>1, <1>2, <1>3, <1>4 DEF StaysInv, GoneEverywhere
<1>6. \A n \in Members : last[n] = NoView
  BY <1>0 DEF UserInv, InPlace, Views
<1>7. Undisturbed'
  BY <1>0, <1>6 DEF StaysInv, Undisturbed
<1>8. NotBroughtBack'
  BY <1>0, <1>2 DEF StaysInv, NotBroughtBack
<1> QED
  BY <1>5, <1>7, <1>8 DEF StaysInv

\* Everybody was read a moment ago, so what is gone from the baselines is gone.
LEMMA SyncCommitsStays == ASSUME UserInv, StaysInv, SyncCommits PROVE StaysInv'
<1>0. /\ stage = "looks" /\ toVisit = {} /\ Idle /\ UNCHANGED <<favorites, group>>
      /\ base' = Moved(last)
  BY DEF SyncCommits, emby
<1>1. gone' \cap UNION {base'[m] : m \in who} = {} /\ who = group /\ group \subseteq Members
  BY <1>0 DEF SyncCommits, StaysInv, Undisturbed, UserInv, StoredTyped
<1>2. ASSUME NEW m \in group PROVE favorites'[m] \cap gone' = {}
  <2>1. last[m] # NoView /\ last[m].now = favorites[m] /\ m \in DOMAIN last /\ m \in Members
    BY <1>0, <1>1 DEF UserInv, Found, SyncTyped, StaysInv, Undisturbed
  <2>2. base'[m] = favorites[m]
    BY <1>0, <2>1 DEF Moved
  <2>3. base'[m] \in {base'[n] : n \in who}
    BY <1>1
  <2> QED
    BY <1>0, <1>1, <2>2, <2>3
<1>3. last' = Views /\ \A m \in Members : Views[m] = NoView
  BY <1>0 DEF Idle, Views
<1> QED
  BY <1>0, <1>2, <1>3 DEF Idle, StaysInv, GoneEverywhere, Undisturbed, NotBroughtBack

LEMMA LookStays ==
  ASSUME UserInv, StaysInv, NEW m \in Members, Observe(m) \/ Look(m)
  PROVE  StaysInv'
<1>0. Observed(m).now = favorites[m] /\ Observed(m) # NoView
  BY ObservedIsView DEF UserInv
<1> HIDE DEF Observed
<1>1. UNCHANGED <<favorites, group, gone, stage, mode, who, desired>>
  BY DEF Observe, Look, stored, emby, userHistory
<1>2. CASE Observe(m)
  <2>1. observed' = [observed EXCEPT ![m] = Observed(m)] /\ UNCHANGED last
    BY <1>2 DEF Observe
  <2> QED
    BY <1>0, <1>1, <2>1 DEF UserInv, SyncTyped, StaysInv, GoneEverywhere, Undisturbed,
       NotBroughtBack
<1>3. CASE Look(m)
  <2>1. last' = [last EXCEPT ![m] = Observed(m)] /\ UNCHANGED observed
    BY <1>3 DEF Look
  <2> QED
    BY <1>0, <1>1, <2>1 DEF UserInv, SyncTyped, StaysInv, GoneEverywhere, Undisturbed,
       NotBroughtBack
<1> QED
  BY <1>2, <1>3

LEMMA StartSyncStays == ASSUME AllAnswer, UserInv, StaysInv, StartSync PROVE StaysInv'
<1>0. /\ stage = "idle" /\ stage' = "reads" /\ who' = group
      /\ UNCHANGED <<favorites, group, gone, observed, last>>
  BY DEF AllAnswer, StartSync, stored, emby
<1>1. \A m \in Members : observed[m] = NoView
  BY <1>0 DEF UserInv, InPlace, Views
<1> QED
  BY <1>0, <1>1 DEF StaysInv, GoneEverywhere, Undisturbed, NotBroughtBack

\* What users, a clone and the administrators do happens between two syncs.
LEMMA OthersKeepAway ==
  ASSUME UserInv, StaysInv, stage = "idle", UNCHANGED sync, GoneEverywhere'
  PROVE  StaysInv'
<1>1. UNCHANGED <<stage, mode, who, observed, last>> /\ \A m \in Members : last[m] = NoView
  BY DEF sync, UserInv, InPlace, Views
<1> QED
  BY <1>1 DEF StaysInv, Undisturbed, NotBroughtBack

LEMMA UserChangesStays ==
  ASSUME AllAnswer, UserInv, StaysInv, NEW m \in Members, NEW x \in Items, UserChanges(m, x)
  PROVE  StaysInv'
<1>0. stage = "idle" /\ UNCHANGED <<group, sync>>
  BY DEF AllAnswer, UserChanges
<1>1. favorites \in [Members -> SUBSET Items] /\ group \subseteq Members
  BY DEF UserInv, StoredTyped
<1>2. \/ favorites' = [favorites EXCEPT ![m] = @ \ {x}] /\ gone' = gone
      \/ favorites' = [favorites EXCEPT ![m] = @ \cup {x}] /\ gone' = gone \ {x}
  BY DEF UserChanges
<1>3. GoneEverywhere'
  BY <1>0, <1>1, <1>2 DEF StaysInv, GoneEverywhere
<1> QED
  BY <1>0, <1>3, OthersKeepAway

LEMMA LinkStays == ASSUME UserInv, StaysInv, NEW m \in Members, Link(m) \/ Unlink(m) PROVE StaysInv'
<1>0. stage = "idle" /\ UNCHANGED <<favorites, sync>>
  BY DEF Link, Unlink
<1>1. CASE Link(m)
  <2>1. gone' = gone \ UNION {favorites[n] : n \in group' \ group}
    BY <1>1 DEF Link
  <2>2. ASSUME NEW n \in group' PROVE favorites'[n] \cap gone' = {}
    <3>1. CASE n \in group
      BY <1>0, <2>1, <3>1 DEF StaysInv, GoneEverywhere
    <3>2. CASE n \notin group
      <4>1. favorites[n] \in {favorites[k] : k \in group' \ group}
        BY <3>2
      <4> QED
        BY <1>0, <2>1, <4>1
    <3> QED
      BY <3>1, <3>2
  <2> QED
    BY <1>0, <2>2, OthersKeepAway DEF GoneEverywhere
<1>2. CASE Unlink(m)
  <2>1. group' \subseteq group /\ gone' = gone
    BY <1>2 DEF Unlink
  <2>2. GoneEverywhere'
    BY <1>0, <2>1 DEF StaysInv, GoneEverywhere
  <2> QED
    BY <1>0, <2>2, OthersKeepAway
<1> QED
  BY <1>1, <1>2

LEMMA CloneStays ==
  ASSUME AllAnswer, UserInv, StaysInv, NEW m \in Members, NEW n \in Members, Clone(m, n)
  PROVE  StaysInv'
<1>0. /\ stage = "idle" /\ UNCHANGED <<group, sync>>
      /\ favorites' = [favorites EXCEPT ![n] = @ \cup (favorites[m] \cap HasItem[n])]
      /\ gone' = gone \ favorites[m]
  BY DEF AllAnswer, Clone
<1>1. favorites \in [Members -> SUBSET Items] /\ group \subseteq Members
  BY DEF UserInv, StoredTyped
<1>2. GoneEverywhere'
  BY <1>0, <1>1 DEF StaysInv, GoneEverywhere
<1> QED
  BY <1>0, <1>2, OthersKeepAway

LEMMA StaysStep == AllAnswer /\ UserInv /\ StaysInv /\ [UserNext]_userVars => StaysInv'
<1> SUFFICES ASSUME AllAnswer, UserInv, StaysInv, [UserNext]_userVars PROVE StaysInv'
  OBVIOUS
<1>1. CASE ObserveFails \/ Contested \/ LookFails \/ SyncRefused \/ SyncDies
  <2>1. Idle /\ UNCHANGED <<favorites, group, gone>>
    BY <1>1 DEF ObserveFails, Contested, LookFails, SyncRefused, SyncDies, stored, emby, userHistory
  <2> QED
    BY <2>1, EndsStay
<1>2. CASE StartSync \/ Resolve \/ SyncCommits
  BY <1>2, StartSyncStays, ResolveStays, SyncCommitsStays
<1>3. CASE Applied
  <2>1. UNCHANGED <<favorites, group, gone>> /\ stage = "writes"
    BY <1>3 DEF Applied, stored, emby, userHistory
  <2>2. CASE failed
    BY <1>3, <2>1, <2>2, EndsStay DEF Applied
  <2>3. CASE ~failed
    <3>1. stage' # "reads" /\ stage' # "idle" /\ UNCHANGED <<mode, who, desired, last>>
      BY <1>3, <2>3 DEF Applied
    <3> QED
      BY <2>1, <3>1 DEF StaysInv, GoneEverywhere, Undisturbed, NotBroughtBack
  <2> QED
    BY <2>2, <2>3
<1>4. CASE Mark
  <2>1. UNCHANGED <<favorites, group, gone, mode, who, desired, last>> /\ stage = "marks" /\ stage' = "looks"
    BY <1>4 DEF Mark, emby, userHistory
  <2> QED
    BY <2>1 DEF StaysInv, GoneEverywhere, Undisturbed, NotBroughtBack
<1>5. CASE SaveSettings \/ CloneViews \/ CloneCommits \/ UNCHANGED userVars
  <2>1. UNCHANGED <<favorites, group, gone, stage, mode, who, observed, desired, last>>
    BY <1>5 DEF SaveSettings, CloneViews, CloneCommits, userVars, stored, emby, sync, userHistory
  <2> QED
    BY <2>1 DEF StaysInv, GoneEverywhere, Undisturbed, NotBroughtBack
<1>6. ASSUME NEW m \in Members, Take(m) \/ TakeFails(m) PROVE StaysInv'
  <2>1. UNCHANGED <<favorites, group, gone, stage, mode, who, observed, desired, last>>
    BY <1>6 DEF Take, TakeFails, stored, emby, userHistory
  <2> QED
    BY <2>1 DEF StaysInv, GoneEverywhere, Undisturbed, NotBroughtBack
<1>7. ASSUME NEW m \in Members, Observe(m) \/ Look(m) \/ Link(m) \/ Unlink(m) PROVE StaysInv'
  BY <1>7, LookStays, LinkStays
<1>8. ASSUME NEW m \in Members, NEW n \in Members, Clone(m, n) PROVE StaysInv'
  BY <1>8, CloneStays
<1>9. ASSUME NEW m \in Members, NEW x \in Items, WriteItem(m, x) \/ UserChanges(m, x) PROVE StaysInv'
  BY <1>9, WriteItemStays, UserChangesStays
<1>10. ASSUME NEW m \in Members, NEW x \in Items, WriteItemFails(m, x) PROVE StaysInv'
  <2>1. UNCHANGED <<favorites, group, gone, stage, mode, who, observed, desired, last>>
    BY <1>10 DEF WriteItemFails, stored, emby, userHistory
  <2> QED
    BY <2>1 DEF StaysInv, GoneEverywhere, Undisturbed, NotBroughtBack
<1> QED
  BY <1>1, <1>2, <1>3, <1>4, <1>5, <1>6, <1>7, <1>8, <1>9, <1>10 DEF UserNext

\* A removal that a sync carried and recorded is undone by no later delta sync, through any
\* failures of reads, writes and commits, deaths, new and old members, changes of the settings
\* and clones, unless somebody adds the item again; if the dashboard lists the whole group at
\* every sync and the favorites change between two syncs only.  A server left out is enough
\* to break it (the run user_sync_offline), and so is a change during a sync.
THEOREM RemovalsStay ==
  ASSUME AllAnswer PROVE UserSpec => []StaysRemoved
<1>1. UserInit => StaysInv
  <2>1. UserInit => \A m \in Members : last[m] = NoView
    BY DEF UserInit, Views
  <2> QED
    BY <2>1 DEF UserInit, StaysInv, GoneEverywhere, Undisturbed, NotBroughtBack
<1>2. UserInv /\ StaysInv => StaysRemoved
  BY DEF UserInv, InPlace, StaysInv, NotBroughtBack, StaysRemoved
<1> QED
  BY <1>1, <1>2, StaysStep, AlwaysUserInv, PTL DEF UserSpec
=============================================================================
