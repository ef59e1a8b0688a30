------------------------------ MODULE UserSync ------------------------------
(***************************************************************************)
(* The sync of a group of linked Emby users: AutoSyncManager of            *)
(* emby_users/auto_sync_manager.py, the baselines it works from            *)
(* (state_tracker.py, sync_state_refresh.py), the applier of favorites     *)
(* (favorites_manager.py), the links (group_manager.py) and the clone of a *)
(* user, which writes the same baselines (sync_manager.py, routes.py).     *)
(*                                                                         *)
(* One domain, the favorites, and one group.  A delta sync compares what   *)
(* each user has with the user's baseline, merges the differences, writes  *)
(* the outcome to everybody and only then moves all the baselines, if they *)
(* are still those it read.  The group's lock is tried, never waited for:  *)
(* one sync at a time, and no link changes under it; the users' own        *)
(* favorites, the settings and a clone do not take it.                     *)
(*                                                                         *)
(* Abstractions: an item has one key; the members after the leader are     *)
(* visited in a fixed order; a baseline and the favorites beside it are read  *)
(* at once, as are the favorites and the items of a target; the messages   *)
(* and the times of the group's status are left out, and so are the other  *)
(* domains, whose failure before the baselines move is SyncDies.           *)
(***************************************************************************)
EXTENDS Naturals, FiniteSets

CONSTANTS
  Members,     \* Emby users that may be linked
  NoMember,    \* nobody
  Items,       \* favorites
  NoView,      \* nothing read, or no baseline
  HasItem,     \* the items the server of each user has
  MaxUserChanges,  \* bound: changes by users, links, settings and clones
  UserEvents   \* the external events this instance explores

ASSUME MemberAssumption ==
  /\ NoMember \notin Members /\ IsFiniteSet(Members) /\ Cardinality(Members) >= 2
  /\ MaxUserChanges \in Nat
ASSUME HasItemAssumption == HasItem \in [Members -> SUBSET Items]
ASSUME UserEventAssumption ==
  UserEvents \subseteq {"fetchFails",  \* a read from a server fails
                        "writeFails",  \* a write to a server fails
                        "dbError",     \* a database call raises
                        "crash",       \* the sync dies, or another domain fails
                        "offline",     \* a server does not list its users
                        "meanwhile",   \* users change favorites during a sync
                        "links",       \* users are linked and unlinked
                        "settings",    \* the settings of the group are saved
                        "clone"}       \* a user is cloned

VARIABLES
  favorites,  \* the favorites of each user, on the servers
  base,       \* the baseline of each user (emby_user_sync_state), or NoView
  group,      \* the linked users
  leader,
  oneWay,     \* sync_type is one_way
  bootDone,   \* favorites_bootstrap_done
  \* The sync that holds the lock of the group.
  stage,      \* where it is
  mode,       \* delta, bootstrap or oneWay
  who,        \* its participants, of the dashboard
  toVisit,    \* those it has still to visit
  observed,   \* what it read of each: the baseline and the favorites
  desired,    \* what everybody shall have
  writes,     \* writes it has still to make to the member in hand
  failed,     \* a write or a read before it failed
  last,       \* what it read of each at the end
  \* The clone.
  clone,      \* where it is, from whom and to whom, and what it read at the end
  \* History.
  dropped,    \* items of the baseline taken from each user, by the user or by a sync
  wanted,     \* items each user added since the baseline, and that were not taken back
  touched,    \* items that users, or the baselines of a clone, moved since the sync began
  gone,       \* removals that a sync carried and recorded, and nobody took back
  userChanges

emby == <<favorites, group, leader, oneWay>>
stored == <<emby, base, bootDone>>
sync == <<stage, mode, who, toVisit, observed, desired, writes, failed, last>>
userHistory == <<dropped, wanted, touched, gone, userChanges>>
userVars == <<stored, sync, clone, userHistory>>

View == [was : {NoView} \cup SUBSET Items, now : SUBSET Items]
ASSUME NoViewAssumption == \A read \in View \cup SUBSET Items : read # NoView
NoClone == [at |-> "none", from |-> NoMember, to |-> NoMember, views |-> [m \in {} |-> NoView]]

\* The guards of the code, in the types: the leader is linked, at least two take part.
UserTypeOK ==
  /\ favorites \in [Members -> SUBSET Items] /\ \A m \in Members : favorites[m] \subseteq HasItem[m]
  /\ base \in [Members -> {NoView} \cup SUBSET Items]
  /\ group \subseteq Members /\ Cardinality(group) # 1 /\ (group # {} => leader \in group)
  /\ oneWay \in BOOLEAN /\ bootDone \in BOOLEAN /\ failed \in BOOLEAN
  /\ stage \in {"idle", "reads", "writes", "marks", "looks"}
  /\ mode \in {"delta", "bootstrap", "oneWay"}
  /\ who \subseteq group /\ toVisit \subseteq who /\ (stage # "idle" => Cardinality(who) >= 2)
  /\ observed \in [Members -> {NoView} \cup View] /\ last \in [Members -> {NoView} \cup View]
  /\ desired \subseteq Items /\ writes \subseteq Members \X Items
  /\ clone.at \in {"none", "copied", "viewed"}
  /\ dropped \in [Members -> SUBSET Items] /\ wanted \in [Members -> SUBSET Items]
  /\ touched \subseteq Items /\ gone \subseteq Items /\ userChanges \in 0..MaxUserChanges

Views == [m \in Members |-> NoView]

UserInit ==
  /\ favorites \in [Members -> SUBSET Items] /\ \A m \in Members : favorites[m] \subseteq HasItem[m]
  /\ base = Views
  /\ group \in {Members, {}} /\ leader = CHOOSE m \in Members : TRUE
  /\ oneWay = FALSE /\ bootDone = FALSE
  /\ stage = "idle" /\ mode = "delta" /\ who = {} /\ toVisit = {} /\ observed = Views
  /\ desired = {} /\ writes = {} /\ failed = FALSE /\ last = Views
  /\ clone = NoClone
  /\ dropped = [m \in Members |-> {}] /\ wanted = dropped
  /\ touched = {} /\ gone = {} /\ userChanges = 0

-----------------------------------------------------------------------------
(* The sync *)

\* UserSyncStateTracker.observe, refresh_with_diff: the baseline and the favorites.
Observed(m) == [was |-> base[m], now |-> favorites[m]]

\* diff_snapshots: without a baseline nothing was added or removed.
Initial(v) == v.was = NoView
Added(v) == IF Initial(v) THEN {} ELSE v.now \ v.was
Removed(v) == IF Initial(v) THEN {} ELSE v.was \ v.now
Baseline(v) == IF Initial(v) THEN v.now ELSE v.was

\* _run_favorites_delta_sync: what anybody had or added, less what anybody removed.
AllAdded(views, ms) == UNION {Added(views[m]) : m \in ms}
AllRemoved(views, ms) == UNION {Removed(views[m]) : m \in ms}
Conflict(views, ms) == AllAdded(views, ms) \cap AllRemoved(views, ms) # {}
Merged(views, ms) ==
  ((UNION {Baseline(views[m]) : m \in ms}) \cup AllAdded(views, ms)) \ AllRemoved(views, ms)

\* sync_merge_favorites: the union of what everybody has.
Union(views, ms) == UNION {views[m].now : m \in ms}

\* get_users_dashboard_data sorts the users of a group, the leader first.
NextMember(m) ==
  m \in toVisit /\ m = IF leader \in toVisit THEN leader ELSE CHOOSE n \in toVisit : TRUE

\* The end of a sync, whatever its outcome: the lock is released.
Idle ==
  /\ stage' = "idle" /\ mode' = "delta" /\ who' = {} /\ toVisit' = {} /\ observed' = Views
  /\ desired' = {} /\ writes' = {} /\ failed' = FALSE /\ last' = Views

\* _sync_group_singleflight, _sync_group: the dashboard is read under the lock, and has
\* the users of the servers that answered.
StartSync ==
  /\ stage = "idle"
  /\ \E ms \in SUBSET group :
       /\ "offline" \in UserEvents \/ ms = group
       /\ Cardinality(ms) >= 2 /\ leader \in ms
       /\ who' = ms
       /\ toVisit' = IF oneWay THEN {leader} ELSE ms
  /\ stage' = "reads"
  /\ mode' = IF oneWay THEN "oneWay" ELSE IF bootDone THEN "delta" ELSE "bootstrap"
  /\ touched' = {}
  /\ UNCHANGED <<stored, observed, desired, writes, failed, last, clone,
                 dropped, wanted, gone, userChanges>>

Observe(m) ==
  /\ stage = "reads" /\ NextMember(m)
  /\ observed' = [observed EXCEPT ![m] = Observed(m)]
  /\ toVisit' = toVisit \ {m}
  /\ UNCHANGED <<stored, stage, mode, who, desired, writes, failed, last, clone, userHistory>>

\* Mutation of ObserveFails: a user that cannot be read has no favorites.
ObserveFailsAsEmpty ==
  /\ "fetchFails" \in UserEvents
  /\ stage = "reads"
  /\ \E m \in Members :
       /\ NextMember(m)
       /\ observed' = [observed EXCEPT ![m] = [was |-> base[m], now |-> {}]]
       /\ toVisit' = toVisit \ {m}
  /\ UNCHANGED <<stored, stage, mode, who, desired, writes, failed, last, clone, userHistory>>

\* require_complete_snapshots, source_failures: one that cannot be read ends the sync.
ObserveFails ==
  /\ "fetchFails" \in UserEvents
  /\ stage = "reads" /\ toVisit # {}
  /\ Idle
  /\ UNCHANGED <<stored, clone, userHistory>>

\* Two users moved an item in opposite ways: nothing is applied.
Contested ==
  /\ stage = "reads" /\ toVisit = {} /\ mode = "delta" /\ Conflict(observed, who)
  /\ Idle
  /\ UNCHANGED <<stored, clone, userHistory>>

Resolve ==
  /\ stage = "reads" /\ toVisit = {}
  /\ mode = "delta" => ~Conflict(observed, who)
  /\ desired' = CASE mode = "delta" -> Merged(observed, who)
                  [] mode = "bootstrap" -> Union(observed, who)
                  [] mode = "oneWay" -> observed[leader].now
  /\ toVisit' = IF mode = "oneWay" THEN who \ {leader} ELSE who
  /\ stage' = "writes"
  /\ UNCHANGED <<stored, mode, who, observed, writes, failed, last, clone, userHistory>>

\* sync_user_favorites_to_keys, one target: the items of its server that differ.
Take(m) ==
  /\ stage = "writes" /\ writes = {} /\ NextMember(m)
  /\ writes' = {<<m, x>> : x \in {y \in HasItem[m] : y \in desired <=> y \notin favorites[m]}}
  /\ toVisit' = toVisit \ {m}
  /\ UNCHANGED <<stored, stage, mode, who, observed, desired, failed, last, clone, userHistory>>

\* A target that cannot be read is skipped, the others are written.
TakeFails(m) ==
  /\ "fetchFails" \in UserEvents
  /\ stage = "writes" /\ writes = {} /\ NextMember(m)
  /\ toVisit' = toVisit \ {m}
  /\ failed' = TRUE
  /\ UNCHANGED <<stored, stage, mode, who, observed, desired, writes, last, clone, userHistory>>

\* An item of the baseline goes.
BaseOf(m) == IF base[m] = NoView THEN {} ELSE base[m]
GoneFrom(m, x) == [dropped EXCEPT ![m] = @ \cup ({x} \cap BaseOf(m))]

WriteItem(m, x) ==
  /\ <<m, x>> \in writes
  /\ writes' = writes \ {<<m, x>>}
  /\ favorites' = [favorites EXCEPT ![m] = IF x \in desired THEN @ \cup {x} ELSE @ \ {x}]
  /\ IF x \in desired
     THEN UNCHANGED <<dropped, wanted>>
     ELSE /\ dropped' = GoneFrom(m, x)
          /\ wanted' = [wanted EXCEPT ![m] = @ \ {x}]
  /\ gone' = IF mode = "delta" THEN gone ELSE gone \ desired
  /\ UNCHANGED <<group, leader, oneWay, base, bootDone, stage, mode, who, toVisit, observed, desired,
                 failed, last, clone, touched, userChanges>>

WriteItemFails(m, x) ==
  /\ "writeFails" \in UserEvents
  /\ <<m, x>> \in writes
  /\ writes' = writes \ {<<m, x>>}
  /\ failed' = TRUE
  /\ UNCHANGED <<stored, stage, mode, who, toVisit, observed, desired, last, clone, userHistory>>

\* Mutation of Applied: the baselines move although a write failed.
AppliedAnyway ==
  /\ stage = "writes" /\ toVisit = {} /\ writes = {}
  /\ stage' = IF mode = "bootstrap" THEN "marks" ELSE "looks"
  /\ toVisit' = who
  /\ UNCHANGED <<mode, who, observed, desired, writes, failed, last, stored, clone, userHistory>>

\* validate_sync_result: one failure and the sync ends without new baselines.
Applied ==
  /\ stage = "writes" /\ toVisit = {} /\ writes = {}
  /\ IF failed
     THEN Idle
     ELSE /\ stage' = IF mode = "bootstrap" THEN "marks" ELSE "looks"
          /\ toVisit' = who
          /\ UNCHANGED <<mode, who, observed, desired, writes, failed, last>>
  /\ UNCHANGED <<stored, clone, userHistory>>

\* mark_group_bootstrap_done, before the baselines are written.
Mark ==
  /\ stage = "marks"
  /\ bootDone' = TRUE
  /\ stage' = "looks"
  /\ UNCHANGED <<emby, base, mode, who, toVisit, observed, desired, writes, failed, last, clone, userHistory>>

\* refresh_sync_states: everybody is read again.
Look(m) ==
  /\ stage = "looks" /\ NextMember(m)
  /\ last' = [last EXCEPT ![m] = Observed(m)]
  /\ toVisit' = toVisit \ {m}
  /\ UNCHANGED <<stored, stage, mode, who, observed, desired, writes, failed, clone, userHistory>>

LookFails ==
  /\ "fetchFails" \in UserEvents
  /\ stage = "looks" /\ toVisit # {}
  /\ Idle
  /\ UNCHANGED <<stored, clone, userHistory>>

\* compare_and_set_key_values: all the baselines move, or none.
BaseCurrent(views) == \A m \in DOMAIN views : views[m] # NoView => base[m] = views[m].was
Moved(views) ==
  [m \in Members |-> IF m \in DOMAIN views /\ views[m] # NoView THEN views[m].now ELSE base[m]]

\* What the users changed that the baselines do not have yet.
Missing(m) == BaseOf(m)' \ favorites[m]
StillOpen ==
  /\ dropped' = [m \in Members |-> Missing(m)]
  /\ wanted' = [m \in Members |-> IF base'[m] = NoView THEN wanted[m]
                                  ELSE wanted[m] \cap (favorites[m] \ base'[m])]

SyncCommits ==
  /\ stage = "looks" /\ toVisit = {} /\ BaseCurrent(last)
  /\ base' = Moved(last)
  /\ StillOpen
  /\ gone' = (IF mode = "delta" THEN gone \cup UNION {dropped[m] \cap BaseOf(m) : m \in who} ELSE gone)
               \ UNION {base'[m] : m \in who}
  /\ Idle
  /\ UNCHANGED <<emby, bootDone, clone, touched, userChanges>>

\* The baselines moved under the sync, or the commit raised.
SyncRefused ==
  /\ stage = "looks" /\ toVisit = {}
  /\ ~BaseCurrent(last) \/ "dbError" \in UserEvents
  /\ Idle
  /\ UNCHANGED <<stored, clone, userHistory>>

SyncDies ==
  /\ "crash" \in UserEvents
  /\ stage # "idle"
  /\ Idle
  /\ UNCHANGED <<stored, clone, userHistory>>

-----------------------------------------------------------------------------
(* Users, administrators and the clone *)

UserActs == userChanges < MaxUserChanges /\ userChanges' = userChanges + 1

\* A user changes a favorite on the server.
UserChanges(m, x) ==
  /\ UserActs
  /\ stage = "idle" \/ "meanwhile" \in UserEvents
  /\ x \in HasItem[m]
  /\ touched' = touched \cup {x}
  /\ IF x \in favorites[m]
     THEN /\ favorites' = [favorites EXCEPT ![m] = @ \ {x}]
          /\ dropped' = GoneFrom(m, x)
          /\ wanted' = [wanted EXCEPT ![m] = @ \ {x}]
          /\ UNCHANGED gone
     ELSE /\ favorites' = [favorites EXCEPT ![m] = @ \cup {x}]
          /\ wanted' = [wanted EXCEPT ![m] = @ \cup {x}]
          /\ gone' = gone \ {x}
          /\ UNCHANGED dropped
  /\ UNCHANGED <<group, leader, oneWay, base, bootDone, sync, clone>>

\* link_users: a new member, or a new group of two; refused during a sync.
Link(m) ==
  /\ "links" \in UserEvents
  /\ UserActs
  /\ stage = "idle" /\ m \notin group
  /\ \/ group # {} /\ group' = group \cup {m} /\ UNCHANGED leader
     \/ group = {} /\ \E n \in Members \ {m} : group' = {m, n} /\ leader' = m
  /\ gone' = gone \ UNION {favorites[n] : n \in group' \ group}
  /\ UNCHANGED <<favorites, oneWay, base, bootDone, sync, clone, dropped, wanted, touched>>

\* unlink_user: the baseline stays; a group of one is dissolved with its settings.
Unlink(m) ==
  /\ "links" \in UserEvents
  /\ UserActs
  /\ stage = "idle" /\ m \in group
  /\ group' = IF Cardinality(group) = 2 THEN {} ELSE group \ {m}
  /\ leader' \in IF group' = {} \/ leader # m THEN {leader} ELSE group'
  /\ oneWay' = (oneWay /\ group' # {})
  /\ bootDone' = (bootDone /\ group' # {})
  /\ UNCHANGED <<favorites, base, sync, clone, dropped, wanted, touched, gone>>

\* save_group_settings, without the lock: the page sends the type and the flag it has.
SaveSettings ==
  /\ "settings" \in UserEvents
  /\ UserActs
  /\ group # {}
  /\ oneWay' \in BOOLEAN
  /\ bootDone' \in {bootDone, FALSE}
  /\ UNCHANGED <<favorites, group, leader, base, sync, clone, dropped, wanted, touched, gone>>

\* clone_user: what the source has is added to the target; all of it, or no baseline is
\* written.
Clone(m, n) ==
  /\ "clone" \in UserEvents
  /\ UserActs
  /\ clone.at = "none" /\ m # n
  /\ stage = "idle" \/ "meanwhile" \in UserEvents
  /\ favorites' = [favorites EXCEPT ![n] = @ \cup (favorites[m] \cap HasItem[n])]
  /\ clone' = [NoClone EXCEPT !.at = "copied", !.from = m, !.to = n]
  /\ wanted' = [wanted EXCEPT ![n] = @ \cup (favorites[m] \cap HasItem[n])]
  /\ touched' = touched \cup favorites[m]
  /\ gone' = gone \ favorites[m]
  /\ UNCHANGED <<group, leader, oneWay, base, bootDone, sync, dropped>>

\* api_emby_users_clone: the baselines of both, outside the lock of the group.
CloneViews ==
  /\ clone.at = "copied"
  /\ clone' = [clone EXCEPT !.at = "viewed",
                            !.views = [m \in {clone.from, clone.to} |-> Observed(m)]]
  /\ UNCHANGED <<stored, sync, userHistory>>

CloneCommits ==
  /\ clone.at = "viewed"
  /\ IF BaseCurrent(clone.views)
     THEN /\ base' = Moved(clone.views)
          /\ StillOpen
          /\ touched' = Items
     ELSE UNCHANGED <<base, dropped, wanted, touched>>
  /\ clone' = NoClone
  /\ UNCHANGED <<emby, bootDone, sync, gone, userChanges>>

-----------------------------------------------------------------------------
UserNext ==
  \/ StartSync \/ ObserveFails \/ Contested \/ Resolve \/ Applied \/ Mark \/ LookFails
  \/ SyncCommits \/ SyncRefused \/ SyncDies \/ SaveSettings \/ CloneViews \/ CloneCommits
  \/ \E m \in Members :
       \/ Observe(m) \/ Take(m) \/ TakeFails(m) \/ Look(m) \/ Link(m) \/ Unlink(m)
       \/ \E n \in Members : Clone(m, n)
       \/ \E x \in Items : WriteItem(m, x) \/ WriteItemFails(m, x) \/ UserChanges(m, x)

UserSpec == UserInit /\ [][UserNext]_userVars

-----------------------------------------------------------------------------
(* Properties *)

\* A merging sync takes a favorite from a user only if it is gone from somebody whose
\* baseline has it, or somebody moved it during the sync: never for a server that could not
\* be read, an attempt that failed or a member that came back (require_complete_snapshots,
\* sync_merge_favorites, commit_many).
NoUnexpectedRemoval ==
  \A c \in writes : mode # "oneWay" /\ c[2] \notin desired =>
    c[2] \in touched \/ \E n \in Members : c[2] \in dropped[n]

\* When a delta sync succeeds, a change that nobody contested has reached every
\* participant, whatever attempts failed before: what a user removed is nobody's, what a
\* user added is everybody's whose server has it (_run_favorites_delta_sync, commit_many).
Removal(m, x) == x \in dropped[m] /\ x \notin observed[m].now
Addition(m, x) == x \in wanted[m] /\ x \in observed[m].now
ChangesCarried ==
  [][stage = "looks" /\ toVisit = {} /\ mode = "delta" /\ SyncCommits =>
       \A m \in who, x \in Items \ touched :
         /\ Removal(m, x) /\ (\A n \in Members : x \notin wanted[n]) =>
              \A n \in who : x \notin base'[n]
         /\ Addition(m, x) /\ (\A n \in Members : x \notin dropped[n]) =>
              \A n \in who : x \in HasItem[n] => x \in base'[n]]_userVars

\* A removal that a sync carried and recorded is not undone by a later one, unless somebody
\* adds the item again.  Violated: a server that did not answer is left out, and the old
\* baseline of its user brings the item back.
StaysRemoved == \A c \in writes : mode = "delta" /\ c[2] \in desired => c[2] \notin gone
=============================================================================
