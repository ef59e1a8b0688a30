------------------------------ MODULE ChangeFeed ------------------------------
(***************************************************************************)
(* The bounded journal of changes that an external client polls            *)
(* (realtime/external_change_feed.py), with a client that follows its      *)
(* documentation (docs/API_EXTERNAL_ACCESS.md): it passes the cursor it    *)
(* was given, and when it is told to reset it reads everything again.      *)
(*                                                                         *)
(* Abstractions: a change is the number of its publication.                *)
(***************************************************************************)
EXTENDS Naturals, Sequences, FiniteSetsExt

CONSTANTS
  Retention,    \* EXTERNAL_CHANGE_RETENTION, 250 in the code
  PageLimits,   \* limits a client may ask for
  MaxChanges    \* bound: changes ever published

ASSUME FeedAssumption ==
  /\ Retention \in Nat \ {0} /\ MaxChanges \in Nat
  /\ PageLimits \subseteq 1..Retention

VARIABLES
  latestCursor,  \* _latest_cursor
  changeLog,     \* _changes
  published,     \* changes ever published
  clientCursor,  \* the cursor the client passes next
  unread,        \* history: published changes it has not read, nor covered by a reset
  upToDate,      \* its last page was the end of the journal, and nothing came since
  overtaken      \* history: the journal of a new process has reached its old cursor

feedVars == <<latestCursor, changeLog, published, clientCursor, unread, upToDate, overtaken>>

Change == [cursor : 1..MaxChanges, id : 1..MaxChanges]

FeedTypeOK ==
  /\ latestCursor \in 0..published /\ published \in 0..MaxChanges
  /\ changeLog \in Seq(Change) /\ Len(changeLog) <= Retention
  /\ clientCursor \in 0..MaxChanges
  /\ unread \subseteq 1..published /\ upToDate \in BOOLEAN /\ overtaken \in BOOLEAN
  /\ \A i \in 1..Len(changeLog) : changeLog[i].cursor = latestCursor - Len(changeLog) + i

FeedInit ==
  /\ latestCursor = 0 /\ changeLog = <<>> /\ published = 0
  /\ clientCursor = 0 /\ unread = {} /\ upToDate = TRUE /\ overtaken = FALSE

\* publish_external_change
PublishChange ==
  /\ published < MaxChanges
  /\ published' = published + 1 /\ latestCursor' = latestCursor + 1
  /\ LET log == Append(changeLog, [cursor |-> latestCursor + 1, id |-> published + 1])
     IN  changeLog' = IF Len(log) > Retention THEN Tail(log) ELSE log
  /\ unread' = unread \cup {published + 1} /\ upToDate' = FALSE
  /\ overtaken' = (overtaken \/ clientCursor = latestCursor + 1)
  /\ UNCHANGED clientCursor

Oldest == IF changeLog = <<>> THEN latestCursor + 1 ELSE changeLog[1].cursor

\* Mutation of ResetRequired: off by one at the end of the journal.
ResetRequiredLate(after) ==
  \/ after > latestCursor
  \/ changeLog # <<>> /\ after + 1 < Oldest - 1

ResetRequired(after) ==
  \/ after > latestCursor
  \/ changeLog # <<>> /\ after < Oldest - 1

\* read_external_changes, and what the client makes of it: the changes after its cursor,
\* the first `limit' of them.
ReadChanges(limit) ==
  LET reset == ResetRequired(clientCursor)
      from == IF reset THEN Oldest - 1 ELSE clientCursor
      matching == {i \in DOMAIN changeLog : changeLog[i].cursor > from}
      page == {i \in matching : Cardinality({j \in matching : j < i}) < limit}
  IN  /\ clientCursor' = IF page = {} THEN from ELSE changeLog[Max(page)].cursor
      /\ unread' = IF reset THEN {} ELSE unread \ {changeLog[i].id : i \in page}
      /\ upToDate' = (page = matching)
      /\ overtaken' = (overtaken /\ ~reset)
      /\ UNCHANGED <<latestCursor, changeLog, published>>

\* The journal is in memory: a new process numbers its changes from one.
FeedRestart ==
  /\ latestCursor # 0
  /\ latestCursor' = 0 /\ changeLog' = <<>>
  /\ overtaken' = (overtaken \/ clientCursor = 0)
  /\ UNCHANGED <<published, clientCursor, unread, upToDate>>

FeedNext == PublishChange \/ FeedRestart \/ \E limit \in PageLimits : ReadChanges(limit)

FeedSpec == FeedInit /\ [][FeedNext]_feedVars

\* docs/API_EXTERNAL_ACCESS_ita.md: "Se reset_required e true, il cursore non e piu
\* recuperabile": a client that has read up to the end of the journal has seen every change,
\* or was told to read everything again, whatever page size it asks for, however long it was
\* away and however often the process was restarted: unless a new journal grew to the cursor
\* of the old one before the client came back, which read_external_changes cannot see.
NothingMissed == upToDate /\ ~overtaken => unread = {}
=============================================================================
