----------------------------- MODULE LatestFeed -----------------------------
(***************************************************************************)
(* What a refresh of Latest Publications does with one film, from          *)
(* src/emby_latest: which of its versions are new, how the change is       *)
(* classified (collector_movie_changes.py), how the card meets the cards   *)
(* that are kept (publication_identity.py, db_cache.py), what is           *)
(* remembered of the film when Emby names it anew (publication_history.py),*)
(* and what a notification adds to that memory (notification_checkpoint.py,*)
(* storage_latest_state_merge.py).                                         *)
(*                                                                         *)
(* A version is the moment Emby added it.  The film has an item and a      *)
(* signature, and both may change (drift).  A card is a publication of     *)
(* the feed: the versions it shows, how it calls them, and its batch.  A   *)
(* batch is named after the span of dates of everything that was fetched,  *)
(* so other films move it: `window' is that span.  A refresh holds the     *)
(* guard of the collector, so refreshes and notifications are single       *)
(* steps; how a notification is delivered is NotificationDelivery.         *)
(***************************************************************************)
EXTENDS Integers, FiniteSets

CONSTANTS
  ItemIds, Signatures,  \* how Emby may name the film
  Gap,                  \* batch_gap_minutes: versions this close belong together
  MaxClock,             \* bound: the last moment a version is added
  MaxWindows,           \* bound: how often the fetched span changes
  MaxDrifts,            \* bound: how often Emby renames the film
  FeedEvents            \* what may happen: "removal", "prune", "full"

ASSUME LatestFeedAssumption ==
  /\ ItemIds # {} /\ Signatures # {}
  /\ Gap \in Nat /\ MaxClock \in Nat \ {0} /\ MaxWindows \in Nat \ {0} /\ MaxDrifts \in Nat
  /\ FeedEvents \subseteq {"removal", "prune", "full"}

VARIABLES
  catalog,   \* the versions that Emby has
  film,      \* its item and its signature
  clock,     \* now
  window,    \* the span of dates of the last fetch
  drifts,    \* how often the film was renamed
  items,     \* what the state knows, by signature (movies.items)
  history,   \* what the history knows, by signature (history.movies)
  feed,      \* the cards
  announced  \* history: the sets of versions that were announced

embyFilm == <<catalog, film, clock, drifts>>
memory == <<items, history>>
filmVars == <<embyFilm, window, memory, feed, announced>>

Times == 1 .. MaxClock
Cards ==
  [item : ItemIds, sig : Signatures, kind : {"new", "update", "existing"},
   batch : (Signatures \cup {"window"}) \X Nat, srcs : SUBSET Times]
Batches == (Signatures \cup {"window"}) \X Nat
FilmEntry == [item : ItemIds, keys : SUBSET Times, notified : BOOLEAN, at : Nat, pubs : SUBSET Batches]

\* Cards of the film, entries of its memory, times and bounds are what they are said to be.
FeedOfFilmTypeOK ==
  /\ catalog \subseteq Times /\ clock \in Times /\ window \in 1 .. MaxWindows
  /\ film \in [item : ItemIds, sig : Signatures] /\ drifts \in 0 .. MaxDrifts
  /\ \A table \in {items, history} :
       DOMAIN table \subseteq Signatures /\ \A s \in DOMAIN table : table[s] \in FilmEntry
  /\ feed \subseteq Cards /\ announced \subseteq SUBSET Times

Latest(V) == CHOOSE v \in V : \A w \in V : w <= v

-----------------------------------------------------------------------------
(* What is remembered of a film *)

\* Mutation of Aliases: the item is not looked at.
AliasesBySignature(table, name) == {s \in DOMAIN table : s = name.sig}

\* Entries of the film: its signature, its item, or an item that one of these has.
Aliases(table, name) ==
  LET direct == {s \in DOMAIN table : s = name.sig \/ table[s].item = name.item}
  IN {s \in DOMAIN table : s \in direct \/ \E d \in direct : table[d].item = table[s].item}

\* All of them taken together.
Recalled(table, name) ==
  LET all == {table[s] : s \in Aliases(table, name)}
  IN [keys     |-> UNION {e.keys : e \in all},
      notified |-> \E e \in all : e.notified,
      at       |-> Latest({0} \cup {e.at : e \in all}),
      pubs     |-> UNION {e.pubs : e \in all}]

Known(table, name) == Aliases(table, name) # {}

\* The notification fields of a persisted table go into the one that replaces it, and an
\* entry that has any comes back.
Announced(entry) == entry.notified \/ entry.pubs # {}
WithNotifications(table, persisted) ==
  [s \in DOMAIN table \cup {p \in DOMAIN persisted : Announced(persisted[p])} |->
     IF s \notin DOMAIN table THEN persisted[s]
     ELSE IF s \notin DOMAIN persisted THEN table[s]
     ELSE [table[s] EXCEPT !.notified = @ \/ persisted[s].notified,
                           !.at = IF persisted[s].notified THEN persisted[s].at ELSE @,
                           !.pubs = @ \cup persisted[s].pubs]]

\* The entry of a film replaces every alias of it.
Renamed(table, name, entry) ==
  [s \in (DOMAIN table \ Aliases(table, name)) \cup {name.sig} |->
     IF s = name.sig THEN entry ELSE table[s]]

-----------------------------------------------------------------------------
(* What a refresh finds *)

\* Versions that were added closely one after the other are a group.
Break(V, v) == (\E w \in V : w > v) /\ \A w \in V : w > v => w - v > Gap
Group(V, v) ==
  {w \in V : \A b \in V : Break(V, b) => (b < v <=> b < w)}
Groups(V) == {Group(V, v) : v \in V}
HasGap(V) == \E v, w \in V : w - v > Gap
Recent(V) == {v \in V : \A w \in V : w - v <= Gap}

First == ~Known(items, film) /\ ~Known(history, film)
KnownKeys == Recalled(items, film).keys \cup Recalled(history, film).keys
Notified == Recalled(items, film).notified \/ Recalled(history, film).notified
LastNotified == Latest({Recalled(items, film).at, Recalled(history, film).at})

\* Versions that are no news: older groups of a film met for the first time, unless its
\* items came apart (split), and what was there when the film was last announced.
Baseline(split) ==
  (IF First /\ ~split THEN catalog \ Group(catalog, Latest(catalog)) ELSE {})
    \cup (IF Notified THEN {v \in catalog : v <= LastNotified} ELSE {})
News(split) == catalog \ (KnownKeys \cup Baseline(split))

StateNotified ==
  IF film.sig \in DOMAIN items THEN items[film.sig].notified
  ELSE Recalled(history, film).notified

Kind(split) ==
  IF News(split) # {} /\ (IF First THEN Baseline(split) # {} ELSE Notified) THEN "update"
  ELSE IF ~StateNotified THEN "new"
  ELSE IF HasGap(catalog) THEN "update"
  ELSE "existing"

Targets(split) ==
  IF First /\ HasGap(catalog) THEN Recent(catalog)
  ELSE IF News(split) = {} THEN catalog ELSE News(split)

Card(kind, batch, srcs) ==
  [item |-> film.item, sig |-> film.sig, kind |-> kind, batch |-> batch, srcs |-> srcs]

Found(split, w) ==
  IF First /\ split /\ Cardinality(Groups(catalog)) > 1
  THEN {Card(IF \A v \in catalog : \E u \in g : u <= v THEN "new" ELSE "update",
             <<film.sig, Latest(g)>>, g) : g \in Groups(catalog)}
  ELSE {Card(Kind(split), <<"window", w>>, Targets(split))}

-----------------------------------------------------------------------------
(* How it meets the cards that are kept *)

Rank(card) == CASE card.kind = "new" -> 0 [] card.kind = "update" -> 1 [] OTHER -> 3
Preferred(cards) ==
  CHOOSE c \in cards : \A d \in cards :
    Rank(c) < Rank(d) \/ (Rank(c) = Rank(d) /\ c.batch[2] <= d.batch[2])
Newest(cards) ==
  Preferred({c \in cards : \A d \in cards : Latest(d.srcs) <= Latest(c.srcs)})

OfSameFilm(c, d) == c.item = d.item \/ c.sig = d.sig
Wrapped(card, event) ==
  [card EXCEPT !.kind = event.kind, !.batch = event.batch, !.srcs = event.srcs]

\* Mutation of Reconciled: the same versions are not recognized.
ReconciledByBatch(card) ==
  LET visible == {d \in feed : d.kind # "existing" /\ OfSameFilm(d, card)}
  IN IF card.kind = "existing" /\ visible # {} THEN Wrapped(card, Newest(visible)) ELSE card

\* The same versions keep the event they had; a card without news takes the newest event.
Reconciled(card) ==
  LET same == {d \in feed : d.srcs = card.srcs}
      visible == {d \in feed : d.kind # "existing" /\ OfSameFilm(d, card)}
  IN IF same # {} THEN Wrapped(card, Preferred(same))
     ELSE IF card.kind = "existing" /\ visible # {} THEN Wrapped(card, Newest(visible))
     ELSE card

\* A card takes the place of one card of its film with its batch.
Replaceable(card) == {d \in feed : d.batch = card.batch /\ OfSameFilm(d, card)}

Merges(cards, replaced) ==
  /\ \A c \in cards : Replaceable(c) # {} => Cardinality(replaced \cap Replaceable(c)) = 1
  /\ feed' = {d \in feed \ replaced : \A c \in cards : d.srcs # c.srcs} \cup cards

-----------------------------------------------------------------------------
(* Refreshes and notifications *)

\* What the refresh remembers of the film.
Seen(split) ==
  LET keys == News(split) \cup KnownKeys \cup Baseline(split)
  IN [item     |-> film.item,
      keys     |-> IF keys = {} THEN catalog ELSE keys,
      notified |-> Notified,
      at       |-> LastNotified,
      pubs     |-> Recalled(items, film).pubs \cup Recalled(history, film).pubs]

\* Entries that grew old, or too many, are dropped.
Pruned(table, old) == [s \in DOMAIN table \ old |-> table[s]]

Remembers(table, past) ==
  \E old \in SUBSET DOMAIN table :
    /\ old # {} => "prune" \in FeedEvents
    /\ items' = WithNotifications(Pruned(table, old), items)
    /\ history' = WithNotifications(past, history)

Refresh(split, w) ==
  /\ catalog # {}
  /\ window' = w
  /\ \E cards \in {{Reconciled(c) : c \in Found(split, w)}}, seen \in {Seen(split)} :
       /\ \/ \E replaced \in SUBSET UNION {Replaceable(c) : c \in cards} : Merges(cards, replaced)
          \/ "full" \in FeedEvents /\ feed' = cards
       /\ Remembers(Renamed(items, film, seen), Renamed(history, film, seen))
  /\ UNCHANGED <<embyFilm, announced>>

\* The film is not among what was fetched.
RefreshMisses(w) ==
  /\ window' = w
  /\ Remembers(items, history)
  /\ UNCHANGED <<embyFilm, feed, announced>>

Undelivered(card) == card.batch \notin Recalled(items, card).pubs

\* A card is announced to everybody who must have it.
NotifiedEntry(card) ==
  LET state == Recalled(items, card)
      past == Recalled(history, card)
  IN [item |-> card.item, keys |-> state.keys \cup past.keys, notified |-> TRUE, at |-> clock,
      pubs |-> state.pubs \cup past.pubs \cup {card.batch}]

Notify(card) ==
  /\ Undelivered(card)
  /\ LET entry == NotifiedEntry(card)
         noted(table) == WithNotifications(table, [s \in {card.sig} |-> entry])
     IN items' = noted(items) /\ history' = noted(history)
  /\ announced' = announced \cup {card.srcs}
  /\ UNCHANGED <<embyFilm, window, feed>>

-----------------------------------------------------------------------------
(* Emby *)

AddVersion(pause) ==
  /\ clock + pause <= MaxClock
  /\ clock' = clock + pause
  /\ catalog' = catalog \cup {clock'}
  /\ UNCHANGED <<film, drifts, window, memory, feed, announced>>

RemoveVersion(v) ==
  /\ "removal" \in FeedEvents
  /\ catalog' = catalog \ {v}
  /\ UNCHANGED <<film, clock, drifts, window, memory, feed, announced>>

\* The film gets another item or another signature, not both at once.
Drift(name) ==
  /\ drifts < MaxDrifts /\ drifts' = drifts + 1
  /\ name # film /\ OfSameFilm(name, film)
  /\ film' = name
  /\ UNCHANGED <<catalog, clock, window, memory, feed, announced>>

\* A film that Emby has just got, under one of its names.
FeedOfFilmInit ==
  /\ film = [item |-> CHOOSE i \in ItemIds : TRUE, sig |-> CHOOSE s \in Signatures : TRUE]
  /\ clock = 1 /\ catalog = {1} /\ window = 1 /\ drifts = 0
  /\ items = <<>> /\ history = <<>> /\ feed = {} /\ announced = {}

FeedOfFilmNext ==
  \/ \E w \in {window, window + 1} \cap 1 .. MaxWindows :
       RefreshMisses(w) \/ \E split \in BOOLEAN : Refresh(split, w)
  \/ \E card \in feed : Notify(card)
  \/ \E pause \in {1, Gap + 1} : AddVersion(pause)
  \/ \E v \in catalog : RemoveVersion(v)
  \/ \E name \in [item : ItemIds, sig : Signatures] : Drift(name)

FeedOfFilmSpec == FeedOfFilmInit /\ [][FeedOfFilmNext]_filmVars

-----------------------------------------------------------------------------
(* Properties *)

SameEvent(c, d) == c.kind = d.kind /\ c.batch = d.batch /\ c.srcs = d.srcs

\* While the same versions are shown, they are called the same and keep their batch (so
\* that a delivery of it stays done), whatever the film's item and signature become and
\* whatever batch the refresh would have found (reconcile_publication_events).
EventKeepsMeaning ==
  [][\A d \in feed, c \in feed' : c.srcs = d.srcs => SameEvent(c, d)]_filmVars

\* A version that was announced is never news again, although the state is pruned and the
\* film gets another item or another signature: the compact history "stores only stable
\* identities ... so classification can remain correct after old cards have disappeared".
AnnouncedIsNoNews ==
  \A versions \in announced, split \in BOOLEAN :
    catalog # {} => versions \cap News(split) = {}

\* "Keep an existing event's meaning when a refresh observes no new source": a refresh
\* that finds known versions only shows the cards that were shown, and no new event.
QuietRefresh ==
  [][catalog \subseteq KnownKeys => \A c \in feed' : \E d \in feed : SameEvent(c, d)]_filmVars
=============================================================================
