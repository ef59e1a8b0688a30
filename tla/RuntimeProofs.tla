--------------------------- MODULE RuntimeProofs ---------------------------
(***************************************************************************)
(* Proofs about LatestFeed, for any names of a film, number of its versions *)
(* and refreshes, and about MCRuntime, where it is checked together with the *)
(* other components that live in one process.                              *)
(***************************************************************************)
EXTENDS MCRuntime, ProbeProofs, RealtimeProofs, JobProofs, WellFoundedInduction, TLAPS

(***************************************************************************)
(* The feed of one film of Latest Publications.                            *)
(***************************************************************************)

\* The natural numbers are well ordered.
LEMMA LeastOfNaturals ==
  ASSUME NEW T \in SUBSET Nat, T # {}
  PROVE  \E x \in T : \A y \in T : x <= y
<1> DEFINE R == OpToRel(<, Nat)
<1>1. IsWellFoundedOn(R, Nat)
  BY NatLessThanWellFounded
<1>2. \A x, y \in Nat : x < y => <<x, y>> \in R
  BY DEF OpToRel
<1> HIDE DEF R
<1>3. PICK x \in T : \A y \in T : ~(<<y, x>> \in R)
  BY <1>1, WFMin
<1>4. \A y \in T : ~(y < x)
  BY <1>2, <1>3
<1> QED
  BY <1>3, <1>4

\* A set of times has a latest one.
LEMMA LatestIs ==
  ASSUME NEW V \in SUBSET (0 .. MaxClock), V # {}
  PROVE  Latest(V) \in V /\ \A w \in V : w <= Latest(V)
<1> DEFINE T == {MaxClock - v : v \in V}
<1>1. T \in SUBSET Nat /\ T # {}
  <2>1. \A v \in V : MaxClock - v \in Nat
    BY LatestFeedAssumption
  <2> QED
    BY <2>1
<1>2. PICK t \in T : \A y \in T : t <= y
  BY <1>1, LeastOfNaturals
<1>3. PICK v \in V : t = MaxClock - v
  BY <1>2
<1>4. \A w \in V : w <= v
  <2> SUFFICES ASSUME NEW w \in V PROVE w <= v
    OBVIOUS
  <2>1. t <= MaxClock - w
    BY <1>2
  <2> QED
    BY <1>3, <2>1, LatestFeedAssumption
<1> QED
  BY <1>4 DEF Latest

\* _preferred_event picks one of its candidates.
LEMMA PreferredIs ==
  ASSUME NEW cards \in SUBSET Cards, cards # {}
  PROVE  Preferred(cards) \in cards
<1>1. \A c \in cards : Rank(c) \in Nat /\ c.batch[2] \in Nat
  BY DEF Cards, Rank
<1> DEFINE ranks == {Rank(c) : c \in cards}
<1>2. PICK r \in ranks : \A q \in ranks : r <= q
  BY ZenonT(40), <1>1, LeastOfNaturals
<1> DEFINE first == {c \in cards : Rank(c) = r}
<1> DEFINE batches == {c.batch[2] : c \in first}
<1>3. batches \in SUBSET Nat /\ batches # {}
  BY <1>1, <1>2
<1>4. PICK b \in batches : \A q \in batches : b <= q
  BY <1>3, LeastOfNaturals
<1>5. PICK c \in cards : Rank(c) = r /\ c.batch[2] = b
  BY <1>4
<1>6. \A d \in cards : Rank(c) < Rank(d) \/ (Rank(c) = Rank(d) /\ c.batch[2] <= d.batch[2])
  <2> SUFFICES ASSUME NEW d \in cards PROVE Rank(c) < Rank(d) \/ (Rank(c) = Rank(d) /\ c.batch[2] <= d.batch[2])
    OBVIOUS
  <2>1. r <= Rank(d) /\ r \in Nat /\ Rank(d) \in Nat
    BY <1>1, <1>2
  <2>2. Rank(d) = r => c.batch[2] <= d.batch[2]
    BY <1>4, <1>5
  <2> QED
    BY <1>5, <2>1, <2>2
<1> QED
  BY <1>6, Zenon DEF Preferred

\* _visible_events_by_alias picks one of its candidates.
LEMMA NewestIs ==
  ASSUME NEW cards \in SUBSET Cards, cards # {}, \A c \in cards : c.srcs # {}
  PROVE  Newest(cards) \in cards
<1> DEFINE last == {Latest(c.srcs) : c \in cards}
<1>1. \A c \in cards : Latest(c.srcs) \in 0 .. MaxClock
  <2> SUFFICES ASSUME NEW c \in cards PROVE Latest(c.srcs) \in 0 .. MaxClock
    OBVIOUS
  <2>1. c.srcs \in SUBSET Times
    BY DEF Cards
  <2>2. c.srcs \in SUBSET (0 .. MaxClock)
    BY <2>1, LatestFeedAssumption DEF Times
  <2>3. Latest(c.srcs) \in c.srcs
    BY <2>2, LatestIs
  <2> QED
    BY <2>2, <2>3
<1>2. last \in SUBSET (0 .. MaxClock) /\ last # {}
  BY <1>1
<1>3. Latest(last) \in last /\ \A t \in last : t <= Latest(last)
  BY <1>2, LatestIs
<1>4. PICK c \in cards : \A d \in cards : Latest(d.srcs) <= Latest(c.srcs)
  BY <1>3
<1> DEFINE newest == {e \in cards : \A d \in cards : Latest(d.srcs) <= Latest(e.srcs)}
<1>5. newest \in SUBSET Cards /\ newest # {}
  BY <1>4
<1>6. Preferred(newest) \in newest
  BY <1>5, PreferredIs
<1> QED
  BY <1>6 DEF Newest

\* What the cards and the film are.
FilmTyped ==
  /\ catalog \subseteq Times /\ clock \in Times /\ window \in 1 .. MaxWindows
  /\ film \in [item : ItemIds, sig : Signatures] /\ drifts \in 0 .. MaxDrifts
CardsTyped == feed \subseteq Cards /\ \A d \in feed : d.srcs # {}
EntryTyped(e) == e \in FilmEntry /\ e.at <= MaxClock
Table(t) ==
  /\ t = [s \in DOMAIN t |-> t[s]] /\ DOMAIN t \subseteq Signatures
  /\ \A s \in DOMAIN t : EntryTyped(t[s])
MemoryTyped == Table(items) /\ Table(history) /\ announced \subseteq SUBSET Times

\* The cards of the same versions are the same event.
OneEvent == \A c, d \in feed : c.srcs = d.srcs => SameEvent(c, d)

FilmInv == FilmTyped /\ CardsTyped /\ MemoryTyped /\ OneEvent

LEMMA TimesAreTimes == Times \subseteq 0 .. MaxClock /\ Times \subseteq Nat
  BY LatestFeedAssumption DEF Times

\* A version is in its group.
LEMMA GroupHas == \A V : \A v \in V : v \in Group(V, v) /\ Group(V, v) \subseteq V
  BY DEF Group

LEMMA TargetsAre ==
  ASSUME FilmTyped, catalog # {}, NEW split \in BOOLEAN
  PROVE  Targets(split) \subseteq catalog /\ Targets(split) # {}
<1>1. Recent(catalog) \subseteq catalog /\ Recent(catalog) # {}
  <2>1. catalog \in SUBSET (0 .. MaxClock)
    BY TimesAreTimes DEF FilmTyped
  <2>2. Latest(catalog) \in catalog /\ \A w \in catalog : w <= Latest(catalog)
    BY <2>1, LatestIs
  <2> DEFINE last == Latest(catalog)
  <2>3. last \in catalog /\ \A w \in catalog : w <= last
    BY <2>2
  <2> HIDE DEF last
  <2>4. last \in Int /\ \A w \in catalog : w \in Int /\ w - last <= Gap
    BY <2>1, <2>3, LatestFeedAssumption
  <2> QED
    BY <2>3, <2>4 DEF Recent
<1>2. News(split) \subseteq catalog
  BY DEF News
<1> QED
  BY <1>1, <1>2 DEF Targets

\* process_movie_changes: a card shows some of the versions there are; it has several cards
\* only for the groups of a film that came apart, and they show different versions.
LEMMA FoundIs ==
  ASSUME FilmTyped, catalog # {}, NEW split \in BOOLEAN, NEW w \in 1 .. MaxWindows
  PROVE  /\ Found(split, w) \subseteq Cards
         /\ \A c \in Found(split, w) : c.srcs # {} /\ c.srcs \subseteq catalog
         /\ \/ \A c, d \in Found(split, w) : c = d
            \/ \A c, d \in Found(split, w) : c.kind # "existing" /\ (c.srcs = d.srcs => c = d)
<1> DEFINE groups == Groups(catalog)
           apart == First /\ split /\ Cardinality(groups) > 1
           kind(g) == IF \A v \in catalog : \E u \in g : u <= v THEN "new" ELSE "update"
           cardOf(g) == Card(kind(g), <<film.sig, Latest(g)>>, g)
<1>0. film.item \in ItemIds /\ film.sig \in Signatures
  BY DEF FilmTyped
<1>1. CASE apart
  <2>1. Found(split, w) = {cardOf(g) : g \in groups}
    BY <1>1 DEF Found
  <2>2. \A g \in groups : g # {} /\ g \subseteq catalog
    BY GroupHas DEF Groups
  <2>3. \A g \in groups : Latest(g) \in Nat
    <3> SUFFICES ASSUME NEW g \in groups PROVE Latest(g) \in Nat
      OBVIOUS
    <3>1. g \in SUBSET (0 .. MaxClock) /\ g # {} /\ g \subseteq Nat
      BY <2>2, TimesAreTimes DEF FilmTyped
    <3> QED
      BY <3>1, LatestIs
  <2>4. \A g \in groups : /\ cardOf(g) \in Cards /\ cardOf(g).srcs = g
                          /\ cardOf(g).kind # "existing"
    <3> SUFFICES ASSUME NEW g \in groups
                 PROVE  /\ cardOf(g) \in Cards /\ cardOf(g).srcs = g
                        /\ cardOf(g).kind # "existing"
      OBVIOUS
    <3>1. g \in SUBSET Times
      BY <2>2 DEF FilmTyped
    <3>2. <<film.sig, Latest(g)>> \in Batches
      BY <1>0, <2>3 DEF Batches
    <3> QED
      BY <1>0, <3>1, <3>2 DEF Card, Cards, Batches
  <2> HIDE DEF groups, cardOf
  <2> QED
    BY <2>1, <2>2, <2>4
<1>2. CASE ~apart
  <2>1. Found(split, w) = {Card(Kind(split), <<"window", w>>, Targets(split))}
    BY <1>2 DEF Found
  <2>2. Kind(split) \in {"new", "update", "existing"}
    BY DEF Kind
  <2>3. Targets(split) \subseteq catalog /\ Targets(split) # {} /\ Targets(split) \in SUBSET Times
    BY TargetsAre DEF FilmTyped
  <2>4. <<"window", w>> \in Batches
    BY DEF Batches
  <2> QED
    BY <1>0, <2>1, <2>2, <2>3, <2>4 DEF Card, Cards, Batches
<1> QED
  BY <1>1, <1>2

\* reconcile_publication_events: what a card becomes is an event that the feed has, or the
\* card itself, whose versions the feed does not show.
LEMMA ReconciledIs ==
  ASSUME CardsTyped, NEW c \in Cards, c.srcs # {}
  PROVE  /\ Reconciled(c) \in Cards /\ Reconciled(c).srcs # {}
         /\ \/ \E d \in feed : SameEvent(Reconciled(c), d)
            \/ Reconciled(c) = c /\ \A d \in feed : d.srcs # c.srcs
         /\ c.kind # "existing" => Reconciled(c).srcs = c.srcs
<1> DEFINE same == {d \in feed : d.srcs = c.srcs}
           visible == {d \in feed : d.kind # "existing" /\ OfSameFilm(d, c)}
<1>1. same \in SUBSET Cards /\ visible \in SUBSET Cards /\ \A d \in visible : d.srcs # {}
  BY DEF CardsTyped
<1>2. ASSUME NEW d \in feed, Reconciled(c) = Wrapped(c, d)
      PROVE  /\ Reconciled(c) \in Cards /\ Reconciled(c).srcs = d.srcs /\ d.srcs # {}
             /\ SameEvent(Reconciled(c), d)
  <2>1. d \in Cards /\ d.srcs # {}
    BY DEF CardsTyped
  <2>2. /\ Wrapped(c, d) \in Cards /\ Wrapped(c, d).srcs = d.srcs
        /\ Wrapped(c, d).kind = d.kind /\ Wrapped(c, d).batch = d.batch
    BY <2>1 DEF Wrapped, Cards
  <2> QED
    BY <1>2, <2>1, <2>2 DEF SameEvent
<1>3. CASE same # {}
  <2>1. Preferred(same) \in same
    BY <1>1, <1>3, PreferredIs
  <2>2. Reconciled(c) = Wrapped(c, Preferred(same))
    BY <1>3 DEF Reconciled
  <2> QED
    BY <1>2, <2>1, <2>2
<1>4. CASE same = {} /\ c.kind = "existing" /\ visible # {}
  <2>1. Newest(visible) \in visible
    BY <1>1, <1>4, NewestIs
  <2>2. Reconciled(c) = Wrapped(c, Newest(visible))
    BY <1>4 DEF Reconciled
  <2> QED
    BY <1>2, <1>4, <2>1, <2>2
<1>5. CASE same = {} /\ ~(c.kind = "existing" /\ visible # {})
  <2>1. Reconciled(c) = c
    BY <1>5 DEF Reconciled
  <2> QED
    BY <1>5, <2>1
<1> QED
  BY <1>3, <1>4, <1>5

\* merge_with_db, or a full refresh: every card of the feed is one that was there, or one that
\* the refresh made; and none that was there shows the versions of one of these.
LEMMA RefreshFeed ==
  ASSUME FilmTyped, CardsTyped, NEW split \in BOOLEAN, NEW w \in 1 .. MaxWindows, Refresh(split, w)
  PROVE  \E cards \in SUBSET Cards :
           /\ feed' \subseteq feed \cup cards
           /\ \A c \in cards : c \in feed' /\ c.srcs # {}
           /\ \A c \in cards : (\E d \in feed : SameEvent(c, d)) \/ \A d \in feed : d.srcs # c.srcs
           /\ \A c \in cards : (\E d \in feed : c.srcs = d.srcs) \/ c.srcs \subseteq catalog
           /\ \A c, e \in cards : c.srcs = e.srcs => SameEvent(c, e)
           /\ \A d \in feed' \ cards, c \in cards : d.srcs # c.srcs
<1> DEFINE matched == Found(split, w)
           cards == {Reconciled(c) : c \in matched}
<1>1. catalog # {}
  BY DEF Refresh
<1>2. /\ matched \subseteq Cards /\ \A c \in matched : c.srcs # {} /\ c.srcs \subseteq catalog
      /\ \/ \A c, d \in matched : c = d
         \/ \A c, d \in matched : c.kind # "existing" /\ (c.srcs = d.srcs => c = d)
  BY <1>1, FoundIs
<1>3. \/ \E replaced \in SUBSET UNION {Replaceable(c) : c \in cards} : Merges(cards, replaced)
      \/ feed' = cards
  BY DEF Refresh
<1>4. /\ feed' \subseteq feed \cup cards /\ cards \subseteq feed'
      /\ \A d \in feed' \ cards, c \in cards : d.srcs # c.srcs
  <2>1. CASE feed' = cards
    BY <2>1
  <2>2. ASSUME NEW replaced, Merges(cards, replaced)
        PROVE  /\ feed' \subseteq feed \cup cards /\ cards \subseteq feed'
               /\ \A d \in feed' \ cards, c \in cards : d.srcs # c.srcs
    <3>1. feed' = {d \in feed \ replaced : \A c \in cards : d.srcs # c.srcs} \cup cards
      BY <2>2 DEF Merges
    <3> HIDE DEF cards
    <3> QED
      BY <3>1
  <2> HIDE DEF cards
  <2> QED
    BY <1>3, <2>1, <2>2
<1> HIDE DEF matched
<1>5. ASSUME NEW c \in matched
      PROVE  /\ Reconciled(c) \in Cards
             /\ Reconciled(c).srcs # {}
             /\ \/ \E d \in feed : SameEvent(Reconciled(c), d)
                \/ Reconciled(c) = c /\ \A d \in feed : d.srcs # c.srcs
             /\ c.kind # "existing" => Reconciled(c).srcs = c.srcs
  <2>1. c \in Cards /\ c.srcs # {}
    BY <1>2
  <2> QED
    BY <2>1, ReconciledIs
<1>6. \A c, e \in matched : Reconciled(c).srcs = Reconciled(e).srcs => SameEvent(Reconciled(c), Reconciled(e))
  <2> SUFFICES ASSUME NEW c \in matched, NEW e \in matched, Reconciled(c).srcs = Reconciled(e).srcs
               PROVE  Reconciled(c) = Reconciled(e)
    BY DEF SameEvent
  <2>1. \/ c = e
        \/ c.kind # "existing" /\ e.kind # "existing" /\ (c.srcs = e.srcs => c = e)
    BY <1>2
  <2>2. CASE c = e
    BY <2>2
  <2>3. CASE c.kind # "existing" /\ e.kind # "existing" /\ (c.srcs = e.srcs => c = e)
    <3>1. Reconciled(c).srcs = c.srcs /\ Reconciled(e).srcs = e.srcs
      BY <2>3, <1>5
    <3> QED
      BY <2>3, <3>1
  <2> QED
    BY <2>1, <2>2, <2>3
<1>7. \A c \in matched : (\E d \in feed : Reconciled(c).srcs = d.srcs) \/ Reconciled(c).srcs \subseteq catalog
  <2> SUFFICES ASSUME NEW c \in matched
               PROVE  (\E d \in feed : Reconciled(c).srcs = d.srcs) \/ Reconciled(c).srcs \subseteq catalog
    OBVIOUS
  <2>1. ASSUME NEW d \in feed, SameEvent(Reconciled(c), d) PROVE Reconciled(c).srcs = d.srcs
    BY <2>1 DEF SameEvent
  <2>2. c.srcs \subseteq catalog
    BY <1>2
  <2>3. (\E d \in feed : SameEvent(Reconciled(c), d)) \/ Reconciled(c) = c
    BY <1>5
  <2> QED
    BY <2>1, <2>2, <2>3
<1>8. \A c \in matched : (\E d \in feed : SameEvent(Reconciled(c), d))
                         \/ \A d \in feed : d.srcs # Reconciled(c).srcs
  <2> SUFFICES ASSUME NEW c \in matched
               PROVE  (\E d \in feed : SameEvent(Reconciled(c), d))
                      \/ \A d \in feed : d.srcs # Reconciled(c).srcs
    OBVIOUS
  <2>1. \/ \E d \in feed : SameEvent(Reconciled(c), d)
        \/ Reconciled(c) = c /\ \A d \in feed : d.srcs # c.srcs
    BY <1>5
  <2> QED
    BY <2>1
<1>9. \A c \in matched : Reconciled(c) \in Cards /\ Reconciled(c).srcs # {}
  BY <1>5
<1>14. cards \in SUBSET Cards
  BY <1>9
<1> WITNESS cards \in SUBSET Cards
<1>10. \A c \in cards : c \in feed' /\ c.srcs # {}
  BY <1>4, <1>9
<1>11. \A c \in cards : (\E d \in feed : SameEvent(c, d)) \/ \A d \in feed : d.srcs # c.srcs
  BY <1>8
<1>12. \A c \in cards : (\E d \in feed : c.srcs = d.srcs) \/ c.srcs \subseteq catalog
  BY <1>7
<1>13. \A c, e \in cards : c.srcs = e.srcs => SameEvent(c, e)
  BY <1>6
<1> HIDE DEF cards, matched
<1> QED
  BY <1>4, <1>10, <1>11, <1>12, <1>13

\* A refresh leaves one event for the same versions, and it is the one that was there.
LEMMA RefreshKeepsEvents ==
  ASSUME FilmTyped, CardsTyped, OneEvent,
         NEW split \in BOOLEAN, NEW w \in 1 .. MaxWindows, Refresh(split, w)
  PROVE  /\ CardsTyped' /\ OneEvent'
         /\ \A d \in feed, c \in feed' : c.srcs = d.srcs => SameEvent(c, d)
         /\ \A c \in feed' : (\E d \in feed : c.srcs = d.srcs) \/ c.srcs \subseteq catalog
<1>1. PICK cards \in SUBSET Cards :
           /\ feed' \subseteq feed \cup cards
           /\ \A c \in cards : c \in feed' /\ c.srcs # {}
           /\ \A c \in cards : (\E d \in feed : SameEvent(c, d)) \/ \A d \in feed : d.srcs # c.srcs
           /\ \A c \in cards : (\E d \in feed : c.srcs = d.srcs) \/ c.srcs \subseteq catalog
           /\ \A c, e \in cards : c.srcs = e.srcs => SameEvent(c, e)
           /\ \A d \in feed' \ cards, c \in cards : d.srcs # c.srcs
  BY RefreshFeed
<1>2. CardsTyped'
  BY <1>1 DEF CardsTyped
<1>3. OneEvent'
  <2> SUFFICES ASSUME NEW c \in feed', NEW e \in feed', c.srcs = e.srcs PROVE SameEvent(c, e)
    BY DEF OneEvent, SameEvent
  <2>1. SameEvent(e, c) => SameEvent(c, e)
    BY DEF SameEvent
  <2> QED
    BY <1>1, <2>1 DEF OneEvent
<1>4. ASSUME NEW d \in feed, NEW c \in feed', c.srcs = d.srcs PROVE SameEvent(c, d)
  <2>1. CASE c \in feed
    BY <1>4, <2>1 DEF OneEvent
  <2>2. CASE c \in cards
    <3>1. PICK e \in feed : SameEvent(c, e)
      BY <1>1, <1>4, <2>2
    <3>2. SameEvent(e, d)
      BY <1>4, <3>1 DEF OneEvent, SameEvent
    <3> QED
      BY <3>1, <3>2 DEF SameEvent
  <2> QED
    BY <1>1, <2>1, <2>2
<1>5. \A c \in feed' : (\E d \in feed : c.srcs = d.srcs) \/ c.srcs \subseteq catalog
  BY <1>1
<1> QED
  BY <1>2, <1>3, <1>4, <1>5

(***************************************************************************)
(* What is remembered of a film.                                           *)
(***************************************************************************)

LEMMA EntryParts ==
  \A e : EntryTyped(e) =>
    /\ e = [item |-> e.item, keys |-> e.keys, notified |-> e.notified, at |-> e.at, pubs |-> e.pubs]
    /\ e.item \in ItemIds /\ e.keys \in SUBSET Times /\ e.notified \in BOOLEAN
    /\ e.at \in 0 .. MaxClock /\ e.pubs \in SUBSET Batches
  BY LatestFeedAssumption DEF EntryTyped, FilmEntry

LEMMA EntryFrom ==
  \A named \in ItemIds, keys \in SUBSET Times, noted \in BOOLEAN, at \in 0 .. MaxClock,
     pubs \in SUBSET Batches :
    EntryTyped([item |-> named, keys |-> keys, notified |-> noted, at |-> at, pubs |-> pubs])
  BY LatestFeedAssumption DEF EntryTyped, FilmEntry

LEMMA EntryUpdated ==
  ASSUME NEW e \in FilmEntry, NEW noted \in BOOLEAN, NEW at \in Nat, NEW pubs \in SUBSET Batches
  PROVE  [e EXCEPT !.notified = noted, !.at = at, !.pubs = pubs] \in FilmEntry
  BY DEF FilmEntry
LEMMA EntryFields ==
  ASSUME NEW e \in FilmEntry, NEW noted, NEW at, NEW pubs
  PROVE  /\ [e EXCEPT !.notified = noted, !.at = at, !.pubs = pubs].item = e.item
         /\ [e EXCEPT !.notified = noted, !.at = at, !.pubs = pubs].keys = e.keys
         /\ [e EXCEPT !.notified = noted, !.at = at, !.pubs = pubs].at = at
  BY DEF FilmEntry

LEMMA RecalledIs ==
  ASSUME NEW t, Table(t), NEW name
  PROVE  /\ Recalled(t, name).keys \in SUBSET Times /\ Recalled(t, name).notified \in BOOLEAN
         /\ Recalled(t, name).at \in 0 .. MaxClock /\ Recalled(t, name).pubs \in SUBSET Batches
         /\ \A s \in Aliases(t, name) : s \in DOMAIN t /\ t[s].keys \subseteq Recalled(t, name).keys
<1> DEFINE all == {t[s] : s \in Aliases(t, name)}
<1>1. Aliases(t, name) \subseteq DOMAIN t
  BY DEF Aliases
<1>2. \A e \in all : EntryTyped(e)
  BY <1>1 DEF Table
<1>3. Recalled(t, name) =
        [keys |-> UNION {e.keys : e \in all}, notified |-> \E e \in all : e.notified,
         at |-> Latest({0} \cup {e.at : e \in all}), pubs |-> UNION {e.pubs : e \in all}]
  BY DEF Recalled
<1>4. \A s \in Aliases(t, name) : t[s] \in all
  OBVIOUS
<1> HIDE DEF all
<1>5. \A e \in all : /\ e.keys \in SUBSET Times /\ e.at \in 0 .. MaxClock /\ e.pubs \in SUBSET Batches
  BY <1>2, EntryParts
<1>6. UNION {e.keys : e \in all} \in SUBSET Times /\ UNION {e.pubs : e \in all} \in SUBSET Batches
  BY <1>5
<1>7. Latest({0} \cup {e.at : e \in all}) \in 0 .. MaxClock
  <2> DEFINE ats == {0} \cup {e.at : e \in all}
  <2>1. ats \in SUBSET (0 .. MaxClock) /\ ats # {}
    BY <1>5, LatestFeedAssumption
  <2> QED
    BY <2>1, LatestIs
<1>8. \A s \in Aliases(t, name) : t[s].keys \subseteq UNION {e.keys : e \in all}
  BY <1>4
<1> QED
  BY <1>1, <1>3, <1>6, <1>7, <1>8

\* merge_notification_updates adds notifications and entries, and takes nothing away.
LEMMA WithNotificationsIs ==
  ASSUME NEW t, Table(t), NEW p, Table(p)
  PROVE  LET w == WithNotifications(t, p)
         IN  /\ Table(w) /\ DOMAIN t \subseteq DOMAIN w
             /\ \A s \in DOMAIN t : w[s].item = t[s].item /\ w[s].keys = t[s].keys
<1> DEFINE w == WithNotifications(t, p)
           names == DOMAIN t \cup {s \in DOMAIN p : Announced(p[s])}
           both(s) == [t[s] EXCEPT !.notified = @ \/ p[s].notified,
                                   !.at = IF p[s].notified THEN p[s].at ELSE @,
                                   !.pubs = @ \cup p[s].pubs]
           entry(s) == IF s \notin DOMAIN t THEN p[s]
                       ELSE IF s \notin DOMAIN p THEN t[s] ELSE both(s)
<1>1. w = [s \in names |-> entry(s)]
  BY DEF WithNotifications
<1>2. \A s \in DOMAIN t : EntryTyped(t[s])
  BY DEF Table
<1>3. \A s \in DOMAIN p : EntryTyped(p[s])
  BY DEF Table
<1>4. names \subseteq Signatures
  BY DEF Table
<1>5. ASSUME NEW s \in DOMAIN t, s \in DOMAIN p
      PROVE  EntryTyped(both(s)) /\ both(s).item = t[s].item /\ both(s).keys = t[s].keys
  <2> DEFINE e == t[s]
             f == p[s]
             at == IF f.notified THEN f.at ELSE e.at
  <2>1. EntryTyped(e) /\ EntryTyped(f)
    BY <1>2, <1>3, <1>5
  <2>2. /\ e = [item |-> e.item, keys |-> e.keys, notified |-> e.notified, at |-> e.at, pubs |-> e.pubs]
        /\ e.item \in ItemIds /\ e.keys \in SUBSET Times /\ e.notified \in BOOLEAN
        /\ e.at \in 0 .. MaxClock /\ e.pubs \in SUBSET Batches
    BY <2>1, EntryParts
  <2>3. f.notified \in BOOLEAN /\ f.at \in 0 .. MaxClock /\ f.pubs \in SUBSET Batches
    BY <2>1, EntryParts
  <2> DEFINE noted == e.notified \/ f.notified
             pubs == e.pubs \cup f.pubs
  <2>4. both(s) = [e EXCEPT !.notified = noted, !.at = at, !.pubs = pubs]
    OBVIOUS
  <2>5. e \in FilmEntry
    BY <2>1 DEF EntryTyped
  <2> HIDE DEF e, f, both
  <2>6. noted \in BOOLEAN /\ at \in 0 .. MaxClock /\ pubs \in SUBSET Batches
    BY <2>2, <2>3
  <2> HIDE DEF noted, at, pubs
  <2>7. at \in Nat /\ at <= MaxClock
    BY <2>6, LatestFeedAssumption
  <2>8. both(s) \in FilmEntry
    <3>1. [e EXCEPT !.notified = noted, !.at = at, !.pubs = pubs] \in FilmEntry
      BY <2>5, <2>6, <2>7, EntryUpdated
    <3> QED
      BY <2>4, <3>1
  <2>9. both(s).item = e.item /\ both(s).keys = e.keys /\ both(s).at = at
    BY <2>4, <2>5, EntryFields
  <2> QED
    BY <2>7, <2>8, <2>9 DEF e, EntryTyped
<1> HIDE DEF both
<1>6. \A s \in names : EntryTyped(entry(s))
  BY <1>2, <1>3, <1>5
<1>7. \A s \in DOMAIN t : entry(s).item = t[s].item /\ entry(s).keys = t[s].keys
  BY <1>5
<1> HIDE DEF entry, w
<1>8. DOMAIN w = names /\ \A s \in names : w[s] = entry(s)
  BY <1>1
<1>9. Table(w)
  BY <1>1, <1>4, <1>6, <1>8 DEF Table
<1>10. \A s \in DOMAIN t : w[s].item = t[s].item /\ w[s].keys = t[s].keys
  BY <1>7, <1>8
<1> QED
  BY <1>8, <1>9, <1>10 DEF w

LEMMA RenamedIs ==
  ASSUME NEW t, Table(t), NEW name, name.sig \in Signatures, NEW entry, EntryTyped(entry)
  PROVE  /\ Table(Renamed(t, name, entry)) /\ name.sig \in DOMAIN Renamed(t, name, entry)
         /\ Renamed(t, name, entry)[name.sig] = entry
<1> DEFINE names == (DOMAIN t \ Aliases(t, name)) \cup {name.sig}
           r == Renamed(t, name, entry)
<1>1. r = [s \in names |-> IF s = name.sig THEN entry ELSE t[s]]
  BY DEF Renamed
<1>2. names \subseteq Signatures /\ \A s \in names : s # name.sig => s \in DOMAIN t
  BY DEF Table
<1>3. \A s \in DOMAIN t : EntryTyped(t[s])
  BY DEF Table
<1> HIDE DEF names, r
<1>4. DOMAIN r = names /\ \A s \in names : r[s] = IF s = name.sig THEN entry ELSE t[s]
  BY <1>1
<1>5. name.sig \in names
  BY DEF names
<1>6. Table(r)
  BY <1>1, <1>2, <1>3, <1>4 DEF Table
<1> QED
  BY <1>4, <1>5, <1>6 DEF r

LEMMA PrunedIs == ASSUME NEW t, Table(t), NEW old PROVE Table(Pruned(t, old))
<1>1. Pruned(t, old) = [s \in DOMAIN t \ old |-> t[s]]
  BY DEF Pruned
<1> QED
  BY <1>1 DEF Table

\* What a refresh remembers: every version it knew, and every version there is.
LEMMA SeenIs ==
  ASSUME FilmTyped, MemoryTyped, catalog # {}, NEW split \in BOOLEAN
  PROVE  /\ EntryTyped(Seen(split)) /\ Seen(split).item = film.item
         /\ KnownKeys \cup catalog \subseteq Seen(split).keys
<1> DEFINE keys == News(split) \cup KnownKeys \cup Baseline(split)
           state == Recalled(items, film)
           past == Recalled(history, film)
<1>1. /\ state.keys \in SUBSET Times /\ state.notified \in BOOLEAN
      /\ state.at \in 0 .. MaxClock /\ state.pubs \in SUBSET Batches
  BY RecalledIs DEF MemoryTyped
<1>2. /\ past.keys \in SUBSET Times /\ past.notified \in BOOLEAN
      /\ past.at \in 0 .. MaxClock /\ past.pubs \in SUBSET Batches
  BY RecalledIs DEF MemoryTyped
<1>3. Baseline(split) \subseteq catalog
  BY DEF Baseline
<1>4. keys = KnownKeys \cup catalog
  BY <1>3 DEF News
<1>5. KnownKeys \in SUBSET Times /\ catalog \in SUBSET Times
  BY <1>1, <1>2 DEF KnownKeys, FilmTyped
<1>6. LastNotified \in 0 .. MaxClock
  <2>1. {state.at, past.at} \in SUBSET (0 .. MaxClock) /\ {state.at, past.at} # {}
    BY <1>1, <1>2
  <2> QED
    BY <2>1, LatestIs DEF LastNotified
<1>7. Notified \in BOOLEAN /\ film.item \in ItemIds
  BY <1>1, <1>2 DEF Notified, FilmTyped
<1>8. state.pubs \cup past.pubs \in SUBSET Batches
  BY <1>1, <1>2
<1>9. Seen(split) = [item |-> film.item, keys |-> KnownKeys \cup catalog, notified |-> Notified,
                     at |-> LastNotified, pubs |-> state.pubs \cup past.pubs]
  BY <1>4 DEF Seen
<1>10. KnownKeys \cup catalog \in SUBSET Times
  BY <1>5
<1>11. EntryTyped(Seen(split))
  <2> HIDE DEF state, past
  <2> QED
    BY <1>6, <1>7, <1>8, <1>9, <1>10, EntryFrom
<1> QED
  BY <1>9, <1>11

(***************************************************************************)
(* The invariant is kept.                                                  *)
(***************************************************************************)

LEMMA InitFeed == FeedOfFilmInit => FilmInv
<1> SUFFICES ASSUME FeedOfFilmInit PROVE FilmInv
  OBVIOUS
<1>1. FilmTyped
  <2>1. (CHOOSE i \in ItemIds : TRUE) \in ItemIds /\ (CHOOSE s \in Signatures : TRUE) \in Signatures
    BY LatestFeedAssumption
  <2> QED
    BY <2>1, LatestFeedAssumption DEF FilmTyped, FeedOfFilmInit, Times
<1>2. CardsTyped /\ OneEvent
  BY DEF CardsTyped, OneEvent, FeedOfFilmInit
<1>3. Table(<<>>)
  <2>1. DOMAIN <<>> = {}
    OBVIOUS
  <2>2. <<>> = [s \in DOMAIN <<>> |-> <<>>[s]]
    OBVIOUS
  <2> QED
    BY <2>1, <2>2 DEF Table
<1>4. MemoryTyped
  BY <1>3 DEF MemoryTyped, FeedOfFilmInit
<1> QED
  BY <1>1, <1>2, <1>4 DEF FilmInv

\* What is remembered anew, from tables that are well formed.
LEMMA RemembersKeeps ==
  ASSUME MemoryTyped, NEW t, Table(t), NEW p, Table(p), Remembers(t, p)
  PROVE  Table(items') /\ Table(history') /\ history' = WithNotifications(p, history)
<1>1. PICK old \in SUBSET DOMAIN t : items' = WithNotifications(Pruned(t, old), items)
  BY DEF Remembers
<1>2. history' = WithNotifications(p, history)
  BY DEF Remembers
<1>3. Table(Pruned(t, old))
  BY PrunedIs
<1>4. Table(items')
  BY <1>1, <1>3, WithNotificationsIs DEF MemoryTyped
<1>5. Table(history')
  BY <1>2, WithNotificationsIs DEF MemoryTyped
<1> QED
  BY <1>2, <1>4, <1>5

\* What a refresh leaves in the history: the film under its name, with all that was known.
LEMMA RefreshMemory ==
  ASSUME FilmTyped, MemoryTyped, NEW split \in BOOLEAN, NEW w \in 1 .. MaxWindows, Refresh(split, w)
  PROVE  /\ MemoryTyped'
         /\ film.sig \in DOMAIN history' /\ history'[film.sig].item = film.item
         /\ KnownKeys \cup catalog \subseteq history'[film.sig].keys
<1> DEFINE entry == Seen(split)
           past == Renamed(history, film, entry)
<1>1. catalog # {} /\ announced' = announced
  BY DEF Refresh
<1>2. Remembers(Renamed(items, film, entry), past)
  BY DEF Refresh
<1>3. EntryTyped(entry) /\ entry.item = film.item /\ KnownKeys \cup catalog \subseteq entry.keys
  BY <1>1, SeenIs
<1> HIDE DEF entry
<1>4. film.sig \in Signatures
  BY DEF FilmTyped
<1>5. Table(Renamed(items, film, entry))
  BY <1>3, <1>4, RenamedIs DEF MemoryTyped
<1>6. Table(past) /\ film.sig \in DOMAIN past /\ past[film.sig] = entry
  BY <1>3, <1>4, RenamedIs DEF MemoryTyped
<1> HIDE DEF past
<1>7. Table(items') /\ Table(history') /\ history' = WithNotifications(past, history)
  BY <1>2, <1>5, <1>6, RemembersKeeps
<1>8. /\ DOMAIN past \subseteq DOMAIN history'
      /\ \A s \in DOMAIN past : history'[s].item = past[s].item /\ history'[s].keys = past[s].keys
  BY <1>6, <1>7, WithNotificationsIs DEF MemoryTyped
<1> QED
  BY <1>1, <1>3, <1>6, <1>7, <1>8 DEF MemoryTyped

\* A notification only adds to the history.
LEMMA NotifyMemory ==
  ASSUME FilmTyped, CardsTyped, MemoryTyped, NEW card \in feed, Notify(card)
  PROVE  /\ MemoryTyped' /\ DOMAIN history \subseteq DOMAIN history'
         /\ \A s \in DOMAIN history : /\ history'[s].item = history[s].item
                                      /\ history'[s].keys = history[s].keys
<1> DEFINE state == Recalled(items, card)
           past == Recalled(history, card)
           entry == NotifiedEntry(card)
           table == [s \in {card.sig} |-> entry]
<1>0. card \in Cards
  BY DEF CardsTyped
<1>1. /\ card.item \in ItemIds /\ card.sig \in Signatures /\ card.batch \in Batches
      /\ card.srcs \in SUBSET Times
  BY <1>0 DEF Cards, Batches
<1>2. state.keys \in SUBSET Times /\ state.pubs \in SUBSET Batches
  BY RecalledIs DEF MemoryTyped
<1>3. past.keys \in SUBSET Times /\ past.pubs \in SUBSET Batches
  BY RecalledIs DEF MemoryTyped
<1>4. entry = [item |-> card.item, keys |-> state.keys \cup past.keys, notified |-> TRUE, at |-> clock,
               pubs |-> state.pubs \cup past.pubs \cup {card.batch}]
  BY DEF NotifiedEntry
<1>5. clock \in 0 .. MaxClock
  BY TimesAreTimes DEF FilmTyped
<1>6. state.keys \cup past.keys \in SUBSET Times
      /\ state.pubs \cup past.pubs \cup {card.batch} \in SUBSET Batches
  BY <1>1, <1>2, <1>3
<1>7. EntryTyped(entry)
  <2> HIDE DEF state, past, entry
  <2> QED
    BY <1>1, <1>4, <1>5, <1>6, EntryFrom
<1> HIDE DEF entry
<1>8. DOMAIN table = {card.sig} /\ table[card.sig] = entry
  OBVIOUS
<1>9. Table(table)
  BY <1>1, <1>7, <1>8 DEF Table
<1>10. /\ items' = WithNotifications(items, table) /\ history' = WithNotifications(history, table)
       /\ announced' = announced \cup {card.srcs}
  BY DEF Notify, entry
<1> HIDE DEF table
<1>11. Table(items')
  BY <1>9, <1>10, WithNotificationsIs DEF MemoryTyped
<1>12. /\ Table(history') /\ DOMAIN history \subseteq DOMAIN history'
       /\ \A s \in DOMAIN history : history'[s].item = history[s].item /\ history'[s].keys = history[s].keys
  BY <1>9, <1>10, WithNotificationsIs DEF MemoryTyped
<1> QED
  BY <1>1, <1>10, <1>11, <1>12 DEF MemoryTyped

\* A refresh that does not meet the film leaves its history as it is.
LEMMA MissesMemory ==
  ASSUME MemoryTyped, NEW w, RefreshMisses(w)
  PROVE  /\ MemoryTyped' /\ DOMAIN history \subseteq DOMAIN history'
         /\ \A s \in DOMAIN history : /\ history'[s].item = history[s].item
                                      /\ history'[s].keys = history[s].keys
<1>1. Remembers(items, history) /\ announced' = announced
  BY DEF RefreshMisses
<1>2. Table(items') /\ Table(history') /\ history' = WithNotifications(history, history)
  BY <1>1, RemembersKeeps DEF MemoryTyped
<1>3. /\ DOMAIN history \subseteq DOMAIN history'
      /\ \A s \in DOMAIN history : history'[s].item = history[s].item /\ history'[s].keys = history[s].keys
  BY <1>2, WithNotificationsIs DEF MemoryTyped
<1> QED
  BY <1>1, <1>2, <1>3 DEF MemoryTyped

\* Emby changes its film, not what was published or remembered of it.
EmbyStep ==
  \/ \E step \in {1, Gap + 1} : AddVersion(step)
  \/ \E v \in catalog : RemoveVersion(v)
  \/ \E name \in [item : ItemIds, sig : Signatures] : Drift(name)

LEMMA FeedActions ==
  FeedOfFilmNext =>
    \/ \E split \in BOOLEAN, w \in 1 .. MaxWindows : Refresh(split, w)
    \/ \E w \in 1 .. MaxWindows : RefreshMisses(w)
    \/ \E card \in feed : Notify(card)
    \/ EmbyStep
  BY DEF FeedOfFilmNext, EmbyStep

LEMMA EmbyStepIs ==
  ASSUME FilmTyped, EmbyStep
  PROVE  FilmTyped' /\ UNCHANGED <<memory, feed, announced>>
<1>1. ASSUME NEW step \in {1, Gap + 1}, AddVersion(step)
      PROVE  FilmTyped' /\ UNCHANGED <<memory, feed, announced>>
  <2>1. clock' \in Times
    BY <1>1, LatestFeedAssumption DEF AddVersion, FilmTyped, Times
  <2> QED
    BY <1>1, <2>1 DEF AddVersion, FilmTyped
<1>2. ASSUME NEW v \in catalog, RemoveVersion(v)
      PROVE  FilmTyped' /\ UNCHANGED <<memory, feed, announced>>
  BY <1>2 DEF RemoveVersion, FilmTyped
<1>3. ASSUME NEW name \in [item : ItemIds, sig : Signatures], Drift(name)
      PROVE  FilmTyped' /\ UNCHANGED <<memory, feed, announced>>
  <2>1. drifts' \in 0 .. MaxDrifts
    BY <1>3, LatestFeedAssumption DEF Drift, FilmTyped
  <2> QED
    BY <1>3, <2>1 DEF Drift, FilmTyped
<1> QED
  BY <1>1, <1>2, <1>3 DEF EmbyStep

LEMMA FeedStep == FilmInv /\ [FeedOfFilmNext]_filmVars => FilmInv'
<1> SUFFICES ASSUME FilmInv, [FeedOfFilmNext]_filmVars PROVE FilmInv'
  OBVIOUS
<1>0. FilmTyped /\ CardsTyped /\ MemoryTyped /\ OneEvent
  BY DEF FilmInv
<1>1. ASSUME NEW split \in BOOLEAN, NEW w \in 1 .. MaxWindows, Refresh(split, w) PROVE FilmInv'
  <2>1. FilmTyped'
    BY <1>0, <1>1 DEF Refresh, embyFilm, FilmTyped
  <2>2. CardsTyped' /\ OneEvent'
    BY <1>0, <1>1, RefreshKeepsEvents
  <2>3. MemoryTyped'
    BY <1>0, <1>1, RefreshMemory
  <2> QED
    BY <2>1, <2>2, <2>3 DEF FilmInv
<1>2. ASSUME NEW w \in 1 .. MaxWindows, RefreshMisses(w) PROVE FilmInv'
  <2>1. FilmTyped' /\ CardsTyped' /\ OneEvent'
    BY <1>0, <1>2 DEF RefreshMisses, embyFilm, FilmTyped, CardsTyped, OneEvent
  <2>2. MemoryTyped'
    BY <1>0, <1>2, MissesMemory
  <2> QED
    BY <2>1, <2>2 DEF FilmInv
<1>3. ASSUME NEW card \in feed, Notify(card) PROVE FilmInv'
  <2>1. FilmTyped' /\ CardsTyped' /\ OneEvent'
    BY <1>0, <1>3 DEF Notify, embyFilm, FilmTyped, CardsTyped, OneEvent
  <2>2. MemoryTyped'
    BY <1>0, <1>3, NotifyMemory
  <2> QED
    BY <2>1, <2>2 DEF FilmInv
<1>4. CASE EmbyStep
  <2>1. FilmTyped' /\ UNCHANGED <<memory, feed, announced>>
    BY <1>0, <1>4, EmbyStepIs
  <2>2. CardsTyped' /\ MemoryTyped' /\ OneEvent'
    BY <1>0, <2>1 DEF memory, CardsTyped, MemoryTyped, OneEvent, Table, EntryTyped
  <2> QED
    BY <2>1, <2>2 DEF FilmInv
<1>5. CASE UNCHANGED filmVars
  BY <1>0, <1>5 DEF filmVars, embyFilm, memory, FilmInv, FilmTyped, CardsTyped, MemoryTyped,
     OneEvent,
    Table, EntryTyped
<1> QED
  BY <1>1, <1>2, <1>3, <1>4, <1>5, FeedActions

LEMMA AlwaysFeedInv == FeedOfFilmSpec => []FilmInv
  BY InitFeed, FeedStep, PTL DEF FeedOfFilmSpec

\* Cards of the film and entries of its memory are what they are said to be, whatever is merged,
\* pruned, renamed or announced.
THEOREM FeedTyped == FeedOfFilmSpec => []FeedOfFilmTypeOK
<1>1. FilmInv => FeedOfFilmTypeOK
  BY DEF FilmInv, FilmTyped, CardsTyped, MemoryTyped, Table, EntryTyped, FeedOfFilmTypeOK
<1> QED
  BY <1>1, AlwaysFeedInv, PTL

\* reconcile_publication_events: while the same versions are shown they keep their event, whatever
\* the film is called and whatever batch a refresh finds.
THEOREM EventsKeepMeaning == FeedOfFilmSpec => EventKeepsMeaning
<1>1. FilmInv /\ [FeedOfFilmNext]_filmVars
        => [\A d \in feed, c \in feed' : c.srcs = d.srcs => SameEvent(c, d)]_filmVars
  <2> SUFFICES ASSUME FilmInv, FeedOfFilmNext, NEW d \in feed, NEW c \in feed', c.srcs = d.srcs
               PROVE  SameEvent(c, d)
    OBVIOUS
  <2>0. FilmTyped /\ CardsTyped /\ OneEvent
    BY DEF FilmInv
  <2>1. ASSUME NEW split \in BOOLEAN, NEW w \in 1 .. MaxWindows, Refresh(split, w) PROVE SameEvent(c, d)
    BY <2>0, <2>1, RefreshKeepsEvents
  <2>2. ASSUME feed' = feed PROVE SameEvent(c, d)
    BY <2>0, <2>2 DEF OneEvent
  <2>3. ASSUME NEW w, RefreshMisses(w) PROVE feed' = feed
    BY <2>3 DEF RefreshMisses
  <2>4. ASSUME NEW card, Notify(card) PROVE feed' = feed
    BY <2>4 DEF Notify
  <2>5. EmbyStep => feed' = feed
    BY <2>0, EmbyStepIs
  <2> QED
    BY <2>1, <2>2, <2>3, <2>4, <2>5, FeedActions
<1> QED
  BY <1>1, AlwaysFeedInv, PTL DEF FeedOfFilmSpec, EventKeepsMeaning

(***************************************************************************)
(* What was announced stays known.                                         *)
(***************************************************************************)

\* One entry of the history knows every version that a card shows or that was announced, and the
\* film leads to it.
Met == feed # {} \/ announced # {}
Covers(s) == (\A d \in feed : d.srcs \subseteq history[s].keys)
             /\ \A versions \in announced : versions \subseteq history[s].keys
Followed == Met => \E s \in Aliases(history, film) : Covers(s)

\* The last refresh that met the film met it under the name it has now.
UpToName == Met => film.sig \in DOMAIN history /\ history[film.sig].item = film.item

\* Emby renames the film only after a refresh met its last name.
RenamedInTurn == [][film' # film => UpToName]_filmVars

LEMMA InitFollowed == FeedOfFilmInit => Followed /\ UpToName
  BY DEF FeedOfFilmInit, Followed, UpToName, Met

\* While the film keeps its name, entries that stay lead to what they led to.
LEMMA AliasesGrow ==
  ASSUME film' = film, DOMAIN history \subseteq DOMAIN history',
         \A s \in DOMAIN history : history'[s].item = history[s].item
  PROVE  Aliases(history, film) \subseteq Aliases(history', film')
<1> SUFFICES ASSUME NEW s \in Aliases(history, film) PROVE s \in Aliases(history', film')
  OBVIOUS
<1>1. s \in DOMAIN history /\ s \in DOMAIN history' /\ history'[s].item = history[s].item
  BY DEF Aliases
<1>2. CASE s = film.sig \/ history[s].item = film.item
  BY <1>1, <1>2 DEF Aliases
<1>3. ASSUME NEW d \in DOMAIN history, d = film.sig \/ history[d].item = film.item,
             history[d].item = history[s].item
      PROVE  s \in Aliases(history', film')
  BY <1>1, <1>3 DEF Aliases
<1> QED
  BY <1>2, <1>3 DEF Aliases

LEMMA FollowedGrows ==
  ASSUME Followed, film' = film, feed' = feed, Met' => Met,
         DOMAIN history \subseteq DOMAIN history',
         \A s \in DOMAIN history : /\ history'[s].item = history[s].item
                                   /\ history'[s].keys = history[s].keys,
         \A versions \in announced' : versions \in announced \/ \E d \in feed : versions = d.srcs
  PROVE  Followed'
<1> SUFFICES ASSUME Met' PROVE \E s \in Aliases(history', film') : Covers(s)'
  BY DEF Followed
<1>1. PICK s \in Aliases(history, film) : Covers(s)
  BY DEF Followed
<1>2. s \in Aliases(history', film') /\ s \in DOMAIN history
  BY <1>1, AliasesGrow DEF Aliases
<1>3. Covers(s)'
  BY <1>1, <1>2 DEF Covers
<1> QED
  BY <1>2, <1>3

LEMMA NameGrows ==
  ASSUME UpToName, film' = film, Met' => Met, DOMAIN history \subseteq DOMAIN history',
         \A s \in DOMAIN history : history'[s].item = history[s].item
  PROVE  UpToName'
  BY DEF UpToName

LEMMA RefreshFollows ==
  ASSUME FilmInv, Followed, NEW split \in BOOLEAN, NEW w \in 1 .. MaxWindows, Refresh(split, w)
  PROVE  Followed' /\ UpToName'
<1>0. FilmTyped /\ CardsTyped /\ MemoryTyped /\ OneEvent
  BY DEF FilmInv
<1>1. film' = film /\ announced' = announced
  BY DEF Refresh, embyFilm
<1>2. /\ film.sig \in DOMAIN history' /\ history'[film.sig].item = film.item
      /\ KnownKeys \cup catalog \subseteq history'[film.sig].keys
  BY <1>0, RefreshMemory
<1>3. \A c \in feed' : (\E d \in feed : c.srcs = d.srcs) \/ c.srcs \subseteq catalog
  BY <1>0, RefreshKeepsEvents
<1>4. Met => \E s \in Aliases(history, film) : Covers(s) /\ history[s].keys \subseteq KnownKeys
  <2>1. \A s \in Aliases(history, film) : history[s].keys \subseteq Recalled(history, film).keys
    BY <1>0, RecalledIs DEF MemoryTyped
  <2> QED
    BY <2>1 DEF Followed, KnownKeys
<1>5. /\ \A d \in feed : d.srcs \subseteq KnownKeys
      /\ \A versions \in announced : versions \subseteq KnownKeys
  BY <1>4 DEF Covers, Met
<1>6. Covers(film.sig)'
  <2>1. \A c \in feed' : c.srcs \subseteq history'[film.sig].keys
    BY <1>2, <1>3, <1>5
  <2>2. \A versions \in announced' : versions \subseteq history'[film.sig].keys
    BY <1>1, <1>2, <1>5
  <2> QED
    BY <1>1, <2>1, <2>2 DEF Covers
<1>7. film.sig \in Aliases(history', film')
  BY <1>1, <1>2 DEF Aliases
<1> QED
  BY <1>1, <1>2, <1>6, <1>7 DEF Followed, UpToName

\* A new name that keeps the item or the signature leads to the entries of the old one.
LEMMA DriftFollows ==
  ASSUME Followed, UpToName, NEW name \in [item : ItemIds, sig : Signatures], Drift(name)
  PROVE  Followed'
<1> SUFFICES ASSUME Met PROVE \E s \in Aliases(history, film') : Covers(s)
  BY DEF Drift, memory, Followed, Met, Covers
<1>1. film' = name /\ (name.item = film.item \/ name.sig = film.sig)
  BY DEF Drift, OfSameFilm
<1>2. film.sig \in DOMAIN history /\ history[film.sig].item = film.item
  BY DEF UpToName
<1>3. PICK s \in Aliases(history, film) : Covers(s)
  BY DEF Followed
<1>4. s \in DOMAIN history /\ history[s].item = film.item
  BY <1>2 DEF Aliases
<1>5. s \in Aliases(history, film')
  BY <1>1, <1>2, <1>4 DEF Aliases
<1> QED
  BY <1>3, <1>5

\* Every other step keeps the film's name and what leads to it.
LEMMA OthersFollow ==
  ASSUME FilmInv, Followed,
         \/ \E w : RefreshMisses(w)
         \/ \E card \in feed : Notify(card)
         \/ EmbyStep /\ film' = film
         \/ UNCHANGED filmVars
  PROVE  Followed' /\ (UpToName => UpToName')
<1>0. FilmTyped /\ CardsTyped /\ MemoryTyped
  BY DEF FilmInv
<1> DEFINE grows ==
      /\ film' = film /\ feed' = feed /\ (Met' => Met) /\ DOMAIN history \subseteq DOMAIN history'
      /\ \A s \in DOMAIN history : history'[s].item = history[s].item /\ history'[s].keys = history[s].keys
      /\ \A versions \in announced' : versions \in announced \/ \E d \in feed : versions = d.srcs
<1>1. ASSUME NEW w, RefreshMisses(w) PROVE grows
  <2>1. film' = film /\ feed' = feed /\ announced' = announced
    BY <1>1 DEF RefreshMisses, embyFilm
  <2> QED
    BY <1>0, <1>1, <2>1, MissesMemory DEF Met
<1>2. ASSUME NEW card \in feed, Notify(card) PROVE grows
  <2>1. film' = film /\ feed' = feed /\ announced' = announced \cup {card.srcs}
    BY <1>2 DEF Notify, embyFilm
  <2> QED
    BY <1>0, <1>2, <2>1, NotifyMemory DEF Met
<1>3. ASSUME EmbyStep, film' = film PROVE grows
  <2>1. UNCHANGED <<memory, feed, announced>>
    BY <1>0, <1>3, EmbyStepIs
  <2> QED
    BY <1>3, <2>1 DEF Met, memory
<1>4. ASSUME UNCHANGED filmVars PROVE grows
  BY <1>4 DEF filmVars, embyFilm, memory, Met
<1>5. grows
  BY <1>1, <1>2, <1>3, <1>4
<1> QED
  BY <1>5, FollowedGrows, NameGrows

LEMMA FollowedStep ==
  FilmInv /\ Followed /\ [FeedOfFilmNext]_filmVars /\ [film' # film => UpToName]_filmVars => Followed'
<1> SUFFICES ASSUME FilmInv, Followed, [FeedOfFilmNext]_filmVars, [film' # film => UpToName]_filmVars
             PROVE  Followed'
  OBVIOUS
<1>1. CASE EmbyStep /\ film' # film
  <2>1. UpToName
    BY <1>1 DEF filmVars, embyFilm
  <2>2. PICK name \in [item : ItemIds, sig : Signatures] : Drift(name)
    BY <1>1 DEF EmbyStep, AddVersion, RemoveVersion
  <2> QED
    BY <2>1, <2>2, DriftFollows
<1> QED
  BY <1>1, RefreshFollows, OthersFollow, FeedActions

\* publication_history.py: a version that was announced is never news again, through refreshes,
\* pruned states and later announcements of older cards, if Emby does not rename the film twice
\* without a refresh in between.
THEOREM AnnouncedStaysKnown == FeedOfFilmSpec /\ RenamedInTurn => []AnnouncedIsNoNews
<1>1. FilmInv /\ Followed => AnnouncedIsNoNews
  <2> SUFFICES ASSUME FilmInv, Followed, NEW versions \in announced, NEW split \in BOOLEAN
               PROVE  versions \cap News(split) = {}
    BY DEF AnnouncedIsNoNews
  <2>1. PICK s \in Aliases(history, film) : Covers(s)
    BY DEF Followed, Met
  <2>2. versions \subseteq history[s].keys
    BY <2>1 DEF Covers
  <2>3. history[s].keys \subseteq KnownKeys
    BY <2>1, RecalledIs DEF FilmInv, MemoryTyped, KnownKeys
  <2> QED
    BY <2>2, <2>3 DEF News
<1>2. FeedOfFilmSpec /\ RenamedInTurn => []Followed
  BY InitFollowed, FollowedStep, AlwaysFeedInv, PTL DEF FeedOfFilmSpec, RenamedInTurn
<1> QED
  BY <1>1, <1>2, AlwaysFeedInv, PTL

\* The same for a film that Emby renames once, which is what the run checks.
THEOREM OnceRenamedStaysKnown == MaxDrifts <= 1 => (FeedOfFilmSpec => []AnnouncedIsNoNews)
<1> SUFFICES ASSUME MaxDrifts <= 1 PROVE FeedOfFilmSpec => []AnnouncedIsNoNews
  OBVIOUS
<1> DEFINE FirstName == drifts = 0 => UpToName
<1>1. FeedOfFilmInit => FirstName
  BY InitFollowed
<1>2. FilmInv /\ Followed /\ FirstName /\ [FeedOfFilmNext]_filmVars => Followed' /\ FirstName'
  <2> SUFFICES ASSUME FilmInv, Followed, FirstName, [FeedOfFilmNext]_filmVars
               PROVE  Followed' /\ FirstName'
    OBVIOUS
  <2>1. ASSUME NEW name \in [item : ItemIds, sig : Signatures], Drift(name) PROVE Followed' /\ FirstName'
    <3>1. drifts = 0 /\ drifts' = 1
      BY <2>1, LatestFeedAssumption DEF Drift, FilmInv, FilmTyped
    <3>2. Followed'
      BY <2>1, <3>1, DriftFollows
    <3> QED
      BY <3>1, <3>2
  <2>2. EmbyStep /\ film' # film => \E name \in [item : ItemIds, sig : Signatures] : Drift(name)
    BY DEF EmbyStep, AddVersion, RemoveVersion
  <2>3. ASSUME Followed' /\ (UpToName => UpToName'), drifts' = drifts PROVE Followed' /\ FirstName'
    BY <2>3
  <2>4. ASSUME NEW split \in BOOLEAN, NEW w \in 1 .. MaxWindows, Refresh(split, w)
        PROVE  Followed' /\ FirstName'
    BY <2>4, RefreshFollows
  <2>5. ASSUME NEW w, RefreshMisses(w) PROVE drifts' = drifts
    BY <2>5 DEF RefreshMisses, embyFilm
  <2>6. ASSUME NEW card, Notify(card) PROVE drifts' = drifts
    BY <2>6 DEF Notify, embyFilm
  <2>7. EmbyStep => drifts' = drifts \/ \E name \in [item : ItemIds, sig : Signatures] : Drift(name)
    BY DEF EmbyStep, AddVersion, RemoveVersion
  <2>8. UNCHANGED filmVars => drifts' = drifts
    BY DEF filmVars, embyFilm
  <2> HIDE DEF FirstName
  <2> QED
    BY <2>1, <2>2, <2>3, <2>4, <2>5, <2>6, <2>7, <2>8, OthersFollow, FeedActions
<1>3. FilmInv /\ FirstName /\ [FeedOfFilmNext]_filmVars => [film' # film => UpToName]_filmVars
  <2> SUFFICES ASSUME FilmInv, FirstName, FeedOfFilmNext, film' # film PROVE UpToName
    OBVIOUS
  <2>1. PICK name \in [item : ItemIds, sig : Signatures] : Drift(name)
    BY FeedActions DEF EmbyStep, AddVersion, RemoveVersion, Refresh, RefreshMisses, Notify, embyFilm
  <2>2. drifts = 0
    BY <2>1, LatestFeedAssumption DEF Drift, FilmInv, FilmTyped
  <2> QED
    BY <2>2
<1>4. FeedOfFilmSpec => RenamedInTurn
  <2> HIDE DEF FirstName
  <2> QED
    BY <1>1, <1>2, <1>3, InitFollowed, AlwaysFeedInv, PTL DEF FeedOfFilmSpec, RenamedInTurn
<1> QED
  BY <1>4, AnnouncedStaysKnown, PTL


(***************************************************************************)
(* Where a refresh without news is quiet.                                  *)
(***************************************************************************)

\* A card shows every version of the film; or the film was announced, its versions belong
\* together, and a card of it tells of an event.
ShownWhole == \E d \in feed : d.srcs = catalog
Settled ==
  /\ StateNotified /\ ~HasGap(catalog)
  /\ \E d \in feed : d.kind # "existing" /\ OfSameFilm(d, film)

\* Without news there is one card, of all the versions; it meets an event of the feed.
LEMMA QuietCard ==
  ASSUME CardsTyped, FilmTyped, catalog # {}, catalog \subseteq KnownKeys, ShownWhole \/ Settled,
         NEW split \in BOOLEAN, NEW w \in 1 .. MaxWindows, NEW c \in Found(split, w)
  PROVE  \E d \in feed : SameEvent(Reconciled(c), d)
<1>1. ~First
  <2>1. First => KnownKeys = {}
    BY DEF First, Known, KnownKeys, Recalled
  <2> QED
    BY <2>1
<1>2. News(split) = {}
  BY DEF News
<1>3. c = Card(Kind(split), <<"window", w>>, catalog)
  BY <1>1, <1>2 DEF Found, Targets
<1>4. c.srcs = catalog /\ c.kind = Kind(split) /\ c.item = film.item /\ c.sig = film.sig
  BY <1>3 DEF Card
<1>5. CASE ShownWhole
  <2>1. ~\A d \in feed : d.srcs # c.srcs
    BY <1>4, <1>5 DEF ShownWhole
  <2>2. c \in Cards /\ c.srcs # {}
    BY <1>4, FoundIs
  <2> QED
    BY <2>1, <2>2, ReconciledIs
<1>6. CASE Settled
  <2>1. c.kind = "existing"
    BY <1>2, <1>4, <1>6 DEF Kind, Settled
  <2> DEFINE same == {d \in feed : d.srcs = c.srcs}
             visible == {d \in feed : d.kind # "existing" /\ OfSameFilm(d, c)}
  <2>2. visible # {}
    BY <1>4, <1>6 DEF Settled, OfSameFilm
  <2>3. same \in SUBSET Cards /\ visible \in SUBSET Cards /\ \A d \in visible : d.srcs # {}
    BY DEF CardsTyped
  <2>4. PICK d \in feed : Reconciled(c) = Wrapped(c, d)
    <3>1. CASE same # {}
      BY <2>3, <3>1, PreferredIs DEF Reconciled
    <3>2. CASE same = {}
      BY <2>1, <2>2, <2>3, <3>2, NewestIs DEF Reconciled
    <3> QED
      BY <3>1, <3>2
  <2>5. c \in Cards /\ d \in Cards
    BY FoundIs DEF CardsTyped
  <2> QED
    BY <2>4, <2>5 DEF Wrapped, SameEvent, Cards
<1> QED
  BY <1>5, <1>6

\* reconcile_publication_events keeps an event's meaning when a refresh observes no new source,
\* if a card shows all the versions, or the film was announced, its versions were added closely
\* and one of its events is still shown; under any name, batch, split and full refresh.  An
\* unannounced film that got a second version, or one whose versions are far apart, is neither.
THEOREM QuietWhereShown ==
  FeedOfFilmSpec /\ [](catalog \subseteq KnownKeys => ShownWhole \/ Settled) => QuietRefresh
<1> DEFINE Shown == catalog \subseteq KnownKeys => ShownWhole \/ Settled
<1>1. FilmInv /\ Shown /\ [FeedOfFilmNext]_filmVars
        => [catalog \subseteq KnownKeys => \A c \in feed' : \E d \in feed : SameEvent(c, d)]_filmVars
  <2> SUFFICES ASSUME FilmInv, FeedOfFilmNext, catalog \subseteq KnownKeys, ShownWhole \/ Settled,
                      NEW c \in feed'
               PROVE  \E d \in feed : SameEvent(c, d)
    OBVIOUS
  <2>0. FilmTyped /\ CardsTyped
    BY DEF FilmInv
  <2>1. ASSUME NEW split \in BOOLEAN, NEW w \in 1 .. MaxWindows, Refresh(split, w)
        PROVE  \E d \in feed : SameEvent(c, d)
    <3> DEFINE cards == {Reconciled(e) : e \in Found(split, w)}
    <3>1. catalog # {}
      BY <2>1 DEF Refresh
    <3>2. \A e \in cards : \E d \in feed : SameEvent(e, d)
      BY <2>0, <3>1, QuietCard
    <3>3. \/ \E replaced \in SUBSET UNION {Replaceable(e) : e \in cards} : Merges(cards, replaced)
          \/ feed' = cards
      BY <2>1 DEF Refresh
    <3> HIDE DEF cards
    <3>4. c \in cards \/ c \in feed
      BY <3>3 DEF Merges
    <3> QED
      BY <3>2, <3>4 DEF SameEvent
  <2>2. ASSUME feed' = feed PROVE \E d \in feed : SameEvent(c, d)
    BY <2>2 DEF SameEvent
  <2>3. ASSUME NEW w, RefreshMisses(w) PROVE feed' = feed
    BY <2>3 DEF RefreshMisses
  <2>4. ASSUME NEW card, Notify(card) PROVE feed' = feed
    BY <2>4 DEF Notify
  <2>5. EmbyStep => feed' = feed
    BY <2>0, EmbyStepIs
  <2> QED
    BY <2>1, <2>2, <2>3, <2>4, <2>5, FeedActions
<1> QED
  BY <1>1, AlwaysFeedInv, PTL DEF FeedOfFilmSpec, QuietRefresh

(***************************************************************************)
(* The components together, as the run runtime checks them.                *)
(***************************************************************************)

\* Each of them begins as it does alone, and takes its own steps or none.
LEMMA RuntimeComponentsBegin ==
  RuntimeInit =>
    /\ LifeInit /\ ScanInit /\ SnapInit /\ StreamInit /\ SocketInit /\ FeedInit
    /\ OperationsInit /\ FeedOfFilmInit
    /\ focus \in {"lifecycle", "scans", "snapshots", "streams", "sockets", "feed", "operations",
                  "latest"}
  BY DEF RuntimeInit

LEMMA RuntimeComponentsStep ==
  [RuntimeNext]_runtimeVars =>
    /\ [LifeNext]_lifeVars
    /\ [ScanNext]_scanVars
    /\ [SnapNext]_snapVars
    /\ [StreamNext]_streamVars
    /\ [SocketNext]_socketVars
    /\ [FeedNext]_feedVars
    /\ [OperationsNext]_opVars
    /\ [FeedOfFilmNext]_filmVars
    /\ UNCHANGED focus
<1>1. CASE UNCHANGED runtimeVars
  BY <1>1 DEF runtimeVars
<1>2. CASE RuntimeNext
  BY <1>2 DEF RuntimeNext, OthersStay
<1> QED
  BY <1>1, <1>2

\* What the run checks is each component as it is specified: what is proved of one of them holds
\* here too, for every value of the constants.
LEMMA RuntimeRunsTheComponents ==
  RuntimeSpec =>
    /\ LifeSpec
    /\ ScanSpec
    /\ SnapSpec
    /\ StreamSpec
    /\ SocketSpec
    /\ FeedSpec
    /\ OperationsSpec
    /\ FeedOfFilmSpec
  BY RuntimeComponentsBegin, RuntimeComponentsStep, PTL
     DEF RuntimeSpec, LifeSpec, ScanSpec, SnapSpec, StreamSpec, SocketSpec, FeedSpec,
         OperationsSpec, FeedOfFilmSpec

\* The types of the run's components.
THEOREM RuntimeTypeCorrect == RuntimeSpec => []RuntimeTypeOK
<1> DEFINE Focus == focus \in {"lifecycle", "scans", "snapshots", "streams", "sockets", "feed",
                           "operations", "latest"}
<1>1. /\ Focus /\ LifeTypeOK /\ ScanTypeOK /\ SnapTypeOK /\ StreamTypeOK /\ SocketTypeOK /\ FeedTypeOK
      /\ OperationsTypeOK /\ FeedOfFilmTypeOK
      => RuntimeTypeOK
  BY DEF RuntimeTypeOK
<1>2. RuntimeInit => Focus
  BY DEF RuntimeInit
<1>3. Focus /\ [RuntimeNext]_runtimeVars => Focus'
  BY RuntimeComponentsStep
<1> QED
  BY <1>1, <1>2, <1>3, RuntimeRunsTheComponents, LifeTypeCorrect, ScanTypeCorrect, SnapTypeCorrect,
     StreamTypeCorrect, SocketTypeCorrect, FeedTypeCorrect, OperationsTypeCorrect, FeedTyped, PTL
     DEF RuntimeSpec
=============================================================================
