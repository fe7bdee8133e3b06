--------------------------- MODULE BookSync_proofs ---------------------------
(***************************************************************************)
(* The Binance listener's book is the venue's, for any prices, quantities, *)
(* numbers of updates, drops, failures and snapshot lag.                   *)
(*                                                                         *)
(* BookIsVenues rests on what a depth event says of the venue's history    *)
(* (EventTrue) and on History: a level that no update between i and j      *)
(* touched is the same at i and at j.  That is an induction over the       *)
(* updates; made an invariant, it is carried along one update at a time.   *)
(* What the traders were sent (Told) follows from the book once it is the  *)
(* venue's, and from the bookTicker events on their way.                   *)
(*                                                                         *)
(* BookIsCurrent also needs the status events: they alternate from         *)
(* market_opened_ to the socket's state, so the last of them, when the     *)
(* socket is up, is one that fetches the book.                             *)
(***************************************************************************)
EXTENDS BookSync, SequenceTheorems, WellFoundedInduction, TLAPS

Books == [Price -> 0..MaxQty]
Status == [kind : {"status"}, opened : BOOLEAN]
Levels == UNION {[ps -> 0..MaxQty] : ps \in SUBSET Price}
Diff == [kind : {"diff"}, U : Nat, u : Nat, pu : Nat, levels : Levels]

Ticker == [kind : {"ticker"}, levels : {Top(b) : b \in Books}]
Event == Status \cup Diff \cup Ticker

BookTypeOK ==
  /\ history \in Seq(Books) /\ sent \in 0..Len(history)
  /\ ticks \in Nat /\ lag \in Nat /\ drops \in Nat /\ failures \in Nat
  /\ socket \in BOOLEAN /\ market_opened \in BOOLEAN /\ synced \in BOOLEAN
  /\ events \in Seq(Event)
  /\ last_update_id \in 0..Len(history)
  /\ book \in Books

\* Level p is the same after update j as after update i.
Untouched(i, j, p) == \A k \in (i + 1)..j : At(k)[p] = At(k - 1)[p]

History ==
  \A i, j \in 0..Len(history), p \in Price : i <= j /\ Untouched(i, j, p) => At(i)[p] = At(j)[p]

\* What a depth event says is so: it starts after pu, touches nothing before U, gives
\* each level it names as of u, and the others did not change from pu on.
EventTrue(e) ==
  /\ e.pu < e.U /\ e.U <= e.u /\ e.u <= Len(history)
  /\ \A p \in Price :
       IF p \in DOMAIN e.levels THEN e.levels[p] = At(e.u)[p]
       ELSE \A i \in e.pu..e.u : At(i)[p] = At(e.u)[p]

EventsTrue == \A i \in DOMAIN events : events[i].kind = "diff" => EventTrue(events[i])

\* Events end with an update of this product.
SentIsChange == sent = 0 \/ At(sent) # At(sent - 1)

\* The first half of BookIsVenues.
BookTrue == synced => book = At(last_update_id)

SyncInv == BookTypeOK /\ History /\ EventsTrue /\ SentIsChange /\ BookTrue

IsStatus(i) == events[i].kind = "status"

\* The status events lead, turn by turn, from market_opened_ to the socket's state.
StatusesAlternate ==
  /\ (\A i \in DOMAIN events : ~IsStatus(i)) => market_opened = socket
  /\ \A i \in DOMAIN events : IsStatus(i) =>
       /\ (\A j \in DOMAIN events : j < i => ~IsStatus(j)) => events[i].opened # market_opened
       /\ (\A j \in DOMAIN events : j > i => ~IsStatus(j)) => events[i].opened = socket
       /\ \A j \in DOMAIN events :
            /\ j > i /\ IsStatus(j)
            /\ \A k \in DOMAIN events : i < k /\ k < j => ~IsStatus(k)
            => events[j].opened # events[i].opened

\* With no connection change to come, a synced book has what was sent or will get it.
CatchesUp ==
  /\ lag = 0 /\ socket /\ synced
  /\ \A i \in DOMAIN events : ~IsStatus(i)
  => \/ last_update_id >= sent
     \/ \E i \in DOMAIN events : events[i].kind = "diff" /\ events[i].u = sent

CurrentInv == SyncInv /\ StatusesAlternate /\ CatchesUp
-----------------------------------------------------------------------------
(* Numbers.                                                                *)

\* A set of numbers has a least element.
LEMMA MinExists ==
  ASSUME NEW S \in SUBSET Nat, S # {}
  PROVE  Min(S) \in S /\ \A y \in S : Min(S) <= y
<1> DEFINE Less == OpToRel(<, Nat)
<1>0. IsWellFoundedOn(Less, Nat)
  BY NatLessThanWellFounded
<1>a. \A x, y \in Nat : x < y => <<x, y>> \in Less
  BY DEF OpToRel
<1> HIDE DEF Less
<1>1. PICK x \in S : \A y \in S : ~(<<y, x>> \in Less)
  BY <1>0, WFMin
<1>b. \A y \in S : ~(y < x)
  <2> SUFFICES ASSUME NEW y \in S, y < x
               PROVE  FALSE
    OBVIOUS
  <2>1. x \in Nat /\ y \in Nat
    OBVIOUS
  <2>2. <<y, x>> \in Less
    BY <1>a, <2>1
  <2> QED
    BY <1>1, <2>2
<1>2. \A y \in S : x <= y
  BY <1>b
<1> QED
  BY <1>2 DEF Min

\* A bounded set of numbers has a greatest element.
LEMMA MaxExists ==
  ASSUME NEW n \in Nat, NEW S \in SUBSET (0..n), S # {}
  PROVE  Max(S) \in S /\ \A y \in S : y <= Max(S)
<1> DEFINE T == {n - x : x \in S}
<1>0. \A x \in S : n - x \in Nat
  OBVIOUS
<1>1. T \in SUBSET Nat /\ T # {}
  BY <1>0
<1>2. PICK d \in T : \A e \in T : d <= e
  BY <1>1, MinExists
<1>3. PICK x \in S : d = n - x
  OBVIOUS
<1>4. \A y \in S : n - x <= n - y
  BY <1>2, <1>3
<1>5. \A y \in S : x >= y
  BY <1>4
<1> QED
  BY <1>5 DEF Max

\* The oldest book a snapshot may show.
LEMMA MaxOfTwo ==
  ASSUME NEW a \in Int
  PROVE  Max({0, a}) \in Nat /\ Max({0, a}) >= a
<1>1. \E x \in {0, a} : \A y \in {0, a} : x >= y
  <2>1. CASE a >= 0
    BY <2>1
  <2>2. CASE a < 0
    BY <2>2
  <2> QED
    BY <2>1, <2>2
<1>2. Max({0, a}) \in {0, a} /\ \A y \in {0, a} : Max({0, a}) >= y
  BY <1>1 DEF Max
<1> QED
  BY <1>2
-----------------------------------------------------------------------------
(* The venue's history.                                                    *)

\* The book after an update.
LEMMA AtTypes ==
  ASSUME BookTypeOK, NEW i \in 0..Len(history)
  PROVE  At(i) \in Books /\ \A p \in Price : At(i)[p] \in 0..MaxQty
<1>1. At(i) \in Books
  <2>1. CASE i = 0
    BY <2>1, BookAssumption DEF At, EmptyBook, Books
  <2>2. CASE i # 0
    BY <2>2 DEF At, BookTypeOK
  <2> QED
    BY <2>1, <2>2
<1> QED
  BY <1>1 DEF Books

\* Two books that agree on every level are the same.
LEMMA SameBook ==
  ASSUME NEW a \in Books, NEW b \in Books, \A p \in Price : a[p] = b[p]
  PROVE  a = b
  BY DEF Books

\* A book the venue had is the book of its last change.
LEMMA SnapshotTrue ==
  ASSUME BookTypeOK, History, NEW i \in 0..Len(history)
  PROVE  /\ LastChange(i) \in 0..i /\ At(LastChange(i)) = At(i)
         /\ \A j \in 1..i : At(j) # At(j - 1) => j <= LastChange(i)
<1> DEFINE S == {0} \cup {j \in 1..i : At(j) # At(j - 1)}
<1>0. i \in Nat /\ Len(history) \in Nat /\ i <= Len(history)
  BY DEF BookTypeOK
<1>1. S \in SUBSET (0..i) /\ S # {}
  BY <1>0
<1>2. PICK m : m = LastChange(i)
  OBVIOUS
<1>3. m = Max(S)
  BY <1>2 DEF LastChange
<1>4. m \in S /\ \A y \in S : y <= m
  BY <1>0, <1>1, <1>3, MaxExists
<1>5. m \in 0..i /\ m \in 0..Len(history)
  BY <1>0, <1>1, <1>4
<1>6. \A j \in 1..i : At(j) # At(j - 1) => j <= m
  BY <1>4
<1>7. ASSUME NEW p \in Price
      PROVE  At(m)[p] = At(i)[p]
  <2>1. ASSUME NEW k \in (m + 1)..i
        PROVE  At(k)[p] = At(k - 1)[p]
    <3>1. k \in 1..i /\ ~(k <= m)
      BY <1>0, <1>5
    <3> QED
      BY <1>6, <3>1
  <2>2. Untouched(m, i, p)
    BY <2>1 DEF Untouched
  <2> QED
    BY <1>5, <2>2 DEF History
<1>8. At(m) = At(i)
  BY <1>5, <1>7, AtTypes, SameBook
<1> QED
  BY <1>2, <1>5, <1>6, <1>8

\* The updates an event may cover.
LEMMA ChangesBounded ==
  ASSUME BookTypeOK, Changes(sent) # {}
  PROVE  /\ Max(Changes(sent)) \in Changes(sent) /\ Min(Changes(sent)) \in Changes(sent)
         /\ \A i \in Changes(sent) : Min(Changes(sent)) <= i /\ i <= Max(Changes(sent))
         /\ \A i \in Changes(sent) : i \in Nat /\ i > sent /\ i <= Len(history) /\ At(i) # At(i - 1)
<1>1. sent \in Nat /\ Len(history) \in Nat
  BY DEF BookTypeOK
<1>2. \A i \in Changes(sent) : i \in Nat /\ i > sent /\ i <= Len(history) /\ At(i) # At(i - 1)
  BY <1>1 DEF Changes
<1>3. Changes(sent) \in SUBSET (0..Len(history)) /\ Changes(sent) \in SUBSET Nat
  BY <1>1, <1>2
<1> QED
  BY <1>1, <1>2, <1>3, MaxExists, MinExists

\* The event the venue makes of them is true.
LEMMA DepthEventTrue ==
  ASSUME BookTypeOK, History, Changes(sent) # {}
  PROVE  /\ DepthEvent \in Diff /\ EventTrue(DepthEvent)
         /\ DepthEvent.kind = "diff" /\ DepthEvent.u = Max(Changes(sent))
<1>1. PICK a, u : a = Min(Changes(sent)) /\ u = Max(Changes(sent))
  OBVIOUS
<1>2. /\ a \in Nat /\ u \in Nat /\ sent \in Nat /\ Len(history) \in Nat
      /\ sent < a /\ a <= u /\ u <= Len(history)
      /\ \A i \in Changes(sent) : i <= u
  BY <1>1, ChangesBounded DEF BookTypeOK
<1>3. PICK D : D = {q \in Price : \E i \in Changes(sent) : At(i)[q] # At(i - 1)[q]}
  OBVIOUS
<1>4. PICK L : L = [p \in D |-> At(u)[p]]
  OBVIOUS
<1>5. \A p \in Price : At(u)[p] \in 0..MaxQty
  BY <1>2, AtTypes
<1>6. L \in [D -> 0..MaxQty] /\ D \in SUBSET Price
  BY <1>3, <1>4, <1>5
<1>7. L \in Levels
  BY <1>6 DEF Levels
<1>8. DepthEvent = [kind |-> "diff", U |-> a, u |-> u, pu |-> sent, levels |-> L]
  BY <1>1, <1>3, <1>4 DEF DepthEvent
<1>9. DepthEvent \in Diff /\ DepthEvent.kind = "diff" /\ DepthEvent.u = u
  BY <1>2, <1>7, <1>8 DEF Diff
<1>10. DepthEvent.U = a /\ DepthEvent.pu = sent /\ DepthEvent.levels = L /\ DOMAIN L = D
  BY <1>4, <1>8
<1>11. ASSUME NEW p \in Price, p \notin D, NEW i \in sent..u
       PROVE  At(i)[p] = At(u)[p]
  <2>1. ASSUME NEW k \in (i + 1)..u
        PROVE  At(k)[p] = At(k - 1)[p]
    <3>1. k \in (sent + 1)..Len(history)
      BY <1>2
    <3>2. CASE At(k) = At(k - 1)
      BY <3>2
    <3>3. CASE At(k) # At(k - 1)
      <4>1. k \in Changes(sent)
        BY <3>1, <3>3 DEF Changes
      <4> QED
        BY <1>3, <1>11, <4>1
    <3> QED
      BY <3>2, <3>3
  <2>2. Untouched(i, u, p)
    BY <2>1 DEF Untouched
  <2>3. i \in 0..Len(history) /\ u \in 0..Len(history) /\ i <= u
    BY <1>2
  <2> QED
    BY <2>2, <2>3 DEF History
<1>12. \A p \in Price : IF p \in D THEN L[p] = At(u)[p] ELSE \A i \in sent..u : At(i)[p] = At(u)[p]
  BY <1>4, <1>11
<1>13. EventTrue(DepthEvent)
  BY <1>2, <1>9, <1>10, <1>12 DEF EventTrue
<1> QED
  BY <1>1, <1>9, <1>13

\* An update leaves what was before it as it was.
LEMMA UpdateAppends ==
  ASSUME BookTypeOK, VenueUpdates
  PROVE  /\ history' \in Seq(Books) /\ Len(history') = Len(history) + 1 /\ Len(history) \in Nat
         /\ \A i \in 0..Len(history) : At(i)' = At(i)
<1>1. PICK p \in Price, q \in 0..MaxQty : history' = Append(history, [At(Len(history)) EXCEPT ![p] = q])
  BY DEF VenueUpdates
<1>2. PICK h : h = [At(Len(history)) EXCEPT ![p] = q]
  OBVIOUS
<1>3. Len(history) \in Nat /\ history \in Seq(Books)
  BY DEF BookTypeOK
<1>4. At(Len(history)) \in Books
  BY <1>3, AtTypes
<1>5. h \in Books
  BY <1>2, <1>4 DEF Books
<1>6. history' = Append(history, h)
  BY <1>1, <1>2
<1>7. history' \in Seq(Books) /\ Len(history') = Len(history) + 1
      /\ \A i \in 1..Len(history) : history'[i] = history[i]
  BY <1>3, <1>5, <1>6
<1>8. \A i \in 0..Len(history) : At(i)' = At(i)
  <2> SUFFICES ASSUME NEW i \in 0..Len(history)
               PROVE  At(i)' = At(i)
    OBVIOUS
  <2>1. CASE i = 0
    BY <2>1 DEF At
  <2>2. CASE i # 0
    BY <1>3, <1>7, <2>2 DEF At
  <2> QED
    BY <2>1, <2>2
<1> QED
  BY <1>3, <1>7, <1>8

\* So the history facts, and what the events say, stay true.
LEMMA UpdateKeepsTruth ==
  ASSUME BookTypeOK, History, EventsTrue, SentIsChange, VenueUpdates
  PROVE  History' /\ EventsTrue' /\ SentIsChange'
<1>0. PICK n : n = Len(history)
  OBVIOUS
<1>1. /\ n \in Nat /\ Len(history') = n + 1
      /\ \A i \in 0..n : At(i)' = At(i)
  BY <1>0, UpdateAppends
<1>2. UNCHANGED <<sent, events>>
  BY DEF VenueUpdates
<1>3. History'
  <2> SUFFICES ASSUME NEW i \in 0..(n + 1), NEW j \in 0..(n + 1), NEW p \in Price,
                      i <= j, Untouched(i, j, p)'
               PROVE  At(i)'[p] = At(j)'[p]
    BY <1>1 DEF History
  <2>1. \A k \in (i + 1)..j : At(k)'[p] = At(k - 1)'[p]
    BY DEF Untouched
  <2>2. CASE j <= n
    <3>1. i \in 0..n /\ j \in 0..n
      BY <1>1, <2>2
    <3>2. \A k \in (i + 1)..j : At(k)' = At(k) /\ At(k - 1)' = At(k - 1)
      BY <1>1, <3>1
    <3>3. Untouched(i, j, p)
      BY <2>1, <3>2 DEF Untouched
    <3>4. At(i)[p] = At(j)[p]
      BY <1>0, <3>1, <3>3 DEF History
    <3> QED
      BY <1>1, <3>1, <3>4
  <2>3. CASE j = n + 1 /\ i = n + 1
    BY <2>3
  <2>4. CASE j = n + 1 /\ i <= n
    <3>1. i \in 0..n /\ n \in 0..n
      BY <1>1, <2>4
    <3>2. \A k \in (i + 1)..n : At(k)' = At(k) /\ At(k - 1)' = At(k - 1) /\ k \in (i + 1)..j
      BY <1>1, <2>4, <3>1
    <3>3. Untouched(i, n, p)
      BY <2>1, <3>2 DEF Untouched
    <3>4. At(i)[p] = At(n)[p]
      BY <1>0, <3>1, <3>3 DEF History
    <3>5. At(n + 1)'[p] = At(n)'[p]
      <4>1. n + 1 \in (i + 1)..j /\ (n + 1) - 1 = n
        BY <1>1, <2>4
      <4> QED
        BY <2>1, <4>1
    <3>6. At(i)'[p] = At(n + 1)'[p]
      BY <1>1, <3>1, <3>4, <3>5
    <3> QED
      BY <2>4, <3>6
  <2> QED
    BY <1>1, <2>2, <2>3, <2>4
<1>4. EventsTrue'
  <2> SUFFICES ASSUME NEW i \in DOMAIN events, events[i].kind = "diff"
               PROVE  EventTrue(events[i])'
    BY <1>2 DEF EventsTrue
  <2>1. PICK e : e = events[i]
    OBVIOUS
  <2>2. e \in Diff
    <3>1. e \in Event
      BY <2>1 DEF BookTypeOK
    <3> QED
      BY <2>1, <3>1 DEF Event, Status, Ticker
  <2>3. e.U \in Nat /\ e.u \in Nat /\ e.pu \in Nat
    BY <2>2 DEF Diff
  <2>4. EventTrue(e)
    BY <2>1 DEF EventsTrue
  <2>5. e.pu < e.U /\ e.U <= e.u /\ e.u <= n
    BY <1>0, <2>4 DEF EventTrue
  <2>6. At(e.u)' = At(e.u) /\ \A k \in e.pu..e.u : At(k)' = At(k)
    BY <1>1, <2>3, <2>5
  <2>7. e.u <= Len(history')
    BY <1>1, <2>3, <2>5
  <2>8. EventTrue(e)'
    BY <2>4, <2>5, <2>6, <2>7 DEF EventTrue
  <2> QED
    BY <1>2, <2>1, <2>8 DEF EventTrue
<1>5. SentIsChange'
  <2>1. sent \in 0..n
    BY <1>0 DEF BookTypeOK
  <2>2. CASE sent = 0
    BY <1>2, <2>2 DEF SentIsChange
  <2>3. CASE sent # 0
    <3>1. At(sent)' = At(sent) /\ At(sent - 1)' = At(sent - 1)
      <4>1. PICK k : k = sent
        OBVIOUS
      <4>2. k \in 0..n /\ k - 1 \in 0..n
        BY <1>1, <2>1, <2>3, <4>1
      <4>3. At(k)' = At(k) /\ At(k - 1)' = At(k - 1)
        BY <1>1, <4>2
      <4> QED
        BY <1>2, <4>1, <4>3 DEF At
    <3> QED
      BY <1>2, <2>3, <3>1 DEF SentIsChange
  <2> QED
    BY <2>2, <2>3
<1> QED
  BY <1>3, <1>4, <1>5
-----------------------------------------------------------------------------
(* The listener.                                                           *)

\* apply_diff in sequence turns the book of last_update_id into that of the event.
LEMMA AppliedIsVenues ==
  ASSUME BookTypeOK, BookTrue, synced, NEW e \in Diff, EventTrue(e),
         e.u >= last_update_id, InSequence(e)
  PROVE  ApplyLevels(e.levels) = At(e.u) /\ ApplyLevels(e.levels) \in Books
<1>1. e.U \in Nat /\ e.u \in Nat /\ e.pu \in Nat /\ last_update_id \in Nat /\ Len(history) \in Nat
  BY DEF Diff, BookTypeOK
<1>2. e.pu < e.U /\ e.U <= e.u /\ e.u <= Len(history)
  BY DEF EventTrue
<1>3. last_update_id \in e.pu..e.u
  <2>1. CASE e.U <= last_update_id + 1 /\ last_update_id + 1 <= e.u
    BY <1>1, <1>2, <2>1
  <2>2. CASE e.pu = last_update_id
    BY <1>1, <1>2, <2>2
  <2> QED
    BY <2>1, <2>2 DEF InSequence
<1>4. book = At(last_update_id)
  BY DEF BookTrue
<1>5. e.u \in 0..Len(history)
  BY <1>1, <1>2
<1>6. At(e.u) \in Books /\ \A p \in Price : At(e.u)[p] \in 0..MaxQty
  BY <1>5, AtTypes
<1>7. PICK new : new = ApplyLevels(e.levels)
  OBVIOUS
<1>8. \A p \in Price : new[p] = At(e.u)[p]
  BY <1>3, <1>4, <1>7 DEF ApplyLevels, EventTrue
<1>9. new \in Books
  <2>1. new = [p \in Price |-> IF p \in DOMAIN e.levels THEN e.levels[p] ELSE book[p]]
    BY <1>7 DEF ApplyLevels
  <2>2. \A p \in Price : new[p] \in 0..MaxQty
    BY <1>6, <1>8
  <2> QED
    BY <2>1, <2>2 DEF Books
<1> QED
  BY <1>6, <1>7, <1>8, <1>9, SameBook

\* resync_order_book: a snapshot makes the book the venue's, one that is not behind
\* makes it as new as anything sent, and a failure leaves it out of sync.
LEMMA ResyncIsVenues ==
  ASSUME BookTypeOK, History, SentIsChange, ResyncOrderBook
  PROVE  /\ synced' \in BOOLEAN /\ failures' \in Nat /\ last_update_id' \in 0..Len(history)
         /\ book' \in Books
         /\ synced' => book' = At(last_update_id')
         /\ synced' /\ lag = 0 => last_update_id' >= sent
<1>1. Len(history) \in Nat /\ lag \in Nat
  BY DEF BookTypeOK
<1>2. CASE /\ failures < MaxFailures /\ failures' = failures + 1
           /\ synced' = FALSE
           /\ UNCHANGED <<last_update_id, book, published>>
  <2>1. /\ failures' \in Nat /\ last_update_id' \in 0..Len(history)
        /\ book' \in Books
    BY <1>2 DEF BookTypeOK
  <2>2. synced' \in BOOLEAN /\ ~synced'
    BY <1>2
  <2> QED
    BY <2>1, <2>2
<1>3. ASSUME NEW i \in Max({0, Len(history) - lag})..Len(history),
             ApplySnapshot(LastChange(i), At(i)), UNCHANGED failures
      PROVE  /\ synced' \in BOOLEAN /\ failures' \in Nat /\ last_update_id' \in 0..Len(history)
             /\ book' \in Books
             /\ synced' => book' = At(last_update_id')
             /\ synced' /\ lag = 0 => last_update_id' >= sent
  <2>1. Max({0, Len(history) - lag}) \in Nat /\ Max({0, Len(history) - lag}) >= Len(history) - lag
    BY <1>1, MaxOfTwo
  <2>2. i \in 0..Len(history) /\ i >= Len(history) - lag
    BY <1>1, <2>1
  <2>3. PICK m : m = LastChange(i)
    OBVIOUS
  <2>4. m \in 0..i /\ At(m) = At(i) /\ \A j \in 1..i : At(j) # At(j - 1) => j <= m
    BY <2>2, <2>3, SnapshotTrue
  <2>5. book' = At(i) /\ last_update_id' = m /\ published' = book'
    BY <1>3, <2>3 DEF ApplySnapshot
  <2>6. synced' = TRUE
    BY <1>3 DEF ApplySnapshot
  <2>7. At(i) \in Books
    BY <2>2, AtTypes
  <2>8. m \in 0..Len(history)
    BY <1>1, <2>2, <2>4
  <2>9. lag = 0 => m >= sent
    <3> SUFFICES ASSUME lag = 0
                 PROVE  m >= sent
      OBVIOUS
    <3>1. i = Len(history)
      BY <1>1, <2>2
    <3>2. sent \in 0..i
      BY <3>1 DEF BookTypeOK
    <3>3. CASE sent = 0
      BY <1>1, <2>8, <3>3
    <3>4. CASE sent # 0
      <4>1. sent \in 1..i /\ At(sent) # At(sent - 1)
        BY <1>1, <3>1, <3>2, <3>4 DEF SentIsChange
      <4> QED
        BY <1>1, <2>4, <2>8, <4>1
    <3> QED
      BY <3>3, <3>4
  <2>10. failures' \in Nat
    BY <1>3 DEF BookTypeOK
  <2>11. book' = At(last_update_id') /\ book' \in Books
    BY <2>4, <2>5, <2>7
  <2>12. last_update_id' \in 0..Len(history) /\ (lag = 0 => last_update_id' >= sent)
    BY <2>5, <2>8, <2>9
  <2>13. synced' \in BOOLEAN
    BY <2>6
  <2> QED
    BY <2>5, <2>10, <2>11, <2>12, <2>13
<1> QED
  BY <1>2, <1>3 DEF ResyncOrderBook
-----------------------------------------------------------------------------
(* The invariant.                                                          *)

\* While the venue's history stands, so does all that is said of it.
LEMMA HistoryStands ==
  ASSUME UNCHANGED history
  PROVE  /\ \A i : At(i)' = At(i)
         /\ \A e : EventTrue(e) => EventTrue(e)'
         /\ History => History'
<1>1. \A i : At(i)' = At(i)
  BY DEF At
<1>2. \A e : EventTrue(e) => EventTrue(e)'
  BY <1>1 DEF EventTrue
<1>3. History => History'
  BY <1>1 DEF History, Untouched
<1> QED
  BY <1>1, <1>2, <1>3

\* An event comes in.
LEMMA EventQueued ==
  ASSUME BookTypeOK, EventsTrue, UNCHANGED history, NEW e \in Event,
         e.kind = "diff" => EventTrue(e), events' = Append(events, e)
  PROVE  events' \in Seq(Event) /\ EventsTrue'
<1>1. events \in Seq(Event) /\ Len(events) \in Nat
  BY DEF BookTypeOK
<1>2. /\ events' \in Seq(Event) /\ DOMAIN events' = 1..(Len(events) + 1)
      /\ events'[Len(events) + 1] = e
      /\ \A i \in 1..Len(events) : events'[i] = events[i]
  BY <1>1
<1>3. ASSUME NEW i \in DOMAIN events', events'[i].kind = "diff"
      PROVE  EventTrue(events[i])'
  <2>1. PICK d : d = events'[i]
    OBVIOUS
  <2>2. EventTrue(d)
    <3>1. CASE i = Len(events) + 1
      BY <1>2, <1>3, <2>1, <3>1
    <3>2. CASE i \in 1..Len(events)
      <4>1. i \in DOMAIN events /\ d = events[i]
        BY <1>1, <1>2, <2>1, <3>2
      <4> QED
        BY <1>3, <2>1, <4>1 DEF EventsTrue
    <3> QED
      BY <1>1, <1>2, <3>1, <3>2
  <2>3. EventTrue(d)'
    BY <2>2, HistoryStands
  <2> QED
    BY <2>1, <2>3 DEF EventTrue
<1> QED
  BY <1>2, <1>3 DEF EventsTrue

\* An event has been handled.
LEMMA EventTaken ==
  ASSUME BookTypeOK, EventsTrue, UNCHANGED history, events # <<>>, events' = Tail(events)
  PROVE  /\ events' \in Seq(Event) /\ EventsTrue'
         /\ Head(events) \in Event /\ Head(events) = events[1] /\ 1 \in DOMAIN events
         /\ Head(events).kind = "diff" => Head(events) \in Diff /\ EventTrue(Head(events))
<1>1. events \in Seq(Event) /\ Len(events) \in Nat /\ Len(events) >= 1
  BY DEF BookTypeOK
<1>2. /\ events' \in Seq(Event) /\ DOMAIN events' = 1..(Len(events) - 1)
      /\ \A i \in 1..(Len(events) - 1) : events'[i] = events[i + 1]
  BY <1>1
<1>3. ASSUME NEW i \in DOMAIN events', events'[i].kind = "diff"
      PROVE  EventTrue(events[i])'
  <2>1. PICK d : d = events'[i]
    OBVIOUS
  <2>2. i + 1 \in DOMAIN events /\ d = events[i + 1]
    BY <1>1, <1>2, <2>1
  <2>3. EventTrue(d)
    BY <1>3, <2>1, <2>2 DEF EventsTrue
  <2>4. EventTrue(d)'
    BY <2>3, HistoryStands
  <2> QED
    BY <2>1, <2>4 DEF EventTrue
<1>4. Head(events) = events[1] /\ 1 \in DOMAIN events /\ events[1] \in Event
  BY <1>1
<1>5. events[1].kind = "diff" => events[1] \in Diff /\ EventTrue(events[1])
  BY <1>4 DEF EventsTrue, Event, Status, Ticker
<1> QED
  BY <1>2, <1>3, <1>4, <1>5 DEF EventsTrue

\* The listener starts without a book.
LEMMA SyncInit == Init => SyncInv
<1> SUFFICES ASSUME Init
             PROVE  SyncInv
  OBVIOUS
<1>1. EmptyBook \in Books
  BY BookAssumption DEF EmptyBook, Books
<1>2. <<>> \in Seq(Books) /\ <<>> \in Seq(Event) /\ Len(<<>>) = 0
  OBVIOUS
<1>3. lag \in Nat
  BY BookAssumption DEF Init
<1>4. socket \in BOOLEAN /\ market_opened \in BOOLEAN /\ synced \in BOOLEAN
  BY DEF Init
<1>5. BookTypeOK
  BY <1>1, <1>2, <1>3, <1>4 DEF Init, BookTypeOK
<1>6. History
  BY <1>2 DEF Init, History
<1>7. EventsTrue /\ SentIsChange /\ BookTrue
  BY DEF Init, EventsTrue, SentIsChange, BookTrue
<1> QED
  BY <1>5, <1>6, <1>7 DEF SyncInv

\* An update at the venue.
LEMMA SyncUpdates ==
  ASSUME SyncInv, VenueUpdates
  PROVE  SyncInv'
<1>0. BookTypeOK /\ History /\ EventsTrue /\ SentIsChange /\ BookTrue
  BY DEF SyncInv
<1>1. /\ history' \in Seq(Books) /\ Len(history') = Len(history) + 1 /\ Len(history) \in Nat
      /\ \A i \in 0..Len(history) : At(i)' = At(i)
  BY <1>0, UpdateAppends
<1>2. UNCHANGED <<sent, ticks, lag, socket, drops, events, market_opened,
                  synced, last_update_id, book, published, failures>>
  BY DEF VenueUpdates, bookVars
<1>3. BookTypeOK'
  <2>1. sent' \in 0..Len(history') /\ last_update_id' \in 0..Len(history')
    BY <1>0, <1>1, <1>2 DEF BookTypeOK
  <2> QED
    BY <1>0, <1>1, <1>2, <2>1 DEF BookTypeOK
<1>4. BookTrue'
  <2>1. PICK n : n = last_update_id
    OBVIOUS
  <2>2. At(n)' = At(n)
    BY <1>0, <1>1, <2>1 DEF BookTypeOK
  <2>3. n = last_update_id'
    BY <1>2, <2>1
  <2>4. At(last_update_id)' = At(last_update_id)
    BY <2>1, <2>2, <2>3 DEF At
  <2> QED
    BY <1>0, <1>2, <2>4 DEF BookTrue
<1>5. History' /\ EventsTrue' /\ SentIsChange'
  BY <1>0, UpdateKeepsTruth
<1> QED
  BY <1>3, <1>4, <1>5 DEF SyncInv

\* A depth event leaves the venue.
LEMMA SyncSends ==
  ASSUME SyncInv, VenueSends
  PROVE  SyncInv'
<1>0. BookTypeOK /\ History /\ EventsTrue /\ SentIsChange /\ BookTrue
  BY DEF SyncInv
<1>1. UNCHANGED <<history, ticks, lag, socket, drops, market_opened,
                  synced, last_update_id, book, published, failures>>
  BY DEF VenueSends, bookVars
<1>2. Changes(sent) # {} /\ sent' = Max(Changes(sent))
  BY DEF VenueSends
<1>3. History' /\ \A i : At(i)' = At(i)
  BY <1>0, <1>1, HistoryStands
<1>4. PICK u : u = Max(Changes(sent))
  OBVIOUS
<1>5. u \in Nat /\ u <= Len(history) /\ At(u) # At(u - 1)
  BY <1>0, <1>2, <1>4, ChangesBounded
<1>6. sent' = u
  BY <1>2, <1>4
<1>7. events' \in Seq(Event) /\ EventsTrue'
  <2>1. CASE socket
    <3>1. events' = Append(events, DepthEvent)
      BY <2>1 DEF VenueSends
    <3>2. DepthEvent \in Diff /\ EventTrue(DepthEvent)
      BY <1>0, <1>2, DepthEventTrue
    <3> QED
      BY <1>0, <1>1, <3>1, <3>2, EventQueued DEF Event
  <2>2. CASE ~socket
    <3>1. events' = events
      BY <2>2 DEF VenueSends
    <3>2. EventsTrue'
      <4> SUFFICES ASSUME NEW i \in DOMAIN events, events[i].kind = "diff"
                   PROVE  EventTrue(events[i])'
        BY <3>1 DEF EventsTrue
      <4>1. PICK d : d = events[i]
        OBVIOUS
      <4>2. EventTrue(d)'
        BY <1>0, <1>1, <4>1, HistoryStands DEF EventsTrue
      <4> QED
        BY <3>1, <4>1, <4>2 DEF EventTrue
    <3> QED
      BY <1>0, <3>1, <3>2 DEF BookTypeOK
  <2> QED
    BY <2>1, <2>2
<1>8. SentIsChange'
  <2>1. At(u)' # At(u - 1)'
    BY <1>3, <1>5
  <2> QED
    BY <1>6, <2>1 DEF SentIsChange, At
<1>9. BookTypeOK'
  <2>1. sent' \in 0..Len(history')
    BY <1>0, <1>1, <1>5, <1>6 DEF BookTypeOK
  <2> QED
    BY <1>0, <1>1, <1>7, <2>1 DEF BookTypeOK
<1>10. BookTrue'
  BY <1>0, <1>1 DEF BookTrue, At
<1> QED
  BY <1>3, <1>7, <1>8, <1>9, <1>10 DEF SyncInv

\* A bookTicker event leaves the venue.
LEMMA SyncTicks ==
  ASSUME SyncInv, VenueTicks
  PROVE  SyncInv'
<1>0. BookTypeOK /\ History /\ EventsTrue /\ SentIsChange /\ BookTrue
  BY DEF SyncInv
<1>1. UNCHANGED <<history, sent, lag, socket, drops, market_opened,
                  synced, last_update_id, book, published, failures>>
  BY DEF VenueTicks, bookVars
<1>2. ticks' \in Nat
  BY <1>0 DEF VenueTicks, BookTypeOK
<1>3. PICK e : e = [kind |-> "ticker", levels |-> Top(At(Len(history)))]
  OBVIOUS
<1>4. events' = Append(events, e) /\ e.kind = "ticker"
  BY <1>3 DEF VenueTicks
<1>5. At(Len(history)) \in Books
  BY <1>0, AtTypes DEF BookTypeOK
<1>6. e \in Ticker
  BY <1>3, <1>5 DEF Ticker
<1>7. events' \in Seq(Event) /\ EventsTrue'
  BY <1>0, <1>1, <1>4, <1>6, EventQueued DEF Event
<1>8. BookTypeOK'
  BY <1>0, <1>1, <1>2, <1>7 DEF BookTypeOK
<1>9. BookTrue' /\ SentIsChange'
  BY <1>0, <1>1 DEF BookTrue, SentIsChange, At
<1>10. History'
  BY <1>0, <1>1, HistoryStands
<1> QED
  BY <1>7, <1>8, <1>9, <1>10 DEF SyncInv

\* The socket opens or drops, and says so.
LEMMA SyncSocket ==
  ASSUME SyncInv, SocketOpens \/ SocketDrops
  PROVE  SyncInv'
<1>0. BookTypeOK /\ History /\ EventsTrue /\ SentIsChange /\ BookTrue
  BY DEF SyncInv
<1>1. UNCHANGED <<history, sent, ticks, lag, market_opened,
                  synced, last_update_id, book, published, failures>>
  BY DEF SocketOpens, SocketDrops, venueVars, bookVars
<1>2. socket' \in BOOLEAN
  BY DEF SocketOpens, SocketDrops
<1>3. drops' \in Nat
  BY <1>0 DEF SocketOpens, SocketDrops, BookTypeOK
<1>4. PICK b \in BOOLEAN : events' = Append(events, [kind |-> "status", opened |-> b])
  BY DEF SocketOpens, SocketDrops
<1>5. PICK e : e = [kind |-> "status", opened |-> b]
  OBVIOUS
<1>6. e \in Status /\ e.kind = "status"
  BY <1>5 DEF Status
<1>7. events' \in Seq(Event) /\ EventsTrue'
  BY <1>0, <1>1, <1>4, <1>5, <1>6, EventQueued DEF Event
<1>8. BookTypeOK'
  BY <1>0, <1>1, <1>2, <1>3, <1>7 DEF BookTypeOK
<1>9. BookTrue' /\ SentIsChange'
  BY <1>0, <1>1 DEF BookTrue, SentIsChange, At
<1>10. History'
  BY <1>0, <1>1, HistoryStands
<1> QED
  BY <1>7, <1>8, <1>9, <1>10 DEF SyncInv

\* The worker handles a diff, a bookTicker event or a status report.
LEMMA SyncHandles ==
  ASSUME SyncInv, HandleDiff \/ HandleTicker \/ OnWsStatus
  PROVE  SyncInv'
<1>0. BookTypeOK /\ History /\ EventsTrue /\ SentIsChange /\ BookTrue
  BY DEF SyncInv
<1>1. /\ UNCHANGED <<history, sent, ticks, lag, socket, drops>>
      /\ events # <<>> /\ events' = Tail(events)
  BY DEF HandleDiff, HandleTicker, OnWsStatus, venueVars
<1>2. PICK e : e = Head(events)
  OBVIOUS
<1>3. /\ events' \in Seq(Event) /\ EventsTrue' /\ e \in Event
      /\ e.kind = "diff" => e \in Diff /\ EventTrue(e)
  BY <1>0, <1>1, <1>2, EventTaken
<1>4. market_opened' \in BOOLEAN
  <2>1. CASE HandleDiff \/ HandleTicker
    BY <1>0, <2>1 DEF HandleDiff, HandleTicker, BookTypeOK
  <2>2. CASE OnWsStatus
    <3>1. e.kind = "status" /\ market_opened' = e.opened
      BY <1>2, <2>2 DEF OnWsStatus
    <3>2. e \in Status
      BY <1>3, <3>1 DEF Event, Diff, Ticker
    <3> QED
      BY <3>1, <3>2 DEF Status
  <2> QED
    BY <2>1, <2>2
<1>5. /\ synced' \in BOOLEAN /\ failures' \in Nat /\ last_update_id' \in 0..Len(history)
      /\ book' \in Books
      /\ synced' => book' = At(last_update_id')
  <2>1. CASE ResyncOrderBook
    BY <1>0, <2>1, ResyncIsVenues
  <2>2. CASE UNCHANGED <<synced, last_update_id, book, failures>>
    <3>1. /\ synced' \in BOOLEAN /\ failures' \in Nat /\ last_update_id' \in 0..Len(history)
          /\ book' \in Books
      BY <1>0, <2>2 DEF BookTypeOK
    <3>2. synced' => book' = At(last_update_id')
      BY <1>0, <2>2 DEF BookTrue
    <3> QED
      BY <3>1, <3>2
  <2>3. CASE DropsOld(e)
    <3>1. UNCHANGED <<synced, last_update_id, book, failures>> /\ published' = book
      BY <2>3 DEF DropsOld
    <3>2. synced' \in BOOLEAN
      BY <1>0, <3>1 DEF BookTypeOK
    <3>3. /\ failures' \in Nat /\ last_update_id' \in 0..Len(history)
          /\ book' \in Books
      BY <1>0, <3>1 DEF BookTypeOK
    <3>4. synced' => book' = At(last_update_id')
      BY <1>0, <3>1 DEF BookTrue
    <3> QED
      BY <3>2, <3>3, <3>4
  <2>4. CASE HandleDiff /\ Applies(e)
    <3>1. /\ synced /\ e.u >= last_update_id /\ InSequence(e)
          /\ book' = ApplyLevels(e.levels) /\ last_update_id' = e.u /\ published' = book'
          /\ UNCHANGED <<synced, failures>>
      BY <2>4 DEF Applies
    <3>2. e \in Diff /\ EventTrue(e)
      BY <1>2, <1>3, <2>4 DEF HandleDiff
    <3>3. ApplyLevels(e.levels) = At(e.u) /\ ApplyLevels(e.levels) \in Books
      BY <1>0, <3>1, <3>2, AppliedIsVenues
    <3>4. e.u \in Nat /\ e.u <= Len(history) /\ Len(history) \in Nat
      BY <1>0, <3>2 DEF Diff, EventTrue, BookTypeOK
    <3>5. synced' \in BOOLEAN
      BY <1>0, <3>1 DEF BookTypeOK
    <3>6. failures' \in Nat /\ last_update_id' \in 0..Len(history)
      BY <1>0, <3>1, <3>4 DEF BookTypeOK
    <3>7. book' \in Books /\ book' = At(last_update_id') /\ published' = book'
      BY <3>1, <3>3
    <3> QED
      BY <3>5, <3>6, <3>7
  <2>5. HandleDiff => DropsOld(e) \/ Applies(e) \/ ResyncOrderBook
    BY <1>2 DEF HandleDiff, Desyncs
  <2>6. OnWsStatus => ResyncOrderBook \/ UNCHANGED <<synced, last_update_id, book, published, failures>>
    BY DEF OnWsStatus, bookVars
  <2>7. HandleTicker => UNCHANGED <<synced, last_update_id, book, failures>>
    BY DEF HandleTicker
  <2> QED
    BY <2>1, <2>2, <2>3, <2>4, <2>5, <2>6, <2>7
<1>6. BookTypeOK'
  BY <1>0, <1>1, <1>3, <1>4, <1>5 DEF BookTypeOK
<1>7. History' /\ SentIsChange'
  BY <1>0, <1>1, HistoryStands DEF SentIsChange, At
<1>8. BookTrue'
  BY <1>1, <1>5 DEF BookTrue, At
<1> QED
  BY <1>3, <1>6, <1>7, <1>8 DEF SyncInv

\* Every step keeps the invariant.
LEMMA SyncStep == SyncInv /\ [Next]_vars => SyncInv'
<1> SUFFICES ASSUME SyncInv, [Next]_vars
             PROVE  SyncInv'
  OBVIOUS
<1>1. CASE Next
  BY <1>1, SyncUpdates, SyncSends, SyncTicks, SyncSocket, SyncHandles DEF Next
<1>2. CASE UNCHANGED vars
  <2>1. UNCHANGED <<history, sent, ticks, lag, socket, drops, events, market_opened,
                    synced, last_update_id, book, failures>>
    BY <1>2 DEF vars, venueVars, bookVars
  <2>2. BookTypeOK'
    BY <2>1 DEF SyncInv, BookTypeOK
  <2>3. History' /\ EventsTrue' /\ SentIsChange' /\ BookTrue'
    BY <2>1 DEF SyncInv, History, Untouched, EventsTrue, EventTrue, SentIsChange, BookTrue, At
  <2> QED
    BY <2>2, <2>3 DEF SyncInv
<1> QED
  BY <1>1, <1>2

-----------------------------------------------------------------------------
(* What the traders are told.                                              *)

\* A book, or the best level of a book, that the venue had.
Was(levels) == \E i \in 0..Len(history) : levels \in {At(i), Top(At(i))}

Told ==
  /\ Was(published)
  /\ \A i \in DOMAIN events : events[i].kind = "ticker" => Was(events[i].levels)

\* What the venue had stays so.
LEMMA WasStays ==
  ASSUME BookTypeOK, VenueUpdates \/ UNCHANGED history, NEW levels, Was(levels)
  PROVE  Was(levels)'
<1>1. PICK i \in 0..Len(history) : levels \in {At(i), Top(At(i))}
  BY DEF Was
<1>2. At(i)' = At(i) /\ i \in 0..Len(history')
  <2>1. CASE VenueUpdates
    BY <2>1, UpdateAppends
  <2>2. CASE UNCHANGED history
    BY <2>2, HistoryStands
  <2> QED
    BY <2>1, <2>2
<1>3. Top(At(i))' = Top(At(i))
  BY <1>2 DEF Top
<1> QED
  BY <1>1, <1>2, <1>3 DEF Was

\* Nothing has been told at first.
LEMMA ToldInit == Init => Told
<1> SUFFICES ASSUME Init
             PROVE  Told
  OBVIOUS
<1>1. Len(history) = 0 /\ published = At(0) /\ events = <<>>
  BY DEF Init, At
<1> QED
  BY <1>1 DEF Told, Was

\* Every step keeps it.
LEMMA ToldStep == SyncInv /\ SyncInv' /\ Told /\ [Next]_vars => Told'
<1> SUFFICES ASSUME SyncInv, SyncInv', Told, [Next]_vars
             PROVE  Told'
  OBVIOUS
<1>0. BookTypeOK /\ BookTypeOK' /\ BookTrue'
  BY DEF SyncInv
<1>1. VenueUpdates \/ UNCHANGED history
  BY DEF Next, VenueSends, VenueTicks, SocketOpens, SocketDrops, HandleDiff, HandleTicker,
         OnWsStatus, vars, venueVars
<1>2. \A levels : Was(levels) => Was(levels)'
  BY <1>0, <1>1, WasStays
<1>3. Was(published)'
  <2>1. published' = published \/ (synced' /\ published' = book') \/ HandleTicker
    BY DEF Next, VenueUpdates, VenueSends, VenueTicks, SocketOpens, SocketDrops, HandleDiff,
           OnWsStatus, vars, bookVars, DropsOld, Applies, Desyncs, ResyncOrderBook, ApplySnapshot
  <2>2. PICK new : new = published'
    OBVIOUS
  <2>3. Was(new)'
    <3>1. CASE new = published
      BY <1>2, <3>1 DEF Told
    <3>2. CASE synced' /\ new = book'
      <4>1. new = At(last_update_id)' /\ last_update_id' \in 0..Len(history')
        BY <1>0, <3>2 DEF BookTrue, BookTypeOK
      <4>2. PICK n : n = last_update_id'
        OBVIOUS
      <4>3. new = At(n)' /\ n \in 0..Len(history')
        BY <4>1, <4>2 DEF At
      <4> QED
        BY <4>3 DEF Was
    <3>3. CASE HandleTicker
      <4>1. new = events[1].levels /\ events[1].kind = "ticker" /\ 1 \in DOMAIN events
        BY <1>0, <2>2, <3>3 DEF HandleTicker, BookTypeOK
      <4> QED
        BY <1>2, <4>1 DEF Told
    <3> QED
      BY <2>1, <2>2, <3>1, <3>2, <3>3
  <2> QED
    BY <2>2, <2>3 DEF Was
<1>4. ASSUME NEW i \in DOMAIN events', events'[i].kind = "ticker"
      PROVE  Was(events[i].levels)'
  <2>1. PICK d : d = events'[i]
    OBVIOUS
  <2>2. \/ \E k \in DOMAIN events : d = events[k]
        \/ VenueTicks /\ d = [kind |-> "ticker", levels |-> Top(At(Len(history)))]
    <3>1. CASE events' = events
      BY <2>1, <3>1
    <3>2. CASE events # <<>> /\ events' = Tail(events)
      BY <1>0, <2>1, <3>2 DEF BookTypeOK
    <3>3. ASSUME NEW e \in Event, events' = Append(events, e), e.kind # "ticker"
          PROVE  \E k \in DOMAIN events : d = events[k]
      BY <1>0, <1>4, <2>1, <3>3 DEF BookTypeOK
    <3>4. CASE VenueTicks
      <4>1. PICK e : e = [kind |-> "ticker", levels |-> Top(At(Len(history)))]
        OBVIOUS
      <4>2. events' = Append(events, e)
        BY <3>4, <4>1 DEF VenueTicks
      <4>3. d = e \/ \E k \in DOMAIN events : d = events[k]
        BY <1>0, <2>1, <4>2 DEF BookTypeOK
      <4> QED
        BY <3>4, <4>1, <4>3
    <3>5. CASE VenueSends /\ socket
      <4>1. DepthEvent \in Event /\ DepthEvent.kind = "diff" /\ events' = Append(events, DepthEvent)
        BY <3>5, DepthEventTrue DEF VenueSends, SyncInv, Event
      <4> QED
        BY <3>3, <4>1
    <3>6. CASE SocketOpens \/ SocketDrops
      <4>1. PICK b \in BOOLEAN : events' = Append(events, [kind |-> "status", opened |-> b])
        BY <3>6 DEF SocketOpens, SocketDrops
      <4>2. [kind |-> "status", opened |-> b] \in Event
        BY DEF Event, Status
      <4> QED
        BY <3>3, <4>1, <4>2
    <3>7. VenueSends /\ ~socket => events' = events
      BY DEF VenueSends
    <3>8. VenueUpdates \/ UNCHANGED vars => events' = events
      BY DEF VenueUpdates, vars
    <3>9. HandleDiff \/ HandleTicker \/ OnWsStatus => events # <<>> /\ events' = Tail(events)
      BY DEF HandleDiff, HandleTicker, OnWsStatus
    <3> QED
      BY <3>1, <3>2, <3>4, <3>5, <3>6, <3>7, <3>8, <3>9 DEF Next
  <2>3. Was(d.levels)
    <3>1. CASE \E k \in DOMAIN events : d = events[k]
      BY <1>4, <2>1, <3>1 DEF Told
    <3>2. CASE VenueTicks /\ d = [kind |-> "ticker", levels |-> Top(At(Len(history)))]
      <4>1. Len(history) \in 0..Len(history)
        BY <1>0 DEF BookTypeOK
      <4> QED
        BY <3>2, <4>1 DEF Was
    <3> QED
      BY <2>2, <3>1, <3>2
  <2>4. Was(d.levels)'
    BY <1>2, <2>3
  <2> QED
    BY <2>1, <2>4 DEF Was
<1> QED
  BY <1>3, <1>4 DEF Told

\* While the book counts as synced it is the book the venue had at last_update_id, and
\* what the traders were sent last is a book the venue had or the best level of one,
\* however events are lost and snapshots lag.
THEOREM BookStaysVenues == Spec => []BookIsVenues
<1>1. SyncInv /\ Told => BookIsVenues
  BY DEF SyncInv, Told, Was, BookTrue, BookIsVenues
<1> QED
  BY <1>1, SyncInit, SyncStep, ToldInit, ToldStep, PTL DEF Spec
-----------------------------------------------------------------------------
(* Nothing sent is missing.                                                *)

\* Events that are appended or taken leave the others as they are.
LEMMA QueueMoves ==
  ASSUME BookTypeOK
  PROVE  /\ Len(events) \in Nat /\ DOMAIN events = 1..Len(events)
         /\ \A e \in Event : events' = Append(events, e) =>
              /\ DOMAIN events' = 1..(Len(events) + 1) /\ events'[Len(events) + 1] = e
              /\ \A i \in 1..Len(events) : events'[i] = events[i]
         /\ events # <<>> /\ events' = Tail(events) =>
              /\ Head(events) = events[1] /\ Len(events) >= 1
              /\ DOMAIN events' = 1..(Len(events) - 1)
              /\ \A i \in 1..(Len(events) - 1) : events'[i] = events[i + 1]
<1>1. events \in Seq(Event) /\ Len(events) \in Nat /\ DOMAIN events = 1..Len(events)
  BY DEF BookTypeOK
<1>2. ASSUME NEW e \in Event, events' = Append(events, e)
      PROVE  /\ DOMAIN events' = 1..(Len(events) + 1) /\ events'[Len(events) + 1] = e
             /\ \A i \in 1..Len(events) : events'[i] = events[i]
  BY <1>1, <1>2
<1>3. ASSUME events # <<>>, events' = Tail(events)
      PROVE  /\ Head(events) = events[1] /\ Len(events) >= 1
             /\ DOMAIN events' = 1..(Len(events) - 1)
             /\ \A i \in 1..(Len(events) - 1) : events'[i] = events[i + 1]
  BY <1>1, <1>3
<1> QED
  BY <1>1, <1>2, <1>3

\* A report of a change of the socket goes to the end of the queue.
LEMMA StatusQueued ==
  ASSUME BookTypeOK, StatusesAlternate, NEW b \in BOOLEAN, socket' = b, socket = ~b,
         UNCHANGED market_opened, events' = Append(events, [kind |-> "status", opened |-> b])
  PROVE  StatusesAlternate'
<1>1. PICK n : n = Len(events)
  OBVIOUS
<1>2. PICK e \in Status : e = [kind |-> "status", opened |-> b]
  BY DEF Status
<1>3. /\ n \in Nat /\ DOMAIN events = 1..n /\ DOMAIN events' = 1..(n + 1) /\ events'[n + 1] = e
      /\ \A i \in 1..n : events'[i] = events[i]
  BY <1>1, <1>2, QueueMoves DEF Event
<1>4. /\ \A i \in 1..n : IsStatus(i)' <=> IsStatus(i)
      /\ IsStatus(n + 1)' /\ e.opened = b
  BY <1>2, <1>3 DEF IsStatus
<1>5. n + 1 \in DOMAIN events' /\ \A i \in 1..n : i < n + 1 /\ i \in DOMAIN events'
  BY <1>3
<1>6. ~(\A i \in DOMAIN events' : ~IsStatus(i)')
  BY <1>4, <1>5
<1>7. ASSUME NEW i \in 1..n, IsStatus(i)
      PROVE  /\ (\A j \in DOMAIN events' : j < i => ~IsStatus(j)') => events'[i].opened # market_opened'
             /\ ~(\A j \in DOMAIN events' : j > i => ~IsStatus(j)')
             /\ \A j \in DOMAIN events' :
                  (/\ j > i /\ IsStatus(j)'
                   /\ \A k \in DOMAIN events' : i < k /\ k < j => ~IsStatus(k)')
                  => events'[j].opened # events'[i].opened
  <2>1. ASSUME \A j \in DOMAIN events' : j < i => ~IsStatus(j)'
        PROVE  events'[i].opened # market_opened'
    <3>1. \A j \in DOMAIN events : j < i => ~IsStatus(j)
      BY <1>3, <1>4, <1>5, <2>1
    <3> QED
      BY <1>3, <1>7, <3>1 DEF StatusesAlternate
  <2>2. ~(\A j \in DOMAIN events' : j > i => ~IsStatus(j)')
    BY <1>3, <1>4, <1>5
  <2>3. ASSUME NEW j \in DOMAIN events', j > i, IsStatus(j)',
               \A k \in DOMAIN events' : i < k /\ k < j => ~IsStatus(k)'
        PROVE  events'[j].opened # events'[i].opened
    <3>1. CASE j \in 1..n
      <4>1. \A k \in DOMAIN events : i < k /\ k < j => ~IsStatus(k)
        BY <1>3, <1>4, <1>5, <2>3
      <4> QED
        BY <1>3, <1>4, <1>7, <2>3, <3>1, <4>1 DEF StatusesAlternate
    <3>2. CASE j = n + 1
      <4>1. \A k \in DOMAIN events : k > i => ~IsStatus(k)
        BY <1>3, <1>4, <1>5, <2>3, <3>2
      <4>2. events[i].opened = socket
        BY <1>3, <1>7, <4>1 DEF StatusesAlternate
      <4>3. events'[i] = events[i] /\ events'[j] = e
        BY <1>3, <3>2
      <4> QED
        BY <1>4, <4>2, <4>3
    <3> QED
      BY <1>3, <3>1, <3>2
  <2> QED
    BY <2>1, <2>2, <2>3
<1>8. /\ (\A j \in DOMAIN events' : j < n + 1 => ~IsStatus(j)') => events'[n + 1].opened # market_opened'
      /\ events'[n + 1].opened = socket'
      /\ \A j \in DOMAIN events' : ~(j > n + 1)
  <2>1. ASSUME \A j \in DOMAIN events' : j < n + 1 => ~IsStatus(j)'
        PROVE  events'[n + 1].opened # market_opened'
    <3>1. \A i \in DOMAIN events : ~IsStatus(i)
      BY <1>3, <1>4, <1>5, <2>1
    <3>2. market_opened = socket
      BY <3>1 DEF StatusesAlternate
    <3> QED
      BY <1>3, <1>4, <3>2
  <2>2. events'[n + 1].opened = socket'
    BY <1>3, <1>4
  <2>3. \A j \in DOMAIN events' : ~(j > n + 1)
    BY <1>3
  <2> QED
    BY <2>1, <2>2, <2>3
<1>9. \A i \in DOMAIN events' : i \in 1..n \/ i = n + 1
  BY <1>3
<1>10. ASSUME NEW i \in DOMAIN events', IsStatus(i)'
       PROVE  /\ (\A j \in DOMAIN events' : j < i => ~IsStatus(j)') => events'[i].opened # market_opened'
              /\ (\A j \in DOMAIN events' : j > i => ~IsStatus(j)') => events'[i].opened = socket'
              /\ \A j \in DOMAIN events' :
                   (/\ j > i /\ IsStatus(j)'
                    /\ \A k \in DOMAIN events' : i < k /\ k < j => ~IsStatus(k)')
                   => events'[j].opened # events'[i].opened
  <2>1. CASE i \in 1..n
    <3>1. IsStatus(i)
      BY <1>4, <1>10, <2>1
    <3> QED
      BY <1>7, <2>1, <3>1
  <2>2. CASE i = n + 1
    BY <1>8, <2>2
  <2> QED
    BY <1>9, <2>1, <2>2
<1> QED
  BY <1>6, <1>10 DEF StatusesAlternate

\* Another event does not matter to the reports, when it is queued...
LEMMA OtherQueued ==
  ASSUME BookTypeOK, StatusesAlternate, NEW e \in Event, e.kind # "status",
         UNCHANGED <<socket, market_opened>>, events' = Append(events, e)
  PROVE  StatusesAlternate'
<1>1. PICK n : n = Len(events)
  OBVIOUS
<1>2. /\ n \in Nat /\ DOMAIN events = 1..n /\ DOMAIN events' = 1..(n + 1) /\ events'[n + 1] = e
      /\ \A i \in 1..n : events'[i] = events[i]
  BY <1>1, QueueMoves
<1>3. (\A i \in 1..n : IsStatus(i)' <=> IsStatus(i)) /\ ~IsStatus(n + 1)'
  BY <1>2 DEF IsStatus
<1>4. \A i \in DOMAIN events' : IsStatus(i)' => i \in DOMAIN events /\ IsStatus(i)
  BY <1>2, <1>3
<1>5. \A i \in DOMAIN events : i \in DOMAIN events' /\ (IsStatus(i) => IsStatus(i)')
                               /\ events'[i] = events[i]
  BY <1>2, <1>3
<1>6. (\A i \in DOMAIN events' : ~IsStatus(i)') => market_opened' = socket'
  BY <1>5 DEF StatusesAlternate
<1>7. ASSUME NEW i \in DOMAIN events', IsStatus(i)'
      PROVE  /\ (\A j \in DOMAIN events' : j < i => ~IsStatus(j)') => events'[i].opened # market_opened'
             /\ (\A j \in DOMAIN events' : j > i => ~IsStatus(j)') => events'[i].opened = socket'
             /\ \A j \in DOMAIN events' :
                  (/\ j > i /\ IsStatus(j)'
                   /\ \A k \in DOMAIN events' : i < k /\ k < j => ~IsStatus(k)')
                  => events'[j].opened # events'[i].opened
  <2>1. i \in DOMAIN events /\ IsStatus(i) /\ events'[i] = events[i]
    BY <1>4, <1>5, <1>7
  <2>2. ASSUME \A j \in DOMAIN events' : j < i => ~IsStatus(j)'
        PROVE  events'[i].opened # market_opened'
    BY <1>5, <2>1, <2>2 DEF StatusesAlternate
  <2>3. ASSUME \A j \in DOMAIN events' : j > i => ~IsStatus(j)'
        PROVE  events'[i].opened = socket'
    BY <1>5, <2>1, <2>3 DEF StatusesAlternate
  <2>4. ASSUME NEW j \in DOMAIN events', j > i, IsStatus(j)',
               \A k \in DOMAIN events' : i < k /\ k < j => ~IsStatus(k)'
        PROVE  events'[j].opened # events'[i].opened
    <3>1. j \in DOMAIN events /\ IsStatus(j) /\ events'[j] = events[j]
      BY <1>4, <1>5, <2>4
    <3>2. \A k \in DOMAIN events : i < k /\ k < j => ~IsStatus(k)
      BY <1>5, <2>4
    <3> QED
      BY <2>1, <2>4, <3>1, <3>2 DEF StatusesAlternate
  <2> QED
    BY <2>2, <2>3, <2>4
<1> QED
  BY <1>6, <1>7 DEF StatusesAlternate

\* ... and a report or another event that is taken leaves them in turn.
LEMMA ReportTaken ==
  ASSUME BookTypeOK, StatusesAlternate, UNCHANGED socket,
         events # <<>>, events' = Tail(events),
         IF Head(events).kind = "status" THEN market_opened' = Head(events).opened
         ELSE UNCHANGED market_opened
  PROVE  StatusesAlternate'
<1>1. PICK n : n = Len(events) - 1
  OBVIOUS
<1>2. /\ n \in Nat /\ DOMAIN events = 1..(n + 1) /\ DOMAIN events' = 1..n
      /\ Head(events) = events[1]
      /\ \A i \in 1..n : events'[i] = events[i + 1]
  BY <1>1, QueueMoves
<1>3. \A i \in 1..n : IsStatus(i)' <=> IsStatus(i + 1)
  BY <1>2 DEF IsStatus
<1>4. \A k \in DOMAIN events : k = 1 \/ (k - 1 \in 1..n /\ (k - 1) + 1 = k)
  BY <1>2
<1>5. \A i \in 1..n : i + 1 \in DOMAIN events /\ i + 1 > 1 /\ i \in Nat
  BY <1>2
<1>6. 1 \in DOMAIN events
  BY <1>2
<1>7. IF IsStatus(1) THEN market_opened' = events[1].opened ELSE market_opened' = market_opened
  BY <1>2 DEF IsStatus
<1>8. ASSUME \A i \in DOMAIN events' : ~IsStatus(i)'
      PROVE  market_opened' = socket'
  <2>1. \A j \in DOMAIN events : j > 1 => ~IsStatus(j)
    BY <1>2, <1>3, <1>4, <1>8
  <2>2. CASE IsStatus(1)
    BY <1>6, <1>7, <2>1, <2>2 DEF StatusesAlternate
  <2>3. CASE ~IsStatus(1)
    <3>1. \A j \in DOMAIN events : ~IsStatus(j)
      BY <1>2, <1>3, <1>4, <1>8, <2>3
    <3> QED
      BY <1>7, <2>3, <3>1 DEF StatusesAlternate
  <2> QED
    BY <2>2, <2>3
<1>9. ASSUME NEW i \in DOMAIN events', IsStatus(i)'
      PROVE  /\ (\A j \in DOMAIN events' : j < i => ~IsStatus(j)') => events'[i].opened # market_opened'
             /\ (\A j \in DOMAIN events' : j > i => ~IsStatus(j)') => events'[i].opened = socket'
             /\ \A j \in DOMAIN events' :
                  (/\ j > i /\ IsStatus(j)'
                   /\ \A k \in DOMAIN events' : i < k /\ k < j => ~IsStatus(k)')
                  => events'[j].opened # events'[i].opened
  <2>1. PICK h : h = i + 1
    OBVIOUS
  <2>2. h \in DOMAIN events /\ IsStatus(h) /\ h > 1 /\ events'[i] = events[h] /\ i \in 1..n
    BY <1>2, <1>3, <1>5, <1>9, <2>1
  <2>3. ASSUME \A j \in DOMAIN events' : j < i => ~IsStatus(j)'
        PROVE  events'[i].opened # market_opened'
    <3>1. ASSUME NEW k \in DOMAIN events, 1 < k, k < h
          PROVE  ~IsStatus(k)
      <4>1. k - 1 \in 1..n /\ (k - 1) + 1 = k /\ k - 1 < i
        BY <1>2, <2>1, <2>2, <3>1
      <4> QED
        BY <1>2, <1>3, <2>3, <4>1
    <3>2. CASE IsStatus(1)
      <4>1. events[h].opened # events[1].opened
        BY <1>6, <2>2, <3>1, <3>2 DEF StatusesAlternate
      <4> QED
        BY <1>7, <2>2, <3>2, <4>1
    <3>3. CASE ~IsStatus(1)
      <4>1. \A k \in DOMAIN events : k < h => ~IsStatus(k)
        BY <1>2, <3>1, <3>3
      <4>2. events[h].opened # market_opened
        BY <2>2, <4>1 DEF StatusesAlternate
      <4> QED
        BY <1>7, <2>2, <3>3, <4>2
    <3> QED
      BY <3>2, <3>3
  <2>4. ASSUME \A j \in DOMAIN events' : j > i => ~IsStatus(j)'
        PROVE  events'[i].opened = socket'
    <3>1. ASSUME NEW k \in DOMAIN events, k > h
          PROVE  ~IsStatus(k)
      <4>1. k - 1 \in 1..n /\ (k - 1) + 1 = k /\ k - 1 > i
        BY <1>2, <2>1, <2>2, <3>1
      <4> QED
        BY <1>2, <1>3, <2>4, <4>1
    <3> QED
      BY <2>2, <3>1 DEF StatusesAlternate
  <2>5. ASSUME NEW j \in DOMAIN events', j > i, IsStatus(j)',
               \A k \in DOMAIN events' : i < k /\ k < j => ~IsStatus(k)'
        PROVE  events'[j].opened # events'[i].opened
    <3>1. PICK g : g = j + 1
      OBVIOUS
    <3>2. g \in DOMAIN events /\ IsStatus(g) /\ g > h /\ events'[j] = events[g] /\ j \in 1..n
      BY <1>2, <1>3, <1>5, <2>1, <2>2, <2>5, <3>1
    <3>3. ASSUME NEW k \in DOMAIN events, h < k, k < g
          PROVE  ~IsStatus(k)
      <4>1. k - 1 \in 1..n /\ (k - 1) + 1 = k /\ i < k - 1 /\ k - 1 < j
        BY <1>2, <2>1, <2>2, <3>1, <3>2, <3>3
      <4> QED
        BY <1>2, <1>3, <2>5, <4>1
    <3>4. events[g].opened # events[h].opened
      BY <2>2, <3>2, <3>3 DEF StatusesAlternate
    <3> QED
      BY <2>2, <3>2, <3>4
  <2> QED
    BY <2>3, <2>4, <2>5
<1> QED
  BY <1>8, <1>9 DEF StatusesAlternate

\* A step of the venue or the socket leaves a synced book with what was sent on its way.
LEMMA CurrentOutside ==
  ASSUME CurrentInv, VenueUpdates \/ VenueSends \/ VenueTicks \/ SocketOpens \/ SocketDrops
  PROVE  StatusesAlternate' /\ CatchesUp'
<1>0. BookTypeOK /\ History /\ StatusesAlternate /\ CatchesUp
  BY DEF CurrentInv, SyncInv
<1>1. CASE VenueUpdates
  <2>1. UNCHANGED <<sent, lag, socket, events, market_opened, synced, last_update_id>>
    BY <1>1 DEF VenueUpdates, bookVars
  <2> QED
    BY <1>0, <2>1 DEF StatusesAlternate, CatchesUp, IsStatus
<1>2. CASE VenueSends
  <2>1. UNCHANGED <<socket, market_opened>> /\ Changes(sent) # {} /\ sent' = Max(Changes(sent))
    BY <1>2 DEF VenueSends
  <2>2. CASE ~socket
    <3>1. events' = events
      BY <1>2, <2>2 DEF VenueSends
    <3> QED
      BY <1>0, <2>1, <2>2, <3>1 DEF StatusesAlternate, CatchesUp, IsStatus
  <2>3. CASE socket
    <3>1. PICK e : e = DepthEvent
      OBVIOUS
    <3>2. events' = Append(events, e) /\ e \in Diff /\ e.kind = "diff" /\ e.u = sent'
      BY <1>0, <1>2, <2>1, <2>3, <3>1, DepthEventTrue DEF VenueSends
    <3>3. StatusesAlternate'
      BY <1>0, <2>1, <3>2, OtherQueued DEF Event
    <3>4. PICK n : n = Len(events)
      OBVIOUS
    <3>5. n \in Nat /\ DOMAIN events' = 1..(n + 1) /\ events'[n + 1] = e
      BY <1>0, <3>2, <3>4, QueueMoves DEF Event
    <3>6. n + 1 \in DOMAIN events' /\ events'[n + 1].kind = "diff" /\ events'[n + 1].u = sent'
      BY <3>2, <3>5
    <3> QED
      BY <3>3, <3>6 DEF CatchesUp
  <2> QED
    BY <1>0, <2>2, <2>3 DEF BookTypeOK
<1>3. ASSUME NEW b \in BOOLEAN, socket' = b, socket = ~b, UNCHANGED market_opened,
             events' = Append(events, [kind |-> "status", opened |-> b])
      PROVE  StatusesAlternate' /\ CatchesUp'
  <2>1. StatusesAlternate'
    BY <1>0, <1>3, StatusQueued
  <2>2. PICK e \in Status : e = [kind |-> "status", opened |-> b]
    BY DEF Status
  <2>3. PICK n : n = Len(events)
    OBVIOUS
  <2>4. n \in Nat /\ DOMAIN events' = 1..(n + 1) /\ events'[n + 1] = e
    BY <1>0, <1>3, <2>2, <2>3, QueueMoves DEF Event
  <2>5. n + 1 \in DOMAIN events' /\ events'[n + 1].kind = "status"
    BY <2>2, <2>4
  <2>6. ~(\A i \in DOMAIN events' : ~IsStatus(i)')
    BY <2>5 DEF IsStatus
  <2> QED
    BY <2>1, <2>6 DEF CatchesUp
<1>4. CASE SocketOpens
  BY <1>0, <1>3, <1>4 DEF SocketOpens, BookTypeOK
<1>5. CASE SocketDrops
  BY <1>0, <1>3, <1>5 DEF SocketDrops, BookTypeOK
<1>6. CASE VenueTicks
  <2>1. UNCHANGED <<sent, lag, socket, market_opened, synced, last_update_id>>
    BY <1>6 DEF VenueTicks, bookVars
  <2>2. PICK e : e = [kind |-> "ticker", levels |-> Top(At(Len(history)))]
    OBVIOUS
  <2>3. events' = Append(events, e)
    BY <1>6, <2>2 DEF VenueTicks
  <2>4. At(Len(history)) \in Books
    BY <1>0, AtTypes DEF BookTypeOK
  <2>5. e \in Event /\ e.kind = "ticker"
    <3>1. e \in Ticker /\ e.kind = "ticker"
      BY <2>2, <2>4 DEF Ticker
    <3> QED
      BY <3>1 DEF Event
  <2>6. StatusesAlternate'
    BY <1>0, <2>1, <2>3, <2>5, OtherQueued
  <2>7. \A i \in DOMAIN events : i \in DOMAIN events' /\ events'[i] = events[i]
    <3>1. PICK n : n = Len(events)
      OBVIOUS
    <3>2. /\ n \in Nat /\ DOMAIN events = 1..n /\ DOMAIN events' = 1..(n + 1)
          /\ \A i \in 1..n : events'[i] = events[i]
      BY <1>0, <2>3, <2>5, <3>1, QueueMoves
    <3> QED
      BY <3>2
  <2>8. CatchesUp'
    BY <1>0, <2>1, <2>7 DEF CatchesUp, IsStatus
  <2> QED
    BY <2>6, <2>8
<1> QED
  BY <1>1, <1>2, <1>4, <1>5, <1>6

\* The worker takes the event, or fetches the book anew.
LEMMA CurrentInside ==
  ASSUME CurrentInv, HandleDiff \/ HandleTicker \/ OnWsStatus
  PROVE  StatusesAlternate' /\ CatchesUp'
<1>0. BookTypeOK /\ History /\ EventsTrue /\ SentIsChange /\ StatusesAlternate /\ CatchesUp
  BY DEF CurrentInv, SyncInv
<1>1. /\ UNCHANGED <<history, sent, lag, socket>>
      /\ events # <<>> /\ events' = Tail(events)
  BY DEF HandleDiff, HandleTicker, OnWsStatus, venueVars
<1>2. PICK e : e = Head(events)
  OBVIOUS
<1>3. PICK n : n = Len(events) - 1
  OBVIOUS
<1>4. /\ n \in Nat /\ DOMAIN events = 1..(n + 1) /\ DOMAIN events' = 1..n
      /\ e = events[1]
      /\ \A i \in 1..n : events'[i] = events[i + 1]
  BY <1>0, <1>1, <1>2, <1>3, QueueMoves
<1>5. /\ HandleTicker => e.kind = "ticker" /\ UNCHANGED market_opened
      /\ HandleDiff => e.kind = "diff" /\ UNCHANGED market_opened
      /\ OnWsStatus => e.kind = "status" /\ market_opened' = e.opened
  BY <1>2 DEF HandleDiff, HandleTicker, OnWsStatus
<1>6. StatusesAlternate'
  <2>1. IF Head(events).kind = "status" THEN market_opened' = Head(events).opened
        ELSE UNCHANGED market_opened
    BY <1>2, <1>5
  <2> QED
    BY <1>0, <1>1, <2>1, ReportTaken
<1>7. ASSUME lag' = 0, socket', synced', \A i \in DOMAIN events' : ~IsStatus(i)'
      PROVE  last_update_id' >= sent' \/ \E i \in DOMAIN events' : events'[i].kind = "diff" /\ events'[i].u = sent'
  <2>1. \A k \in DOMAIN events : k > 1 => ~IsStatus(k)
    <3> SUFFICES ASSUME NEW k \in DOMAIN events, k > 1
                 PROVE  ~IsStatus(k)
      OBVIOUS
    <3>1. k - 1 \in DOMAIN events' /\ events'[k - 1] = events[k]
      BY <1>4
    <3> QED
      BY <1>7, <3>1 DEF IsStatus
  <2>2. CASE ResyncOrderBook
    BY <1>0, <1>1, <1>7, <2>2, ResyncIsVenues
  <2>3. CASE OnWsStatus
    <3>1. 1 \in DOMAIN events /\ IsStatus(1) /\ \A j \in DOMAIN events : ~(j < 1)
      BY <1>4, <1>5, <2>3 DEF IsStatus
    <3>2. e.opened = socket /\ e.opened # market_opened
      BY <1>0, <1>4, <2>1, <3>1 DEF StatusesAlternate
    <3>3. ~market_opened /\ Head(events).opened
      BY <1>0, <1>1, <1>2, <1>7, <3>2 DEF BookTypeOK
    <3> QED
      BY <2>2, <2>3, <3>3 DEF OnWsStatus
  <2>4. CASE HandleDiff /\ ~ResyncOrderBook
    <3>1. DropsOld(e) \/ Applies(e)
      BY <1>2, <2>4 DEF HandleDiff, Desyncs
    <3>2. e.kind = "diff" /\ e \in Diff
      <4>1. Head(events).kind = "diff"
        BY <2>4 DEF HandleDiff
      <4> QED
        BY <1>0, <1>1, <1>2, <4>1, EventTaken
    <3>3. e.u \in Nat /\ last_update_id \in Nat /\ sent \in Nat /\ Len(history) \in Nat
      BY <1>0, <3>2 DEF Diff, BookTypeOK
    <3>4. synced /\ last_update_id' >= last_update_id /\ last_update_id' >= e.u
      <4>1. CASE DropsOld(e)
        BY <3>3, <4>1 DEF DropsOld
      <4>2. CASE Applies(e)
        BY <3>3, <4>2 DEF Applies
      <4> QED
        BY <3>1, <4>1, <4>2
    <3>5. last_update_id' \in Int
      BY <3>1, <3>3 DEF DropsOld, Applies
    <3>6. \A i \in DOMAIN events : ~IsStatus(i)
      BY <1>4, <2>1, <3>2 DEF IsStatus
    <3>7. last_update_id >= sent \/ \E i \in DOMAIN events : events[i].kind = "diff" /\ events[i].u = sent
      BY <1>0, <1>1, <1>7, <3>4, <3>6 DEF CatchesUp
    <3>8. CASE last_update_id >= sent
      BY <1>1, <3>3, <3>4, <3>5, <3>8
    <3>9. ASSUME NEW i \in DOMAIN events, events[i].kind = "diff", events[i].u = sent
          PROVE  last_update_id' >= sent' \/ \E k \in DOMAIN events' : events'[k].kind = "diff" /\ events'[k].u = sent'
      <4>1. CASE i = 1
        BY <1>1, <1>4, <3>4, <3>9, <4>1
      <4>2. CASE i # 1
        <5>1. i - 1 \in DOMAIN events' /\ events'[i - 1] = events[i]
          BY <1>4, <4>2
        <5> QED
          BY <1>1, <3>9, <5>1
      <4> QED
        BY <4>1, <4>2
    <3> QED
      BY <3>7, <3>8, <3>9
  <2>5. CASE HandleTicker
    <3>1. e.kind = "ticker" /\ UNCHANGED <<synced, last_update_id>>
      BY <1>5, <2>5 DEF HandleTicker
    <3>2. \A i \in DOMAIN events : ~IsStatus(i)
      BY <1>4, <2>1, <3>1 DEF IsStatus
    <3>3. \/ last_update_id >= sent
          \/ \E i \in DOMAIN events : events[i].kind = "diff" /\ events[i].u = sent
      BY <1>0, <1>1, <1>7, <3>1, <3>2 DEF CatchesUp
    <3>4. ASSUME NEW i \in DOMAIN events, events[i].kind = "diff", events[i].u = sent
          PROVE  \E k \in DOMAIN events' : events'[k].kind = "diff" /\ events'[k].u = sent'
      <4>1. i # 1
        BY <1>4, <3>1, <3>4
      <4>2. i - 1 \in DOMAIN events' /\ events'[i - 1] = events[i]
        BY <1>4, <4>1
      <4> QED
        BY <1>1, <3>4, <4>2
    <3> QED
      BY <1>1, <3>1, <3>3, <3>4
  <2> QED
    BY <2>2, <2>3, <2>4, <2>5
<1> QED
  BY <1>6, <1>7 DEF CatchesUp

\* With snapshots that are not behind, nothing the venue sent is missing once the
\* events are handled, over any number of drops and failed snapshots.
THEOREM BookStaysCurrent == Spec => []BookIsCurrent
<1>1. Init => CurrentInv
  <2> SUFFICES ASSUME Init
               PROVE  StatusesAlternate /\ CatchesUp
    BY SyncInit DEF CurrentInv
  <2>0. events = <<>> /\ market_opened = socket
    BY DEF Init
  <2>1. \A i \in DOMAIN events : FALSE
    BY <2>0
  <2>2. ~socket
    BY DEF Init
  <2> QED
    BY <2>0, <2>1, <2>2 DEF StatusesAlternate, CatchesUp
<1>2. CurrentInv /\ [Next]_vars => CurrentInv'
  <2> SUFFICES ASSUME CurrentInv, [Next]_vars
               PROVE  CurrentInv'
    OBVIOUS
  <2>1. SyncInv'
    BY SyncStep DEF CurrentInv
  <2>2. CASE Next
    BY <2>1, <2>2, CurrentOutside, CurrentInside DEF Next, CurrentInv
  <2>3. CASE UNCHANGED vars
    <3>1. StatusesAlternate' /\ CatchesUp'
      BY <2>3 DEF vars, venueVars, bookVars, CurrentInv, StatusesAlternate, CatchesUp, IsStatus
    <3> QED
      BY <2>1, <3>1 DEF CurrentInv
  <2> QED
    BY <2>2, <2>3
<1>3. CurrentInv => BookIsCurrent
  BY DEF CurrentInv, CatchesUp, BookIsCurrent
<1> QED
  BY <1>1, <1>2, <1>3, PTL DEF Spec
=============================================================================
