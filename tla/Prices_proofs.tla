---------------------------- MODULE Prices_proofs ----------------------------
(***************************************************************************)
(* Proofs about the two modules of prices.  FairPrice, for any books,      *)
(* modes, cap, smoothing and bounds: the trader's fair price stays within  *)
(* the cap around its own mid, and a price the pricer has stopped backing  *)
(* ages out.  Quoting, for any strategy, book, fair price and volatility,  *)
(* tick and lot: quotes do not cross the book, a decision repeated does    *)
(* nothing, and the position stays within the limit and one order's size,  *)
(* whatever rests or is being cancelled when it fills.                     *)
(***************************************************************************)
EXTENDS FairPrice, Quoting, FiniteSetTheorems, SequenceTheorems,
        WellFoundedInduction, TLAPS

Allowed == (Unit - Cap) .. (Unit + Cap)   \* what a clamped factor may be
MaybeFactor == Allowed \cup {NaN}
Task == ({"status"} \X BOOLEAN) \cup ({"book"} \X Book)
Message == [ts : Nat, price : Int, factor : MaybeFactor, frozen : BOOLEAN]

\* What the two processes and the links between them hold.
PriceTypeOK ==
  /\ mode \in {"MID", "VWAP", "FACTOR"} /\ now \in Nat
  /\ current \in BOOLEAN /\ heard \in [link : Nat, book : Nat]
  /\ feed \in [Service -> Seq(Task)]
  /\ connected \in [Service -> BOOLEAN]
  /\ book \in [Service -> Book]
  /\ ema \in MaybeFactor
  /\ wire \in Seq(Message)
  /\ fair \in Message

\* A fair price is not younger than the pricer's last sight of what it was computed
\* from: a book of its link or, for a frozen one, the link.
Backs(m) == m.ts <= IF m.frozen THEN heard.link ELSE heard.book

\* That is so of every fair price, delivered or still on the wire.
Backed ==
  /\ heard.link <= now /\ heard.book <= now
  /\ connected["pricer"] => heard.link = now
  /\ connected["pricer"] /\ current => heard.book = now
  /\ Backs(fair)
  /\ \A i \in 1..Len(wire) : Backs(wire[i])

PriceInv == PriceTypeOK /\ Backed
-----------------------------------------------------------------------------
(* The operators.                                                          *)

\* A factor never passes for the absence of one.
LEMMA NaNIsNoFactor == Allowed \subseteq Nat /\ Unit \in Allowed /\ NaN \notin Allowed
  BY FairPriceAssumption DEF Allowed, NaN

\* clamp_factor leaves a factor within the cap.
LEMMA ClampBounds ==
  ASSUME NEW f \in Int
  PROVE  Clamp(f) \in Allowed
  BY FairPriceAssumption DEF Clamp, Allowed

\* An average in tenths lies between what it averages.
LEMMA TenthsBetween ==
  ASSUME NEW lo \in Nat, NEW hi \in Nat, NEW a \in 0..10, NEW x \in lo..hi, NEW y \in lo..hi
  PROVE  (a * x + (10 - a) * y) \div 10 \in lo..hi
<1>1. a * x + (10 - a) * y \in 10 * lo .. 10 * hi
  <2>1. CASE a \in {0, 1, 2, 3, 4, 5}
    BY <2>1
  <2>2. CASE a \in {6, 7, 8, 9, 10}
    BY <2>2
  <2>3. QED  BY <2>1, <2>2
<1>2. ASSUME NEW n \in 10 * lo .. 10 * hi PROVE n \div 10 \in lo..hi
  BY <1>2
<1>3. QED  BY <1>1, <1>2

\* Smoothing a clamped factor with clamped ones stays within the cap.
LEMMA SmoothBounds ==
  ASSUME ema \in MaybeFactor, NEW f \in Allowed
  PROVE  Smooth(f) \in Allowed
<1>1. CASE ema = NaN
  BY <1>1 DEF Smooth
<1>2. CASE ema # NaN
  <2>1. ema \in Allowed
    BY <1>2 DEF MaybeFactor
  <2>2. (Alpha * f + (10 - Alpha) * ema) \div 10 \in Allowed
    BY <2>1, TenthsBetween, FairPriceAssumption DEF Allowed
  <2>3. QED  BY <1>2, <2>2 DEF Smooth
<1>3. QED  BY <1>1, <1>2

\* The weighted price is a number whenever there is a size to weigh by.
LEMMA VwapType ==
  ASSUME NEW b \in Book
  PROVE  Vwap(b) \in Int
<1>1. b.bq + b.aq \in Nat /\ b.bid * b.aq + b.ask * b.bq \in Nat
  BY DEF Book
<1>2. 2 * Unit * (b.bid * b.aq + b.ask * b.bq) \in Int
  BY <1>1, FairPriceAssumption
<1>3. QED  BY <1>1, <1>2 DEF Vwap, NaN

\* A factor, when there is one, is within the cap, whatever the book.
LEMMA FactorBounds ==
  ASSUME ema \in MaybeFactor, NEW b \in Book, TwoSided(b)
  PROVE  Factor(b) \in MaybeFactor
<1>1. b.bid + b.ask \in Nat /\ b.bid + b.ask > 0
  BY DEF Book, TwoSided
<1>2. RawFactor(b) \in Int
  BY <1>1, VwapType DEF RawFactor, NaN
<1>3. Smooth(Clamp(RawFactor(b))) \in Allowed
  BY <1>2, ClampBounds, SmoothBounds
<1>4. QED  BY <1>3 DEF Factor, MaybeFactor

\* What compute() returns and leaves behind is of the types the state has.
LEMMA ComputeType ==
  ASSUME PriceTypeOK, NEW b \in Book, TwoSided(b)
  PROVE  /\ Compute(b).price \in Int
         /\ Compute(b).factor \in MaybeFactor /\ Compute(b).ema \in MaybeFactor
<1>1. ema \in MaybeFactor /\ NaN \in MaybeFactor /\ Factor(b) \in MaybeFactor
  BY FactorBounds DEF PriceTypeOK, MaybeFactor
<1>2. Mid(b) \in Int /\ Vwap(b) \in Int
  BY VwapType, FairPriceAssumption DEF Mid, Book
<1>3. Factor(b) # NaN => Factor(b) * (b.bid + b.ask) \in Int
  <2>1. Factor(b) # NaN => Factor(b) \in Nat
    BY <1>1, NaNIsNoFactor DEF MaybeFactor
  <2>2. b.bid + b.ask \in Nat
    BY DEF Book
  <2>3. QED  BY <2>1, <2>2
<1>4. mode \in {"MID", "VWAP", "FACTOR"}
  BY DEF PriceTypeOK
<1>5. CASE mode = "MID"
  BY <1>1, <1>2, <1>5 DEF Compute
<1>6. CASE mode = "VWAP"
  BY <1>1, <1>2, <1>6 DEF Compute
<1>7. CASE mode = "FACTOR"
  BY <1>1, <1>2, <1>3, <1>7 DEF Compute
<1>8. QED  BY <1>4, <1>5, <1>6, <1>7
-----------------------------------------------------------------------------
(* The invariant.                                                          *)

\* Both processes start with nothing.
LEMMA PriceInit == Init => PriceInv
<1>1. SUFFICES ASSUME Init PROVE PriceInv  OBVIOUS
<1>2. NoBook \in Book /\ NoFairPrice \in Message /\ NoFairPrice.ts = 0 /\ ~NoFairPrice.frozen
  BY DEF NoBook, Book, NoFairPrice, Message, MaybeFactor, NaN
<1>3. PriceTypeOK
  <2>1. current \in BOOLEAN
    BY <1>1 DEF Init
  <2>2. heard \in [link : Nat, book : Nat]
    BY <1>1 DEF Init
  <2>3. QED
    BY <1>1, <1>2, <2>1, <2>2, FairPriceAssumption DEF Init, PriceTypeOK, Service, MaybeFactor
<1>4. Backed
  BY <1>1, <1>2 DEF Init, Backed, Backs, Service
<1>5. QED  BY <1>3, <1>4 DEF PriceInv

\* Publishing takes the time and a factor of the moment; it is only done on a live
\* link, when the moment is the last the pricer heard.
LEMMA PublishKeeps ==
  ASSUME PriceInv, PublishFairPrice
  PROVE  PriceInv'
<1>1. CASE ~MayPublish
  BY <1>1 DEF PublishFairPrice, PriceInv, PriceTypeOK, Backed, Backs
<1>2. CASE MayPublish
  <2> DEFINE b == book["pricer"]
             r == Compute(b)
             m == [ts |-> now, price |-> r.price, factor |-> r.factor, frozen |-> ~current]
  <2>1. /\ b \in Book /\ TwoSided(b) /\ heard.link = now /\ (current => heard.book = now)
        /\ current \in BOOLEAN /\ now \in Nat
    BY <1>2 DEF MayPublish, PriceInv, PriceTypeOK, Backed, Service
  <2>2. r.price \in Int /\ r.factor \in MaybeFactor /\ r.ema \in MaybeFactor
    BY <2>1, ComputeType DEF PriceInv
  <2>3. m \in Message /\ m.ts = now /\ m.frozen = ~current
    <3>1. (~current) \in BOOLEAN
      OBVIOUS
    <3> HIDE DEF b, r
    <3>2. QED  BY <2>1, <2>2, <3>1 DEF Message
  <2>4. ema' = r.ema /\ wire' = IF plink THEN Append(wire, m) ELSE wire
    BY <1>2 DEF PublishFairPrice
  <2>5. UNCHANGED <<mode, now, feed, connected, book, fair, current, heard>>
    BY DEF PublishFairPrice
  <2> HIDE DEF b, r, m
  <2>6. PriceTypeOK'
    BY <2>2, <2>3, <2>4, <2>5 DEF PriceInv, PriceTypeOK
  <2>7. Backs(m)
    <3>1. CASE current
      <4>1. ~m.frozen
        BY <2>3, <3>1
      <4>2. QED  BY <2>1, <2>3, <3>1, <4>1 DEF Backs
    <3>2. CASE ~current
      <4>1. m.frozen
        BY <2>3, <3>2
      <4>2. QED  BY <2>1, <2>3, <4>1 DEF Backs
    <3>3. QED  BY <3>1, <3>2
  <2>8. \A i \in 1..Len(wire') : Backs(wire'[i])
    BY <2>3, <2>4, <2>7 DEF PriceInv, PriceTypeOK, Backed
  <2>9. QED  BY <2>5, <2>6, <2>8 DEF PriceInv, Backed, Backs
<1>3. QED  BY <1>1, <1>2

\* Hearing later only backs more.
LEMMA HearsKeeps ==
  ASSUME PriceInv, Hears, now' \in Nat, now <= now', connected' \in [Service -> BOOLEAN],
         current' \in BOOLEAN, UNCHANGED <<wire, fair>>
  PROVE  heard' \in [link : Nat, book : Nat] /\ Backed'
<1>1. /\ now \in Nat /\ heard.link \in Nat /\ heard.book \in Nat
      /\ heard.link <= now /\ heard.book <= now
      /\ wire \in Seq(Message) /\ fair \in Message
  BY DEF PriceInv, PriceTypeOK, Backed
<1>2. /\ heard' \in [link : Nat, book : Nat]
      /\ heard.link <= heard'.link /\ heard'.link <= now'
      /\ heard.book <= heard'.book /\ heard'.book <= now'
      /\ (connected["pricer"] => heard.link = now)'
      /\ (connected["pricer"] /\ current => heard.book = now)'
  BY <1>1 DEF Hears
<1>3. ASSUME NEW m \in Message, Backs(m) PROVE Backs(m)'
  <2>1. m.ts \in Nat /\ heard'.link \in Nat /\ heard'.book \in Nat
    BY <1>2 DEF Message
  <2>2. QED  BY <1>1, <1>2, <1>3, <2>1 DEF Backs
<1>4. Backs(fair)'
  <2>1. PICK m : m = fair
    OBVIOUS
  <2>2. Backs(m)'
    BY <1>1, <1>3, <2>1 DEF PriceInv, Backed
  <2>3. QED  BY <2>1, <2>2 DEF Backs
<1>5. ASSUME NEW i \in 1..Len(wire) PROVE Backs(wire[i])'
  <2>1. PICK m : m = wire[i]
    OBVIOUS
  <2>2. m \in Message
    BY <1>1, <2>1
  <2>3. Backs(m)'
    BY <1>3, <2>1, <2>2 DEF PriceInv, Backed
  <2>4. QED  BY <2>1, <2>3 DEF Backs
<1>6. \A i \in 1..Len(wire') : Backs(wire[i])'
  BY <1>5
<1>7. QED  BY <1>2, <1>4, <1>6 DEF Backed

\* A task of either service's queue: a status or a book moves "heard" up to now, never
\* back.
LEMMA TakeFeedKeeps ==
  ASSUME PriceInv, NEW s \in Service, TakeFeed(s)
  PROVE  PriceInv'
<1>1. /\ feed[s] \in Seq(Task) /\ feed[s] # <<>>
      /\ Head(feed[s]) \in Task /\ Tail(feed[s]) \in Seq(Task)
  BY DEF TakeFeed, PriceInv, PriceTypeOK
<1>2. feed' \in [Service -> Seq(Task)]
  BY <1>1 DEF TakeFeed, PriceInv, PriceTypeOK
<1>3. /\ connected' \in [Service -> BOOLEAN] /\ book' \in [Service -> Book]
      /\ current' \in BOOLEAN
  <2>1. CASE Head(feed[s])[1] = "status"
    <3>1. Head(feed[s])[2] \in BOOLEAN
      BY <1>1, <2>1 DEF Task
    <3>2. QED  BY <2>1, <3>1 DEF TakeFeed, OnListenerStatus, PriceInv, PriceTypeOK
  <2>2. CASE Head(feed[s])[1] # "status"
    <3>1. Head(feed[s])[2] \in Book
      BY <1>1, <2>2 DEF Task
    <3>2. QED  BY <2>2, <3>1 DEF TakeFeed, OnOrderbook, PriceInv, PriceTypeOK
  <2>3. QED  BY <2>1, <2>2
<1>4. Hears /\ UNCHANGED <<mode, now, ema, wire, fair>>
  BY DEF TakeFeed
<1>5. now' \in Nat /\ now <= now'
  BY <1>4 DEF PriceInv, PriceTypeOK
<1>6. heard' \in [link : Nat, book : Nat] /\ Backed'
  BY <1>3, <1>4, <1>5, HearsKeeps
<1>7. PriceTypeOK'
  BY <1>2, <1>3, <1>4, <1>6 DEF PriceInv, PriceTypeOK
<1>8. QED  BY <1>6, <1>7 DEF PriceInv

\* What is lost of the wire leaves the rest as it was.
LEMMA WireCutKeeps ==
  ASSUME PriceInv, WireCut
  PROVE  wire' \in Seq(Message) /\ \A i \in 1..Len(wire') : Backs(wire'[i])
<1>1. wire \in Seq(Message) /\ Len(wire) \in Nat /\ \A i \in 1..Len(wire) : Backs(wire[i])
  BY DEF PriceInv, PriceTypeOK, Backed
<1>2. PICK k \in 0..Len(wire) : wire' = SubSeq(wire, 1, k)
  BY DEF WireCut
<1>3. Len(wire') = k /\ \A i \in 1..k : i \in 1..Len(wire) /\ wire'[i] = wire[i]
  BY <1>1, <1>2
<1>4. wire' \in Seq(Message)
  BY <1>1, <1>2
<1>5. QED  BY <1>1, <1>3, <1>4

\* The listener's broadcasts and the link notices only lengthen a queue.
LEMMA FeedGrows ==
  ASSUME PriceInv,
         feed' \in [Service -> Seq(Task)],
         UNCHANGED <<mode, now, connected, book, ema, wire, fair, current, heard>>
  PROVE  PriceInv'
  BY DEF PriceInv, PriceTypeOK, Backed, Backs

\* Every step of the system keeps the invariant.
LEMMA PriceStep == PriceInv /\ [Next]_vars => PriceInv'
<1> SUFFICES ASSUME PriceInv, [Next]_vars PROVE PriceInv'  OBVIOUS
<1>1. CASE Clock
  <2>1. Hears /\ now' = now + 1 /\ UNCHANGED <<mode, feed, connected, book, ema, wire, fair, current>>
    BY <1>1 DEF Clock
  <2>2. /\ now' \in Nat /\ now <= now' /\ connected' \in [Service -> BOOLEAN]
        /\ current' \in BOOLEAN
    BY <2>1 DEF PriceInv, PriceTypeOK
  <2>3. heard' \in [link : Nat, book : Nat] /\ Backed'
    BY <2>1, <2>2, HearsKeeps
  <2>4. PriceTypeOK'
    BY <2>1, <2>2, <2>3 DEF PriceInv, PriceTypeOK
  <2>5. QED  BY <2>3, <2>4 DEF PriceInv
<1>2. CASE MarketMoves
  <2>1. PICK b \in Books :
          feed' = [s \in Service |-> IF link[s] = "subscribed"
                                     THEN Append(feed[s], <<"book", b>>) ELSE feed[s]]
    BY <1>2 DEF MarketMoves
  <2>2. <<"book", b>> \in Task
    BY FairPriceAssumption DEF Task
  <2>3. feed' \in [Service -> Seq(Task)]
    <3>1. ASSUME NEW s \in Service
          PROVE  feed[s] \in Seq(Task) /\ Append(feed[s], <<"book", b>>) \in Seq(Task)
      BY <2>2 DEF PriceInv, PriceTypeOK
    <3>2. QED  BY <2>1, <3>1
  <2>4. UNCHANGED <<mode, now, connected, book, ema, wire, fair, current, heard>>
    BY <1>2 DEF MarketMoves
  <2>5. QED  BY <2>3, <2>4, FeedGrows
<1>3. CASE PricerLinkUp
  BY <1>3 DEF PricerLinkUp, PriceInv, PriceTypeOK, Backed, Backs
<1>4. CASE PricerLinkDown
  <2>1. wire' \in Seq(Message) /\ \A i \in 1..Len(wire') : Backs(wire'[i])
    BY <1>4, WireCutKeeps DEF PricerLinkDown
  <2>2. UNCHANGED <<mode, now, feed, connected, book, ema, fair, current, heard>>
    BY <1>4 DEF PricerLinkDown
  <2>3. QED  BY <2>1, <2>2 DEF PriceInv, PriceTypeOK, Backed, Backs
<1>5. ASSUME NEW s \in Service, LinkUp(s) \/ LinkDown(s) PROVE PriceInv'
  <2>1. <<"status", TRUE>> \in Task /\ <<"status", FALSE>> \in Task
    BY DEF Task
  <2>2. feed' \in [Service -> Seq(Task)]
    <3>1. /\ feed \in [Service -> Seq(Task)]
          /\ \A t \in Task : Append(feed[s], t) \in Seq(Task)
      BY DEF PriceInv, PriceTypeOK
    <3>2. PICK t \in Task : feed' = [feed EXCEPT ![s] = Append(feed[s], t)]
      BY <1>5, <2>1 DEF LinkUp, LinkDown
    <3>3. QED  BY <3>1, <3>2
  <2>3. UNCHANGED <<mode, now, connected, book, ema, wire, fair, current, heard>>
    BY <1>5 DEF LinkUp, LinkDown
  <2>4. QED  BY <2>2, <2>3, FeedGrows
<1>6. ASSUME NEW s \in Service, TakeFeed(s) PROVE PriceInv'
  BY <1>6, TakeFeedKeeps
<1>7. CASE TimerFires
  BY <1>7 DEF TimerFires, PriceInv, PriceTypeOK, Backed, Backs
<1>8. CASE PublishFairPrice
  BY <1>8, PublishKeeps
<1>9. CASE PricerRestarts
  <2>1. NoBook \in Book /\ NaN \in MaybeFactor
    BY DEF NoBook, Book, MaybeFactor
  <2>2. wire' \in Seq(Message) /\ \A i \in 1..Len(wire') : Backs(wire'[i])
    BY <1>9, WireCutKeeps DEF PricerRestarts
  <2>3. UNCHANGED <<mode, now, fair, heard>> /\ current' = FALSE /\ ~connected'["pricer"]
    BY <1>9 DEF PricerRestarts, PriceInv, PriceTypeOK, Service
  <2>4. PriceTypeOK'
    <3>1. current' \in BOOLEAN
      BY <2>3
    <3>2. /\ feed' \in [Service -> Seq(Task)] /\ connected' \in [Service -> BOOLEAN]
          /\ book' \in [Service -> Book]
      BY <1>9, <2>1 DEF PricerRestarts, PriceInv, PriceTypeOK, Service
    <3>3. ema' \in MaybeFactor
      BY <1>9, <2>1 DEF PricerRestarts
    <3>4. QED  BY <2>2, <2>3, <3>1, <3>2, <3>3 DEF PriceInv, PriceTypeOK
  <2>5. Backed'
    BY <2>2, <2>3 DEF PriceInv, Backed, Backs
  <2>6. QED  BY <2>4, <2>5 DEF PriceInv
<1>10. CASE OnFairPrice
  <2>1. wire \in Seq(Message) /\ wire # <<>> /\ Len(wire) \in Nat /\ Len(wire) > 0
    BY <1>10 DEF OnFairPrice, PriceInv, PriceTypeOK
  <2>2. /\ fair' = wire[1] /\ wire' \in Seq(Message) /\ fair' \in Message
        /\ \A i \in 1..Len(wire') : i + 1 \in 1..Len(wire) /\ wire'[i] = wire[i + 1]
    BY <1>10, <2>1 DEF OnFairPrice
  <2>3. UNCHANGED <<mode, now, feed, connected, book, ema, current, heard>>
    BY <1>10 DEF OnFairPrice
  <2>4. PriceTypeOK'
    BY <2>2, <2>3 DEF PriceInv, PriceTypeOK
  <2>5. Backs(fair') /\ \A i \in 1..Len(wire') : Backs(wire'[i])
    BY <2>1, <2>2 DEF PriceInv, Backed
  <2>6. QED  BY <2>3, <2>4, <2>5 DEF PriceInv, Backed, Backs
<1>11. CASE UNCHANGED vars
  BY <1>11 DEF vars, PriceInv, PriceTypeOK, Backed, Backs
<1>12. QED
  BY <1>1, <1>2, <1>3, <1>4, <1>5, <1>6, <1>7, <1>8, <1>9, <1>10, <1>11 DEF Next

\* The invariant holds of every state the services can reach.
THEOREM PriceInvariant == Spec => []PriceInv
<1>1. QED  BY PriceInit, PriceStep, PTL DEF Spec
-----------------------------------------------------------------------------
(* The properties.                                                         *)

\* A smaller factor of the same mid is a smaller price.
LEMMA ScaleMonotone ==
  ASSUME NEW x \in Int, NEW y \in Int, NEW m \in Nat, x <= y
  PROVE  x * m <= y * m
<1>1. (y - x) * m >= 0
  <2>1. ASSUME NEW k \in Nat PROVE k * m >= 0  OBVIOUS
  <2>2. QED  BY <2>1
<1>2. QED  BY <1>1

\* OrderHandler::build_price_info never prices further than cap_bp from the trader's
\* own mid, whatever book the factor was computed from, however it was smoothed
\* and however late it came.
THEOREM FairStaysNearMid == Spec => []FairNearMid
<1>1. PriceInv => FairNearMid
  <2> SUFFICES ASSUME PriceInv, MayDecide PROVE FairNearMid
    BY DEF FairNearMid
  <2> DEFINE b == book["trader"]
             m == b.bid + b.ask
  <2>1. b.bid \in Nat /\ b.ask \in Nat /\ m \in Nat
    BY DEF PriceInv, PriceTypeOK, Service, Book
  <2>2. ASSUME NEW f \in Allowed PROVE f * m \in (Unit - Cap) * m .. (Unit + Cap) * m
    <3>1. f \in Int /\ Unit - Cap \in Int /\ Unit + Cap \in Int
          /\ Unit - Cap <= f /\ f <= Unit + Cap
      BY FairPriceAssumption DEF Allowed
    <3>2. (Unit - Cap) * m <= f * m /\ f * m <= (Unit + Cap) * m
      BY <3>1, <2>1, ScaleMonotone
    <3>3. QED  BY <3>1, <3>2, <2>1
  <2>3. CASE FactorApplied
    <3>1. fair.factor \in Allowed
      BY <2>3 DEF FactorApplied, PriceInv, PriceTypeOK, Message, MaybeFactor
    <3>2. QED  BY <2>2, <2>3, <3>1 DEF FairNearMid, PriceInfo
  <2>4. CASE ~FactorApplied
    <3>1. Unit \in Allowed
      BY NaNIsNoFactor
    <3>2. QED  BY <2>2, <2>4, <3>1 DEF FairNearMid, PriceInfo, Mid
  <2>5. QED  BY <2>3, <2>4
<1>2. QED  BY <1>1, PriceInvariant, PTL

\* With ageing on (fair_price_max_age_ns_ > 0), a pricer that has been for longer than
\* that without a link that brought it a book is priced without, however late its last
\* messages come in; but for a price frozen at a reconnect, which ages from the link.
THEOREM DeadPriceIsNotUsed ==
  ASSUME MaxAge > 0
  PROVE  Spec => []DeadPriceAgesOut
<1>1. PriceInv => DeadPriceAgesOut
  <2> DEFINE h == IF fair.frozen THEN heard.link ELSE heard.book
  <2> SUFFICES ASSUME PriceInv, FactorApplied PROVE now - h <= MaxAge
    BY DEF DeadPriceAgesOut
  <2>1. now - fair.ts <= MaxAge
    BY FairPriceAssumption DEF FactorApplied, Usable
  <2>2. now \in Nat /\ h \in Nat /\ fair.ts \in Nat /\ fair.ts <= h
    BY DEF PriceInv, PriceTypeOK, Backed, Backs, Message
  <2> HIDE DEF h
  <2>3. QED  BY <2>1, <2>2, FairPriceAssumption
<1>2. QED  BY <1>1, PriceInvariant, PTL
-----------------------------------------------------------------------------
(* Quoting: recursion over a sequence of orders.                           *)

\* Induction on the positions of a sequence, by a set of them.
LEMMA Reaches ==
  ASSUME NEW n \in Nat, NEW T, 0 \in T, \A i \in 1..n : i - 1 \in T => i \in T
  PROVE  \A i \in 0..n : i \in T
<1> DEFINE R == OpToRel(<, Nat)
           U == {i \in 0..n : i \notin T}
<1>1. IsWellFoundedOn(R, Nat)
  BY NatLessThanWellFounded
<1>2. \A a, b \in Nat : a < b => <<a, b>> \in R
  BY DEF OpToRel
<1> HIDE DEF R
<1> SUFFICES ASSUME U # {} PROVE FALSE
  OBVIOUS
<1>3. U \subseteq Nat
  OBVIOUS
<1> HIDE DEF U
<1>4. PICK m \in U : \A k \in U : <<k, m>> \notin R
  BY <1>1, <1>3, WFMin
<1>5. m \in 0..n /\ m \notin T /\ m # 0
  BY <1>4 DEF U
<1>6. m \in 1..n /\ m - 1 \in Nat /\ m - 1 < m /\ m - 1 \in 0..n /\ m \in Nat
  BY <1>5
<1>7. m - 1 \in U
  BY <1>5, <1>6 DEF U
<1> QED BY <1>2, <1>4, <1>6, <1>7

\* f is what v becomes as it is passed through the steps G.
Follows(f, n, V, v, G) ==
  f \in [0..n -> V] /\ f[0] = v /\ \A i \in 1..n : f[i] = G[i][f[i - 1]]

\* A recursion over the positions of a sequence is satisfied by some function.
LEMMA RecursionExists ==
  ASSUME NEW n \in Nat, NEW V, NEW v \in V, NEW G \in [1..n -> [V -> V]]
  PROVE  \E f : Follows(f, n, V, v, G)
<1> DEFINE Ok(k, f) == f[0] = v /\ \A i \in 1..k : f[i] = G[i][f[i - 1]]
           T == {k \in 0..n : \E f \in [0..k -> V] : Ok(k, f)}
<1>1. 0 \in T
  <2> DEFINE f == [i \in 0..0 |-> v]
  <2>1. f \in [0..0 -> V] /\ Ok(0, f)
    OBVIOUS
  <2>2. 0 \in 0..n
    OBVIOUS
  <2> HIDE DEF f, Ok
  <2> QED BY <2>1, <2>2
<1>2. ASSUME NEW k \in 1..n, k - 1 \in T PROVE k \in T
  <2>1. PICK f \in [0..(k - 1) -> V] : Ok(k - 1, f)
    BY <1>2
  <2> DEFINE g == [i \in 0..k |-> IF i = k THEN G[k][f[k - 1]] ELSE f[i]]
  <2>2. f[k - 1] \in V /\ G[k] \in [V -> V]
    OBVIOUS
  <2>3. G[k][f[k - 1]] \in V
    BY <2>2
  <2>4. g \in [0..k -> V]
    BY <2>3
  <2>5. g[0] = v
    BY <2>1
  <2>6. ASSUME NEW i \in 1..k PROVE g[i] = G[i][g[i - 1]]
    <3>1. g[i - 1] = f[i - 1]
      OBVIOUS
    <3>2. CASE i = k
      <4>1. g[k] = G[k][f[k - 1]]
        OBVIOUS
      <4> QED BY <3>1, <3>2, <4>1
    <3>3. CASE i # k
      BY <2>1, <3>1, <3>3
    <3> QED BY <3>2, <3>3
  <2>7. Ok(k, g)
    BY <2>5, <2>6
  <2>8. k \in 0..n
    OBVIOUS
  <2> HIDE DEF g, Ok
  <2> QED BY <2>4, <2>7, <2>8
<1> HIDE DEF T
<1>3. \A i \in 0..n : i \in T
  BY <1>1, <1>2, Reaches
<1>4. n \in T
  BY <1>3
<1> QED BY <1>4 DEF T, Follows
-----------------------------------------------------------------------------
(* Quoting: rounding.                                                      *)

\* A product is monotone in a factor.
LEMMA Scaled ==
  ASSUME NEW a \in Nat, NEW x \in Int, NEW y \in Int, x <= y
  PROVE  a * x \in Int /\ a * y \in Int /\ a * x <= a * y
  OBVIOUS

\* What a quotient is.
LEMMA Quotient ==
  ASSUME NEW a \in Int, NEW b \in Nat \ {0}
  PROVE  /\ a \div b \in Int
         /\ b * (a \div b) <= a /\ a < b * (a \div b) + b
  OBVIOUS

\* A quotient bounded from above and below.
LEMMA QuotientBounds ==
  ASSUME NEW a \in Int, NEW b \in Nat \ {0}, NEW k \in Int
  PROVE  /\ a < b * k + b => a \div b <= k
         /\ b * k <= a => k <= a \div b
<1> DEFINE q == a \div b
<1>1. q \in Int /\ b * q <= a /\ a < b * q + b
  BY Quotient
<1> HIDE DEF q
<1>2. q >= k + 1 => b * (k + 1) <= b * q
  BY <1>1, Scaled
<1>3. b * (k + 1) = b * k + b
  OBVIOUS
<1>4. q + 1 <= k => b * (q + 1) <= b * k
  BY <1>1, Scaled
<1>5. b * (q + 1) = b * q + b
  BY <1>1
<1> QED BY <1>1, <1>2, <1>3, <1>4, <1>5 DEF q

\* Rounding to a grid does not leave the grid points around.
LEMMA RoundBounds ==
  ASSUME NEW p \in Int, NEW t \in Nat \ {0}, NEW k \in Int
  PROVE  /\ Round(p, t) \in Int
         /\ p <= k * t => Round(p, t) <= k /\ Round(p, t) * t <= k * t
         /\ k * t <= p => k <= Round(p, t) /\ k * t <= Round(p, t) * t
<1>1. 2 * t \in Nat \ {0} /\ 2 * p + t \in Int
  OBVIOUS
<1>2. (2 * t) * k = 2 * (k * t) /\ k * t \in Int
  OBVIOUS
<1>3. Round(p, t) \in Int
  BY <1>1, Quotient DEF Round
<1>4. p <= k * t => Round(p, t) <= k
  <2>1. p <= k * t => 2 * p + t < (2 * t) * k + 2 * t
    BY <1>2
  <2> QED BY <1>1, <2>1, QuotientBounds DEF Round
<1>5. k * t <= p => k <= Round(p, t)
  <2>1. k * t <= p => (2 * t) * k <= 2 * p + t
    BY <1>2
  <2> QED BY <1>1, <2>1, QuotientBounds DEF Round
<1> HIDE DEF Round
<1>6. \A x, y \in Int : x <= y => x * t <= y * t
  BY Scaled
<1> QED BY <1>3, <1>4, <1>5, <1>6

\* Rounding is monotone, and moves with the grid.
LEMMA RoundShift ==
  ASSUME NEW p \in Int, NEW x \in Int, NEW t \in Nat \ {0}, NEW k \in Int, p + k * t <= x
  PROVE  Round(p, t) + k <= Round(x, t) /\ (Round(p, t) + k) * t <= Round(x, t) * t
<1> DEFINE r == Round(p, t)
<1>1. 2 * t \in Nat \ {0} /\ 2 * p + t \in Int /\ 2 * x + t \in Int /\ k * t \in Int
  OBVIOUS
<1>2. r \in Int /\ (2 * t) * r <= 2 * p + t
  BY <1>1, Quotient DEF Round
<1>3. Round(x, t) \in Int
  BY RoundBounds
<1> HIDE DEF r
<1>4. (2 * t) * (r + k) = (2 * t) * r + 2 * (k * t) /\ (2 * t) * r \in Int
  BY <1>2
<1>5. (2 * t) * (r + k) <= 2 * x + t
  BY <1>1, <1>2, <1>4
<1>6. r + k <= Round(x, t)
  BY <1>1, <1>2, <1>5, QuotientBounds DEF Round
<1> HIDE DEF Round
<1>7. \A y, z \in Int : y <= z => y * t <= z * t
  BY Scaled
<1> QED BY <1>2, <1>3, <1>6, <1>7 DEF r

\* What is left on the grid of prices is a multiple of the tick.
LEMMA OnGrid ==
  ASSUME NEW a \in Nat, NEW t \in Nat \ {0}, a % t = 0
  PROVE  \E k \in Nat : a = k * t
<1> DEFINE k == a \div t
<1>1. a = t * k /\ k \in Nat
  OBVIOUS
<1> HIDE DEF k
<1>2. t * k = k * t
  BY <1>1
<1> QED BY <1>1, <1>2
-----------------------------------------------------------------------------
(* Quoting: the caps and the ladder.                                       *)

\* What a decision is given.
Given == params \in Params /\ market \in Market /\ position \in Int

\* The touch is on the tick grid, and at least a tick wide.
LEMMA MarketFacts ==
  ASSUME Given
  PROVE  /\ market.bid \in Nat /\ market.ask \in Nat /\ 0 < market.bid /\ market.bid < market.ask
         /\ market.fair2 \in Int /\ market.vol \in Nat
         /\ \E k \in Nat : market.bid = k * Tick
         /\ \E k \in Nat : market.ask = k * Tick
         /\ market.bid + Tick <= market.ask
         /\ Tick \in Nat \ {0} /\ Whole \in Nat \ {0} /\ Lot \in Nat \ {0}
<1>1. Tick \in Nat \ {0} /\ Whole \in Nat \ {0} /\ Lot \in Nat \ {0}
  BY QuotingAssumption
<1>2. PICK b \in Touches : market \in [bid : {b.bid}, ask : {b.ask}, vol : Vols,
                                       fair2 : {b.bid + b.ask + d : d \in FairOffsets}]
  BY DEF Given, Market
<1>3. market.bid = b.bid /\ market.ask = b.ask /\ market.vol \in Vols
      /\ market.fair2 \in {b.bid + b.ask + d : d \in FairOffsets}
  BY <1>2
<1>4. b.bid \in Nat /\ b.ask \in Nat /\ 0 < b.bid /\ b.bid < b.ask
      /\ b.bid % Tick = 0 /\ b.ask % Tick = 0
  BY QuotingAssumption
<1>5. market.fair2 \in Int /\ market.vol \in Nat
  <2>1. PICK d \in FairOffsets : market.fair2 = b.bid + b.ask + d
    BY <1>3
  <2>2. d \in Int /\ market.vol \in Nat
    BY <1>3, QuotingAssumption
  <2> QED BY <1>4, <2>1, <2>2
<1>6. PICK k \in Nat : b.bid = k * Tick
  BY <1>1, <1>4, OnGrid
<1>7. PICK m \in Nat : b.ask = m * Tick
  BY <1>1, <1>4, OnGrid
<1>8. b.bid + Tick <= b.ask
  <2>1. k < m
    <3>1. m <= k => m * Tick <= k * Tick
      BY <1>1, Scaled
    <3> QED BY <1>4, <1>6, <1>7, <3>1
  <2>2. (k + 1) * Tick <= m * Tick
    BY <1>1, <2>1, Scaled
  <2>3. (k + 1) * Tick = k * Tick + Tick
    BY <1>1
  <2> QED BY <1>6, <1>7, <2>2, <2>3
<1> QED BY <1>1, <1>3, <1>4, <1>5, <1>6, <1>7, <1>8

\* The half-spread is a number of bp, and none too small.
LEMMA DeltaNat ==
  ASSUME Given, NEW lean \in {1, -1}
  PROVE  Delta(lean) \in Nat
<1> DEFINE used == IF params.inDollar THEN position * Mid2 ELSE position
           full == IF params.inDollar THEN 2 * params.positionLimit ELSE params.positionLimit
           num == params.spreadBp * market.vol * (10 * full + lean * params.skewTenths * used)
<1>1. /\ params.spreadBp \in Nat /\ params.skewTenths \in Nat /\ params.inDollar \in BOOLEAN
      /\ params.positionLimit \in Nat \ {0} /\ params.spreadCapBp \in Nat \cup {NoCap}
  BY DEF Given, Params
<1>2. market.vol \in Nat /\ Mid2 \in Int /\ position \in Int
  BY MarketFacts DEF Mid2, Given
<1>3. full \in Nat \ {0} /\ used \in Int
  BY <1>1, <1>2
<1> HIDE DEF full, used
<1>4. num \in Int
  <2>1. lean * params.skewTenths \in Int
    BY <1>1
  <2>2. 10 * full + lean * params.skewTenths * used \in Int
    BY <1>3, <2>1
  <2>3. params.spreadBp * market.vol \in Int
    BY <1>1, <1>2
  <2> QED BY <2>2, <2>3
<1> HIDE DEF num
<1>5. 10 * full \in Nat \ {0}
  BY <1>3
<1>6. num \div (10 * full) \in Int
  BY <1>4, <1>5, Quotient
<1>7. \A d \in Int : ClipDelta(d) \in Nat
  BY <1>1 DEF ClipDelta, Least, Most, NoCap
<1>8. Delta(lean) = ClipDelta(num \div (10 * full))
  BY DEF Delta, num, full, used
<1> QED BY <1>6, <1>7, <1>8

\* A price shaded by some bp is a price.
LEMMA ShadedInt ==
  ASSUME Given, NEW bp \in Int
  PROVE  Shaded(bp) \in Int
<1>1. market.fair2 \in Int /\ Whole \in Nat \ {0}
  BY MarketFacts
<1>2. Whole + bp \in Int
  BY <1>1
<1>3. market.fair2 * (Whole + bp) \in Int /\ 2 * Whole \in Nat \ {0}
  BY <1>1, <1>2
<1> HIDE DEF Round
<1> QED BY <1>3, RoundBounds DEF Shaded

\* The caps hold a quote inside the touch: a tick below the best ask, a tick above
\* the best bid.
LEMMA LimitsInside ==
  ASSUME Given
  PROVE  /\ BidLimit \in Int /\ BidLimit <= market.ask - Tick
         /\ AskLimit \in Int /\ AskLimit >= market.bid + Tick
<1>1. /\ market.bid \in Nat /\ market.ask \in Nat /\ market.bid + Tick <= market.ask
      /\ Tick \in Nat \ {0} /\ Whole \in Nat \ {0}
  BY MarketFacts
<1>2. params.bboCapBp \in Nat \cup {NoCap}
  BY DEF Given, Params
<1>3. CASE params.bboCapBp = NoCap
  BY <1>1, <1>3 DEF BidLimit, AskLimit
<1>4. CASE params.bboCapBp # NoCap
  <2> DEFINE c == params.bboCapBp
  <2>1. c \in Nat
    BY <1>2, <1>4
  <2> HIDE DEF c
  <2>2. market.bid * (Whole - c) \in Int /\ market.bid * (Whole - c) <= Whole * market.bid
    <3>1. market.bid * (Whole - c) <= market.bid * Whole /\ market.bid * (Whole - c) \in Int
      BY <1>1, <2>1, Scaled
    <3> QED BY <1>1, <3>1
  <2>3. market.ask * (Whole + c) \in Int /\ market.ask * (Whole + c) >= Whole * market.ask
    <3>1. market.ask * Whole <= market.ask * (Whole + c) /\ market.ask * (Whole + c) \in Int
      BY <1>1, <2>1, Scaled
    <3> QED BY <1>1, <3>1
  <2> DEFINE x == market.bid * (Whole - c)
             y == market.ask * (Whole + c)
  <2>4. BidLimit = x \div Whole /\ AskLimit = (y + Whole - 1) \div Whole
    BY <1>4 DEF BidLimit, AskLimit, Ceil, c
  <2>5. x \in Int /\ x <= Whole * market.bid /\ y \in Int /\ y >= Whole * market.ask
    BY <2>2, <2>3
  <2> HIDE DEF x, y
  <2>6. Whole * market.bid \in Int /\ Whole * market.ask \in Int /\ y + Whole - 1 \in Int
    BY <1>1, <2>5
  <2> DEFINE z == y + Whole - 1
  <2>7. x \div Whole \in Int /\ x \div Whole <= market.bid
    <3>1. x < Whole * market.bid + Whole
      BY <1>1, <2>5, <2>6
    <3>2. x \in Int /\ Whole \in Nat \ {0} /\ market.bid \in Int
      BY <1>1, <2>5
    <3>3. x \div Whole \in Int
      BY <3>2, Quotient
    <3> QED BY <3>1, <3>2, <3>3, QuotientBounds
  <2>8. z \div Whole \in Int /\ market.ask <= z \div Whole
    <3>1. Whole * market.ask <= z /\ z \in Int
      BY <1>1, <2>5, <2>6
    <3> HIDE DEF z
    <3> QED BY <1>1, <3>1, Quotient, QuotientBounds
  <2> QED BY <1>1, <2>4, <2>7, <2>8
<1> QED BY <1>3, <1>4

\* So is every level of a ladder.
LEMMA LevelsInside ==
  ASSUME Given, NEW i \in Nat
  PROVE  /\ BidLevel(i) \in Int /\ BidLevel(i) <= market.ask - Tick
         /\ AskLevel(i) \in Int /\ AskLevel(i) >= market.bid + Tick
<1>1. /\ BidLimit \in Int /\ BidLimit <= market.ask - Tick
      /\ AskLimit \in Int /\ AskLimit >= market.bid + Tick
  BY LimitsInside
<1>2. market.bid \in Nat /\ market.ask \in Nat /\ Tick \in Nat \ {0}
  BY MarketFacts
<1>3. params.interval \in Nat /\ params.tickBased \in BOOLEAN
  BY DEF Given, Params
<1>4. Delta(1) \in Nat /\ Delta(-1) \in Nat
  BY DeltaNat
<1>5. i * params.interval \in Nat /\ i * params.interval * Tick \in Nat
  BY <1>2, <1>3
<1> HIDE DEF Delta, Shaded, BidLimit, AskLimit
<1>6. /\ Shaded(-Delta(1)) \in Int /\ Shaded(-Delta(1) - i * params.interval) \in Int
      /\ Shaded(Delta(-1)) \in Int /\ Shaded(Delta(-1) + i * params.interval) \in Int
  BY <1>4, <1>5, ShadedInt
<1> QED BY <1>1, <1>2, <1>3, <1>5, <1>6 DEF BidLevel, AskLevel, Least, Most
-----------------------------------------------------------------------------
(* Quoting: what the resting orders leave of the wanted prices.            *)

\* The recursion of choose_orders_to_cancel: what each resting order leaves unclaimed.
LEMMA LeftOverFacts ==
  ASSUME NEW os, Len(os) \in Nat, NEW isBid
  PROVE  LET n == Len(os)
             L == LeftOver(os, isBid)
         IN /\ L \in [0..n -> SUBSET DOMAIN Wanted(isBid)]
            /\ L[0] = DOMAIN Wanted(isBid)
            /\ \A i \in 1..n : L[i] = IF os[i].isBid = isBid
                                      THEN L[i - 1] \ Claim(os[i].price, L[i - 1]) ELSE L[i - 1]
<1> DEFINE n == Len(os)
           W == DOMAIN Wanted(isBid)
           Rest(i, v) == IF os[i].isBid = isBid THEN v \ Claim(os[i].price, v) ELSE v
           G == [i \in 1..n |-> [v \in SUBSET W |-> Rest(i, v)]]
           Is(f) == f = [i \in 0..n |-> IF i = 0 THEN W ELSE Rest(i, f[i - 1])]
           L == LeftOver(os, isBid)
<1>0. n \in Nat
  OBVIOUS
<1>1. L = CHOOSE f : Is(f)
  BY DEF LeftOver
<1> HIDE DEF n, W, L
<1>2. G \in [1..n -> [SUBSET W -> SUBSET W]]
  OBVIOUS
<1>3. \A i \in 1..n, v \in SUBSET W : G[i][v] = Rest(i, v)
  OBVIOUS
<1> HIDE DEF G
<1>4. PICK f \in [0..n -> SUBSET W] : f[0] = W /\ \A i \in 1..n : f[i] = G[i][f[i - 1]]
  <2> DEFINE V == SUBSET W
  <2>1. W \in V /\ G \in [1..n -> [V -> V]]
    BY <1>2
  <2> HIDE DEF V
  <2>2. \E f : Follows(f, n, V, W, G)
    BY <1>0, <2>1, RecursionExists
  <2> QED BY <2>2 DEF V, Follows
<1>5. Is(f)
  <2>1. \A i \in 1..n : f[i - 1] \in SUBSET W
    BY <1>0
  <2>2. \A i \in 1..n : f[i] = Rest(i, f[i - 1])
    BY <1>3, <1>4, <2>1
  <2> HIDE DEF Rest
  <2>3. \A i \in 0..n : f[i] = IF i = 0 THEN W ELSE Rest(i, f[i - 1])
    BY <1>0, <1>4, <2>2
  <2> QED BY <2>3
<1>6. Is(L)
  <2> HIDE DEF Is
  <2> QED BY <1>1, <1>5
<1>7. L[0] = W /\ DOMAIN L = 0..n /\ L = [i \in 0..n |-> L[i]]
  BY <1>0, <1>6
<1>8. \A i \in 1..n : L[i] = Rest(i, L[i - 1])
  <2> HIDE DEF Rest
  <2> QED BY <1>0, <1>6
<1>9. \A i \in 0..n : L[i] \in SUBSET W
  <2> DEFINE T == {i \in 0..n : L[i] \in SUBSET W}
  <2>1. 0 \in T
    BY <1>0, <1>7
  <2>2. \A i \in 1..n : i - 1 \in T => i \in T
    BY <1>0, <1>8
  <2> HIDE DEF T
  <2>3. \A i \in 0..n : i \in T
    BY <1>0, <2>1, <2>2, Reaches
  <2> QED BY <2>3 DEF T
<1>10. L \in [0..n -> SUBSET W]
  BY <1>7, <1>9
<1> QED BY <1>7, <1>8, <1>10 DEF n, W, L

\* A finite set of prices can be put in ascending order, and in one way only: the
\* price of rank i comes i-th.
LEMMA AscendingExists ==
  ASSUME NEW S, \A c \in S : c \in Int, IsFiniteSet(S)
  PROVE  \E ps \in SetToSeqs(S) : \A i, j \in DOMAIN ps : i < j => ps[i] < ps[j]
<1> DEFINE n == Cardinality(S)
           D == 1..n
           below(c) == {d \in S : d <= c}
           rank == [c \in S |-> Cardinality(below(c))]
<1>0. \A c \in S : c \in Int
  OBVIOUS
<1>1. n \in Nat
  BY FS_CardinalityType
<1>2. IsFiniteSet(D) /\ Cardinality(D) = n
  BY <1>1, FS_Interval
<1>3. \A c \in S : IsFiniteSet(below(c)) /\ Cardinality(below(c)) \in D
  <2> SUFFICES ASSUME NEW c \in S PROVE IsFiniteSet(below(c)) /\ Cardinality(below(c)) \in D
    OBVIOUS
  <2>1. below(c) \in SUBSET S /\ c \in below(c)
    OBVIOUS
  <2> HIDE DEF below
  <2>2. IsFiniteSet(below(c)) /\ Cardinality(below(c)) <= n
    BY <1>1, <2>1, FS_Subset
  <2>3. Cardinality(below(c)) \in Nat /\ Cardinality(below(c)) # 0
    BY <2>1, <2>2, FS_CardinalityType, FS_EmptySet
  <2> QED BY <1>1, <2>2, <2>3
<1>4. ASSUME NEW c \in S, NEW d \in S, c < d PROVE Cardinality(below(c)) < Cardinality(below(d))
  <2>1. below(c) \in SUBSET below(d) /\ below(c) # below(d)
    <3>1. d \in below(d) /\ d \notin below(c)
      BY <1>4
    <3>2. below(c) \in SUBSET below(d)
      BY <1>0, <1>4
    <3> QED BY <3>1, <3>2
  <2>2. IsFiniteSet(below(d)) /\ Cardinality(below(d)) \in Nat /\ Cardinality(below(c)) \in Nat
    BY <1>1, <1>3
  <2> HIDE DEF below
  <2>3. Cardinality(below(c)) <= Cardinality(below(d)) /\ Cardinality(below(c)) # Cardinality(below(d))
    BY <2>1, <2>2, FS_Subset
  <2> QED BY <2>2, <2>3
<1>5. rank \in [S -> D] /\ \A c \in S : rank[c] = Cardinality(below(c))
  BY <1>3
<1> HIDE DEF below
<1>6. \A c, d \in S : c < d => rank[c] < rank[d]
  BY <1>4, <1>5
<1> HIDE DEF rank
<1>7. \A c, d \in S : rank[c] \in Int /\ rank[d] \in Int /\ (rank[c] = rank[d] => c = d)
  BY <1>1, <1>5, <1>6
<1>8. rank \in Injection(S, D)
  BY <1>5, <1>7 DEF Injection, IsInjective
<1> HIDE DEF D, n
<1>9. rank \in Surjection(S, D)
  BY <1>1, <1>2, <1>8, FS_Injection DEF n
<1>10. \A i \in D : \E c \in S : rank[c] = i
  BY <1>9 DEF Surjection
<1> DEFINE ps == [i \in D |-> CHOOSE c \in S : rank[c] = i]
<1>11. ps \in [D -> S] /\ \A i \in D : rank[ps[i]] = i
  BY <1>10
<1> HIDE DEF ps
<1>12. ps \in SetToSeqs(S)
  <2>1. \A i, j \in D : i # j => ps[i] # ps[j]
    BY <1>11
  <2> QED BY <1>11, <2>1 DEF SetToSeqs, D, n
<1>13. \A i, j \in D : i < j => ps[i] < ps[j]
  <2> SUFFICES ASSUME NEW i \in D, NEW j \in D, i < j, ~(ps[i] < ps[j]) PROVE FALSE
    OBVIOUS
  <2>1. ps[i] \in S /\ ps[j] \in S /\ rank[ps[i]] = i /\ rank[ps[j]] = j /\ i \in Int /\ j \in Int
    BY <1>1, <1>11 DEF D
  <2>2. ps[j] < ps[i] \/ ps[j] = ps[i]
    BY <1>0, <2>1
  <2> QED BY <1>6, <2>1, <2>2
<1>14. DOMAIN ps = D
  BY <1>11
<1> QED BY <1>12, <1>13, <1>14

\* What Ascending returns.
LEMMA AscendingFacts ==
  ASSUME NEW S, \A c \in S : c \in Int, IsFiniteSet(S)
  PROVE  LET n == Cardinality(S)
             A == Ascending(S)
         IN /\ n \in Nat /\ A \in [1..n -> S]
            /\ \A x \in S : \E i \in 1..n : A[i] = x
            /\ \A i, j \in 1..n : A[i] = A[j] => i = j
<1> DEFINE n == Cardinality(S)
           A == Ascending(S)
           D == 1..n
<1>0. A \in SetToSeqs(S)
  BY AscendingExists DEF Ascending
<1> HIDE DEF A
<1>1. n \in Nat
  BY FS_CardinalityType
<1>2. A \in [D -> S] /\ \A i, j \in D : i # j => A[i] # A[j]
  BY <1>0 DEF SetToSeqs
<1>3. IsFiniteSet(D) /\ Cardinality(D) = n
  BY <1>1, FS_Interval
<1>4. A \in Injection(D, S)
  BY <1>2 DEF Injection, IsInjective
<1> HIDE DEF n, D
<1>5. A \in Surjection(D, S)
  BY <1>3, <1>4, FS_Injection DEF n
<1> QED BY <1>1, <1>2, <1>5 DEF Surjection, D, n, A

\* The prices wanted are finitely many.
LEMMA WantedFinite ==
  ASSUME Given, NEW isBid \in BOOLEAN
  PROVE  IsFiniteSet(DOMAIN Wanted(isBid)) /\ DOMAIN Wanted(isBid) \subseteq Int
<1>0. params.orderNum \in Nat /\ market.bid \in Nat /\ market.ask \in Nat /\ Tick \in Nat
  BY MarketFacts DEF Given, Params
<1>1. CASE liquidate
  <2>1. DOMAIN Wanted(isBid) \subseteq {market.bid + Tick, market.ask - Tick}
    BY <1>1 DEF Wanted, Liquidation
  <2>2. IsFiniteSet({market.bid + Tick, market.ask - Tick})
    <3>1. IsFiniteSet({market.bid + Tick}) /\ IsFiniteSet({market.ask - Tick})
      BY FS_Singleton
    <3>2. {market.bid + Tick, market.ask - Tick} = {market.bid + Tick} \cup {market.ask - Tick}
      OBVIOUS
    <3>3. IsFiniteSet({market.bid + Tick} \cup {market.ask - Tick})
      BY <3>1, FS_Union
    <3> QED BY <3>2, <3>3
  <2> QED BY <1>0, <2>1, <2>2, FS_Subset
<1>2. CASE ~liquidate
  <2> DEFINE I == 0..(params.orderNum - 1)
             f == [i \in I |-> IF isBid THEN BidLevel(i) ELSE AskLevel(i)]
             R == {IF isBid THEN BidLevel(i) ELSE AskLevel(i) : i \in I}
  <2>1. IsFiniteSet(I)
    <3>1. 0 \in Int /\ params.orderNum - 1 \in Int
      BY <1>0
    <3> QED BY <3>1, FS_Interval
  <2>2. f \in Surjection(I, R)
    BY DEF Surjection
  <2>3. IsFiniteSet(R)
    <3> HIDE DEF f, I, R
    <3> QED BY <2>1, <2>2, FS_Surjection
  <2>4. R \subseteq Int
    <3>1. \A i \in I : i \in Nat
      BY <1>0
    <3>2. \A i \in I : BidLevel(i) \in Int /\ AskLevel(i) \in Int
      BY <3>1, LevelsInside
    <3> QED BY <3>2
  <2>5. DOMAIN Wanted(isBid) \subseteq R
    BY <1>2 DEF Wanted, Quotes
  <2> HIDE DEF R
  <2> QED BY <2>3, <2>4, <2>5, FS_Subset
<1> QED BY <1>1, <1>2
-----------------------------------------------------------------------------
(* Quoting: what is sent.                                                  *)

Order == [isBid : BOOLEAN, price : Int, qty : Int, venuePrice : Int, venueQty : Int]

\* The prices of a side, sent or not, are wanted ones.
LEMMA SendableFacts ==
  ASSUME Given, NEW os, Len(os) \in Nat, NEW isBid \in BOOLEAN
  PROVE  /\ LeftOver(os, isBid)[Len(os)] \subseteq DOMAIN Wanted(isBid)
         /\ Sendable(os, isBid) \subseteq LeftOver(os, isBid)[Len(os)]
         /\ IsFiniteSet(Sendable(os, isBid)) /\ \A p \in Sendable(os, isBid) : p \in Int
<1>1. LeftOver(os, isBid)[Len(os)] \subseteq DOMAIN Wanted(isBid)
  <2>1. Len(os) \in 0..Len(os)
    OBVIOUS
  <2> QED BY <2>1, LeftOverFacts
<1>2. Sendable(os, isBid) \subseteq LeftOver(os, isBid)[Len(os)]
  BY DEF Sendable
<1>3. IsFiniteSet(DOMAIN Wanted(isBid)) /\ DOMAIN Wanted(isBid) \subseteq Int
  BY WantedFinite
<1> HIDE DEF Sendable, Wanted
<1>4. Sendable(os, isBid) \in SUBSET DOMAIN Wanted(isBid)
  BY <1>1, <1>2
<1> QED BY <1>1, <1>2, <1>3, <1>4, FS_Subset

\* The orders a side's map sends: one for each price, in the order of the prices.
LEMMA PlacedFacts ==
  ASSUME Given, NEW os, Len(os) \in Nat, NEW isBid \in BOOLEAN
  PROVE  LET S == Sendable(os, isBid)
             n == Cardinality(S)
             A == Ascending(S)
             P == Placed(os, isBid)
         IN /\ n \in Nat /\ A \in [1..n -> S]
            /\ \A x \in S : \E i \in 1..n : A[i] = x
            /\ \A i, j \in 1..n : A[i] = A[j] => i = j
            /\ P = [i \in 1..n |-> Submit(isBid, A[i], Wanted(isBid)[A[i]])]
            /\ Len(P) = n /\ DOMAIN P = 1..n
<1> DEFINE S == Sendable(os, isBid)
           n == Cardinality(S)
           A == Ascending(S)
           P == Placed(os, isBid)
<1>1. IsFiniteSet(S) /\ \A p \in S : p \in Int
  BY SendableFacts
<1> HIDE DEF S
<1>2. /\ n \in Nat /\ A \in [1..n -> S]
      /\ \A x \in S : \E i \in 1..n : A[i] = x
      /\ \A i, j \in 1..n : A[i] = A[j] => i = j
  BY <1>1, AscendingFacts
<1> HIDE DEF A, n
<1>3. P = [i \in DOMAIN A |-> Submit(isBid, A[i], Wanted(isBid)[A[i]])]
  BY DEF Placed, A, S
<1>4. DOMAIN A = 1..n
  BY <1>2
<1> HIDE DEF P
<1>5. P = [i \in 1..n |-> Submit(isBid, A[i], Wanted(isBid)[A[i]])]
  BY <1>3, <1>4
<1>6. Len(P) = n /\ DOMAIN P = 1..n
  BY <1>2, <1>5
<1> QED BY <1>2, <1>5, <1>6 DEF S, n, A, P

\* A quote inside the touch stays inside when it is snapped to the product's grid.
LEMMA SnapInside ==
  ASSUME Given, NEW p \in Int
  PROVE  /\ p <= market.ask - Tick => Round(p, Tick) * Tick < market.ask
         /\ p >= market.bid + Tick => Round(p, Tick) * Tick > market.bid
<1>1. /\ market.bid \in Nat /\ market.ask \in Nat /\ Tick \in Nat \ {0}
  BY MarketFacts
<1>2. PICK k \in Nat : market.ask = k * Tick
  BY MarketFacts
<1>3. PICK m \in Nat : market.bid = m * Tick
  BY MarketFacts
<1>4. (k - 1) * Tick = market.ask - Tick /\ (m + 1) * Tick = market.bid + Tick
  BY <1>1, <1>2, <1>3
<1>5. k - 1 \in Int /\ m + 1 \in Int
  OBVIOUS
<1>6. Round(p, Tick) \in Int
  BY <1>1, RoundBounds
<1> HIDE DEF Round
<1>7. p <= market.ask - Tick => Round(p, Tick) * Tick <= market.ask - Tick
  BY <1>1, <1>4, <1>5, RoundBounds
<1>8. p >= market.bid + Tick => Round(p, Tick) * Tick >= market.bid + Tick
  BY <1>1, <1>4, <1>5, RoundBounds
<1>9. Round(p, Tick) * Tick \in Int
  BY <1>1, <1>6
<1> QED BY <1>1, <1>7, <1>8, <1>9

\* What a decision would send does not cross the book.
LEMMA PassivePlaces ==
  ASSUME Given, ~liquidate, NEW os, Len(os) \in Nat
  PROVE  /\ \A i \in DOMAIN Placed(os, TRUE) : Placed(os, TRUE)[i].venuePrice < market.ask
         /\ \A i \in DOMAIN Placed(os, FALSE) : Placed(os, FALSE)[i].venuePrice > market.bid
<1>0. params.orderNum \in Nat
  BY DEF Given, Params
<1>1. \A p \in DOMAIN Wanted(TRUE) : p \in Int /\ p <= market.ask - Tick
  <2>1. DOMAIN Wanted(TRUE) \subseteq {BidLevel(i) : i \in 0..(params.orderNum - 1)}
    BY DEF Wanted, Quotes
  <2>2. \A i \in 0..(params.orderNum - 1) : i \in Nat
    BY <1>0
  <2>3. \A p \in {BidLevel(i) : i \in 0..(params.orderNum - 1)} :
          \E i \in 0..(params.orderNum - 1) : p = BidLevel(i)
    OBVIOUS
  <2> QED BY <2>1, <2>2, <2>3, LevelsInside
<1>2. \A p \in DOMAIN Wanted(FALSE) : p \in Int /\ p >= market.bid + Tick
  <2>1. DOMAIN Wanted(FALSE) \subseteq {AskLevel(i) : i \in 0..(params.orderNum - 1)}
    BY DEF Wanted, Quotes
  <2>2. \A i \in 0..(params.orderNum - 1) : i \in Nat
    BY <1>0
  <2>3. \A p \in {AskLevel(i) : i \in 0..(params.orderNum - 1)} :
          \E i \in 0..(params.orderNum - 1) : p = AskLevel(i)
    OBVIOUS
  <2> QED BY <2>1, <2>2, <2>3, LevelsInside
<1>3. ASSUME NEW isBid \in BOOLEAN, NEW i \in DOMAIN Placed(os, isBid)
      PROVE  \E p \in DOMAIN Wanted(isBid) :
               Placed(os, isBid)[i].venuePrice = Round(p, Tick) * Tick
  <2> DEFINE S == Sendable(os, isBid)
             n == Cardinality(S)
             A == Ascending(S)
             P == Placed(os, isBid)
  <2>1. /\ A \in [1..n -> S] /\ DOMAIN P = 1..n
        /\ P = [j \in 1..n |-> Submit(isBid, A[j], Wanted(isBid)[A[j]])]
    BY PlacedFacts
  <2>2. S \subseteq DOMAIN Wanted(isBid)
    BY SendableFacts
  <2>3. i \in 1..n
    BY <1>3, <2>1
  <2> HIDE DEF S, n, A, P
  <2>4. P[i] = Submit(isBid, A[i], Wanted(isBid)[A[i]]) /\ A[i] \in DOMAIN Wanted(isBid)
    BY <2>1, <2>2, <2>3
  <2>5. P[i].venuePrice = Round(A[i], Tick) * Tick
    BY <2>4 DEF Submit
  <2> QED BY <2>4, <2>5 DEF P
<1> HIDE DEF Placed, Wanted
<1>4. \A i \in DOMAIN Placed(os, TRUE) : Placed(os, TRUE)[i].venuePrice < market.ask
  BY <1>1, <1>3, SnapInside
<1>5. \A i \in DOMAIN Placed(os, FALSE) : Placed(os, FALSE)[i].venuePrice > market.bid
  BY <1>2, <1>3, SnapInside
<1> QED BY <1>4, <1>5
-----------------------------------------------------------------------------
(* Quoting: what is kept.                                                  *)

\* keep[i] is what is kept of the first i of os.
Keeps(os, keep) ==
  /\ keep \in [0..Len(os) -> Seq(Order)] /\ keep[0] = <<>>
  /\ \A i \in 1..Len(os) :
       keep[i] = IF Stands(os, i) THEN Append(keep[i - 1], os[i]) ELSE keep[i - 1]

\* The recursion over the resting orders that decides which of them are kept.
LEMMA KeptFacts ==
  ASSUME NEW os \in Seq(Order)
  PROVE  \E keep : Keeps(os, keep) /\ Kept(os) = keep[Len(os)]
<1> DEFINE n == Len(os)
           V == Seq(Order)
           Do(i, v) == IF Stands(os, i) THEN Append(v, os[i]) ELSE v
           G == [i \in 1..n |-> [v \in V |-> Do(i, v)]]
           Is(f) == f = [i \in 0..n |-> IF i = 0 THEN <<>> ELSE Do(i, f[i - 1])]
           keep == CHOOSE f : Is(f)
<1>0. n \in Nat /\ <<>> \in V /\ \A i \in 1..n : os[i] \in Order
  OBVIOUS
<1>1. Kept(os) = keep[n]
  BY DEF Kept, Stands
<1>2. \A i \in 1..n, v \in V : Do(i, v) \in V
  BY <1>0
<1> HIDE DEF n, V, keep, Do
<1>3. G \in [1..n -> [V -> V]]
  BY <1>2
<1>4. \A i \in 1..n, v \in V : G[i][v] = Do(i, v)
  OBVIOUS
<1> HIDE DEF G
<1>5. PICK f : Follows(f, n, V, <<>>, G)
  BY <1>0, <1>3, RecursionExists
<1>6. f \in [0..n -> V] /\ f[0] = <<>> /\ \A i \in 1..n : f[i] = G[i][f[i - 1]]
  BY <1>5 DEF Follows
<1>7. Is(f)
  <2>1. \A i \in 1..n : f[i - 1] \in V
    BY <1>0, <1>6
  <2>2. \A i \in 1..n : f[i] = Do(i, f[i - 1])
    BY <1>4, <1>6, <2>1
  <2>3. \A i \in 0..n : f[i] = IF i = 0 THEN <<>> ELSE Do(i, f[i - 1])
    BY <1>0, <1>6, <2>2
  <2> QED BY <1>6, <2>3
<1>8. Is(keep)
  <2> HIDE DEF Is
  <2> QED BY <1>7 DEF keep
<1>9. keep[0] = <<>> /\ DOMAIN keep = 0..n /\ keep = [i \in 0..n |-> keep[i]]
  BY <1>0, <1>8
<1>10. \A i \in 1..n : keep[i] = Do(i, keep[i - 1])
  BY <1>0, <1>8
<1>11. \A i \in 0..n : keep[i] \in V
  <2> DEFINE T == {i \in 0..n : keep[i] \in V}
  <2>1. 0 \in T
    BY <1>0, <1>9
  <2>2. \A i \in 1..n : i - 1 \in T => i \in T
    BY <1>0, <1>2, <1>10
  <2> HIDE DEF T
  <2>3. \A i \in 0..n : i \in T
    BY <1>0, <2>1, <2>2, Reaches
  <2> QED BY <2>3 DEF T
<1>12. keep \in [0..n -> V]
  BY <1>9, <1>11
<1> QED BY <1>1, <1>9, <1>10, <1>12 DEF Keeps, n, V, Do

\* An order that is sent has a price and a quantity.
LEMMA SubmitTypes ==
  ASSUME Given, NEW os, Len(os) \in Nat, NEW isBid \in BOOLEAN, NEW p \in Sendable(os, isBid)
  PROVE  /\ p \in Int /\ p > 0 /\ Wanted(isBid)[p] \in Int
         /\ Submit(isBid, p, Wanted(isBid)[p]) \in Order
<1> DEFINE o == Submit(isBid, p, Wanted(isBid)[p])
<1>1. p \in Int /\ p \in DOMAIN Wanted(isBid)
  BY SendableFacts
<1>2. o.venuePrice > 0 /\ o.venuePrice = Round(p, Tick) * Tick
  BY DEF Sendable, Submit
<1>3. Tick \in Nat \ {0} /\ Lot \in Nat \ {0}
  BY MarketFacts
<1>4. p > 0 /\ Round(p, Tick) * Tick \in Int
  <2>1. Round(p, Tick) \in Int /\ (p <= 0 * Tick => Round(p, Tick) * Tick <= 0 * Tick)
    BY <1>1, <1>3, RoundBounds
  <2>2. 0 * Tick = 0
    BY <1>3
  <2> HIDE DEF Round
  <2>3. Round(p, Tick) * Tick \in Int
    BY <1>3, <2>1
  <2> QED BY <1>1, <1>2, <2>1, <2>2, <2>3
<1>5. Wanted(isBid)[p] \in Int
  <2>1. CASE liquidate
    BY <1>1, <2>1 DEF Wanted, Liquidation, Gap, Given
  <2>2. CASE ~liquidate
    <3>1. /\ params.inDollar \in BOOLEAN /\ params.positionLimit \in Nat \ {0}
          /\ params.orderSize \in Nat /\ params.shortSellUnable \in BOOLEAN /\ position \in Int
      BY DEF Given, Params
    <3>2. Mid2 \in Nat \ {0}
      BY MarketFacts DEF Mid2
    <3>3. PositionLimitInLots \in Int
      <4>0. 2 * params.positionLimit \in Int /\ 0 \in Int
        BY <3>1
      <4>1. Round(2 * params.positionLimit, Mid2) \in Int
        BY <3>2, <4>0, RoundBounds
      <4> QED BY <3>1, <4>1 DEF PositionLimitInLots
    <3> HIDE DEF PositionLimitInLots
    <3>4. QtyLimit(isBid) \in Int
      BY <3>1, <3>3 DEF QtyLimit, Least
    <3>5. Round(params.orderSize, p) \in Int
      <4>1. params.orderSize \in Int /\ p \in Nat \ {0} /\ 0 \in Int
        BY <1>1, <1>4, <3>1
      <4> QED BY <4>1, RoundBounds
    <3> HIDE DEF QtyLimit, Round
    <3>6. OrderQty(p, QtyLimit(isBid)) \in Int
      BY <3>1, <3>4, <3>5 DEF OrderQty, Least
    <3>7. Wanted(isBid)[p] = OrderQty(p, QtyLimit(isBid))
      BY <1>1, <2>2 DEF Wanted, Quotes
    <3> QED BY <3>6, <3>7
  <2> QED BY <2>1, <2>2
<1> DEFINE q == Wanted(isBid)[p]
<1>6. Round(q, Lot) * Lot \in Int
  <2>1. Round(q, Lot) \in Int
    BY <1>3, <1>5, RoundBounds
  <2> HIDE DEF Round
  <2> QED BY <1>3, <2>1
<1> HIDE DEF q, Round
<1>7. Submit(isBid, p, q) \in Order
  BY <1>1, <1>4, <1>5, <1>6 DEF Submit, Order, q
<1> QED BY <1>1, <1>4, <1>5, <1>7 DEF q

\* The orders after a decision are orders.
LEMMA DecidedTypes ==
  ASSUME Given, NEW os \in Seq(Order)
  PROVE  /\ Kept(os) \in Seq(Order) /\ Placed(os, TRUE) \in Seq(Order)
         /\ Placed(os, FALSE) \in Seq(Order) /\ Decided(os) \in Seq(Order)
<1>0. Len(os) \in Nat
  OBVIOUS
<1>1. Kept(os) \in Seq(Order)
  <2>1. PICK keep : Keeps(os, keep) /\ Kept(os) = keep[Len(os)]
    BY KeptFacts
  <2> QED BY <1>0, <2>1 DEF Keeps
<1>2. ASSUME NEW isBid \in BOOLEAN PROVE Placed(os, isBid) \in Seq(Order)
  <2> DEFINE S == Sendable(os, isBid)
             n == Cardinality(S)
             A == Ascending(S)
             P == Placed(os, isBid)
  <2>1. /\ n \in Nat /\ A \in [1..n -> S]
        /\ P = [j \in 1..n |-> Submit(isBid, A[j], Wanted(isBid)[A[j]])]
    BY <1>0, PlacedFacts
  <2>2. \A p \in S : Submit(isBid, p, Wanted(isBid)[p]) \in Order
    BY <1>0, SubmitTypes
  <2> HIDE DEF S, n, A, P
  <2>3. \A j \in 1..n : Submit(isBid, A[j], Wanted(isBid)[A[j]]) \in Order
    BY <2>1, <2>2
  <2>4. P \in [1..n -> Order]
    BY <2>1, <2>3
  <2>5. P \in Seq(Order)
    BY <2>1, <2>4
  <2> QED BY <2>5 DEF P
<1> HIDE DEF Placed, Kept
<1>3. Placed(os, TRUE) \in Seq(Order) /\ Placed(os, FALSE) \in Seq(Order)
  BY <1>2
<1>4. Kept(os) \o Placed(os, TRUE) \in Seq(Order)
  BY <1>1, <1>3, ConcatProperties
<1>5. Decided(os) \in Seq(Order)
  BY <1>3, <1>4, ConcatProperties DEF Decided
<1> QED BY <1>1, <1>3, <1>5
-----------------------------------------------------------------------------
(* Quoting: types, and quotes that stay passive.                           *)

\* The types of the orders, the position and what a decision reads.
QuotingTypeOK ==
  /\ params \in Strategies /\ market \in Market /\ positionOnFill \in BOOLEAN
  /\ position \in Int /\ unbooked \in Int
  /\ orders \in Seq(Order) /\ leaving \in Seq(Order)
  /\ liquidate \in BOOLEAN /\ blind \in BOOLEAN /\ steps \in Nat

\* They are what the lemmas about a decision ask for.
LEMMA TypesGive ==
  ASSUME QuotingTypeOK
  PROVE  Given /\ orders \in Seq(Order) /\ Len(orders) \in Nat
BY QuotingAssumption DEF QuotingTypeOK, Given

\* The orders a decision cancels are those that do not stand, each once.
LEMMA CancelledFacts ==
  ASSUME NEW os \in Seq(Order)
  PROVE  \E cids : /\ Len(Cancelled(os)) \in Nat /\ Cancelled(os) \in Seq(Order)
                   /\ cids \in [1..Len(Cancelled(os)) -> 1..Len(os)]
                   /\ \A i \in 1..Len(Cancelled(os)) :
                        ~Stands(os, cids[i]) /\ Cancelled(os)[i] = os[cids[i]]
                   /\ \A i, j \in 1..Len(Cancelled(os)) : cids[i] = cids[j] => i = j
<1> DEFINE S == {i \in 1..Len(os) : ~Stands(os, i)}
           n == Cardinality(S)
           A == Ascending(S)
           C == Cancelled(os)
<1>0. Len(os) \in Nat /\ \A i \in 1..Len(os) : os[i] \in Order
  OBVIOUS
<1>1. IsFiniteSet(S) /\ \A c \in S : c \in Int
  <2>1. IsFiniteSet(1..Len(os)) /\ S \in SUBSET (1..Len(os))
    BY <1>0, FS_Interval
  <2> QED BY <1>0, <2>1, FS_Subset
<1>2. S \subseteq 1..Len(os) /\ \A i \in S : ~Stands(os, i)
  OBVIOUS
<1>3. C = [i \in DOMAIN A |-> os[A[i]]]
  BY DEF Cancelled
<1> HIDE DEF S, C, Stands
<1>4. n \in Nat /\ A \in [1..n -> S] /\ \A i, j \in 1..n : A[i] = A[j] => i = j
  BY <1>1, AscendingFacts
<1> HIDE DEF n, A
<1>5. C = [i \in 1..n |-> os[A[i]]] /\ \A i \in 1..n : A[i] \in 1..Len(os) /\ os[A[i]] \in Order
  BY <1>0, <1>2, <1>3, <1>4
<1>6. C \in Seq(Order) /\ Len(C) = n
  BY <1>4, <1>5
<1>7. A \in [1..n -> 1..Len(os)] /\ \A i \in 1..n : ~Stands(os, A[i]) /\ C[i] = os[A[i]]
  BY <1>2, <1>4, <1>5
<1> QED BY <1>4, <1>6, <1>7 DEF C

\* What is left when one order goes.
LEMMA RemoveFacts ==
  ASSUME NEW ks \in Seq(Order), NEW i \in 1..Len(ks)
  PROVE  /\ RemoveAt(ks, i) \in Seq(Order) /\ Len(RemoveAt(ks, i)) = Len(ks) - 1
         /\ \A j \in 1..(Len(ks) - 1) : RemoveAt(ks, i)[j] = IF j < i THEN ks[j] ELSE ks[j + 1]
<1> DEFINE n == Len(ks)
           a == SubSeq(ks, 1, i - 1)
           b == SubSeq(ks, i + 1, n)
<1>0. n \in Nat /\ i \in 1..n /\ i - 1 \in Int /\ i + 1 \in Int /\ \A j \in 1..n : ks[j] \in Order
  OBVIOUS
<1>1. a \in Seq(Order) /\ Len(a) = i - 1 /\ \A j \in 1..(i - 1) : a[j] = ks[j]
  <2>1. \A j \in 1..(i - 1) : ks[j] \in Order
    BY <1>0
  <2>2. /\ a \in Seq(Order) /\ Len(a) = IF 1 <= i - 1 THEN (i - 1) - 1 + 1 ELSE 0
        /\ \A j \in 1..((i - 1) - 1 + 1) : a[j] = ks[1 + j - 1]
    BY <1>0, <2>1, SubSeqProperties
  <2> QED BY <1>0, <2>2
<1>2. b \in Seq(Order) /\ Len(b) = n - i /\ \A j \in 1..(n - i) : b[j] = ks[i + j]
  <2>1. \A j \in (i + 1)..n : ks[j] \in Order
    BY <1>0
  <2>2. /\ b \in Seq(Order) /\ Len(b) = IF i + 1 <= n THEN n - (i + 1) + 1 ELSE 0
        /\ \A j \in 1..(n - (i + 1) + 1) : b[j] = ks[(i + 1) + j - 1]
    BY <1>0, <2>1, SubSeqProperties
  <2> QED BY <1>0, <2>2
<1>3. RemoveAt(ks, i) = a \o b
  BY DEF RemoveAt
<1> HIDE DEF a, b, n
<1>4. /\ a \o b \in Seq(Order) /\ Len(a \o b) = Len(a) + Len(b)
      /\ \A j \in 1..(Len(a) + Len(b)) : (a \o b)[j] = IF j <= Len(a) THEN a[j] ELSE b[j - Len(a)]
  BY <1>1, <1>2, ConcatProperties
<1> DEFINE c == a \o b
<1> HIDE DEF c
<1>5. Len(c) = n - 1
  BY <1>0, <1>1, <1>2, <1>4 DEF c
<1>6. ASSUME NEW j \in 1..(n - 1) PROVE c[j] = IF j < i THEN ks[j] ELSE ks[j + 1]
  <2>1. c[j] = IF j <= i - 1 THEN a[j] ELSE b[j - (i - 1)]
    BY <1>0, <1>1, <1>2, <1>4 DEF c
  <2>2. CASE j < i
    BY <1>0, <1>1, <2>1, <2>2
  <2>3. CASE ~(j < i)
    <3>1. j - (i - 1) \in 1..(n - i) /\ i + (j - (i - 1)) = j + 1
      BY <1>0, <2>3
    <3>2. c[j] = b[j - (i - 1)]
      BY <1>0, <2>1, <2>3
    <3> QED BY <1>2, <2>3, <3>1, <3>2
  <2> QED BY <2>2, <2>3
<1> QED BY <1>3, <1>4, <1>5, <1>6 DEF c, n

\* A filled order leaves the orders, or stays with less of it.
LEMMA FilledFacts ==
  ASSUME NEW os \in Seq(Order), NEW i \in 1..Len(os), NEW q \in Int
  PROVE  /\ Filled(os, i, q) \in Seq(Order)
         /\ \/ Filled(os, i, q) = RemoveAt(os, i)
            \/ /\ Len(Filled(os, i, q)) = Len(os)
               /\ \A j \in 1..Len(os) : j # i => Filled(os, i, q)[j] = os[j]
               /\ Filled(os, i, q)[i].isBid = os[i].isBid
               /\ Filled(os, i, q)[i].venueQty = os[i].venueQty - q
<1> DEFINE x == os[i]
           o == [x EXCEPT !.qty = @ - q, !.venueQty = @ - q]
           r == [x EXCEPT !.qty = x.qty - q]
           t == [os EXCEPT ![i] = o]
<1>1. x \in Order /\ x.qty \in Int /\ x.venueQty \in Int
  <2>1. x \in Order
    OBVIOUS
  <2> HIDE DEF x
  <2> QED BY <2>1 DEF Order
<1>2. RemoveAt(os, i) \in Seq(Order)
  BY RemoveFacts
<1>3. \/ Filled(os, i, q) = RemoveAt(os, i)
      \/ Filled(os, i, q) = t
  BY DEF Filled, ReplaceAt
<1> HIDE DEF x
<1>4. o \in Order /\ o.isBid = x.isBid /\ o.venueQty = x.venueQty - q
  <2>1. x.qty - q \in Int /\ x.venueQty - q \in Int
    BY <1>1
  <2>2. \A y \in Order, c \in Int : [y EXCEPT !.qty = c] \in Order /\ [y EXCEPT !.qty = c].isBid = y.isBid
    BY DEF Order
  <2>3. \A y \in Order, c \in Int : /\ [y EXCEPT !.venueQty = c] \in Order
                                    /\ [y EXCEPT !.venueQty = c].isBid = y.isBid
                                    /\ [y EXCEPT !.venueQty = c].venueQty = c
    BY DEF Order
  <2>4. o = [r EXCEPT !.venueQty = x.venueQty - q]
    BY <1>1 DEF Order
  <2>5. r \in Order /\ r.isBid = x.isBid
    BY <1>1, <2>1, <2>2
  <2> HIDE DEF r, o
  <2> QED BY <2>1, <2>3, <2>4, <2>5
<1> HIDE DEF o
<1>5. t \in Seq(Order) /\ Len(t) = Len(os) /\ \A j \in 1..Len(os) : t[j] = IF j = i THEN o ELSE os[j]
  BY <1>4, ExceptSeq
<1> HIDE DEF t
<1>6. t[i] = o
  BY <1>5
<1> QED BY <1>2, <1>3, <1>4, <1>5, <1>6 DEF x

\* What a fill is: an order of one of the two sequences shrinks, and what was filled
\* goes to the position or to what is still to be booked.
FillOf(os, i, q) ==
  /\ q \in Int /\ 1 <= q /\ q <= os[i].venueQty /\ q % Lot = 0
  /\ \/ os[i].isBid /\ position' + unbooked' = (position + unbooked) + q
     \/ ~os[i].isBid /\ position' + unbooked' = (position + unbooked) - q
  /\ position' \in {position, position + q, position - q}
  /\ unbooked' \in {unbooked, unbooked + q, unbooked - q}

\* Every fill is one of those.
LEMMA FillFacts ==
  ASSUME QuotingTypeOK, Fill
  PROVE  \/ \E i \in 1..Len(orders) : \E q : /\ FillOf(orders, i, q)
                                             /\ orders' = Filled(orders, i, q) /\ leaving' = leaving
         \/ \E i \in 1..Len(leaving) : \E q : /\ FillOf(leaving, i, q)
                                              /\ leaving' = Filled(leaving, i, q) /\ orders' = orders
<1>0. /\ orders \in Seq(Order) /\ leaving \in Seq(Order)
      /\ position \in Int /\ unbooked \in Int /\ positionOnFill \in BOOLEAN
  BY DEF QuotingTypeOK
<1>1. ASSUME NEW os \in Seq(Order), NEW i \in DOMAIN os, NEW q \in Fills(os[i]), Booking(os[i], q)
      PROVE  i \in 1..Len(os) /\ FillOf(os, i, q)
  <2>1. i \in 1..Len(os) /\ os[i] \in Order
    OBVIOUS
  <2> DEFINE o == os[i]
  <2>2. o \in Order /\ q \in Fills(o) /\ Booking(o, q)
    BY <1>1, <2>1
  <2> HIDE DEF o
  <2>3. o.isBid \in BOOLEAN /\ o.venueQty \in Int
    BY <2>2 DEF Order
  <2>4. q \in Int /\ 1 <= q /\ q <= o.venueQty /\ q % Lot = 0
    BY <2>2, <2>3 DEF Fills
  <2>5. CASE o.isBid
    BY <1>0, <2>2, <2>4, <2>5, <2>1 DEF Booking, FillOf, o
  <2>6. CASE ~o.isBid
    <3>1. \/ position' = position + (-q) /\ unbooked' = unbooked
          \/ unbooked' = unbooked + (-q) /\ position' = position
      BY <2>2, <2>6 DEF Booking
    <3>2. position + (-q) = position - q /\ unbooked + (-q) = unbooked - q
      BY <1>0, <2>4
    <3> QED BY <1>0, <2>4, <2>6, <2>1, <3>1, <3>2 DEF FillOf, o
  <2> QED BY <2>3, <2>5, <2>6
<1> HIDE DEF FillOf
<1>2. CASE FillResting
  BY <1>0, <1>1, <1>2 DEF FillResting
<1>3. CASE FillLeaving
  BY <1>0, <1>1, <1>3 DEF FillLeaving
<1> QED BY <1>2, <1>3 DEF Fill

\* A fill keeps the types.
LEMMA FillTypes ==
  ASSUME QuotingTypeOK, Fill
  PROVE  position' \in Int /\ unbooked' \in Int /\ orders' \in Seq(Order) /\ leaving' \in Seq(Order)
<1>1. orders \in Seq(Order) /\ leaving \in Seq(Order) /\ position \in Int /\ unbooked \in Int
  BY DEF QuotingTypeOK
<1>2. \A os, i, q : FillOf(os, i, q) => q \in Int /\ position' \in Int /\ unbooked' \in Int
  BY <1>1 DEF FillOf
<1> HIDE DEF FillOf, Filled
<1> QED BY <1>1, <1>2, FillFacts, FilledFacts

\* What a decision reads has its types in every reachable state.
THEOREM QuotingTypes == QuotingSpec => []QuotingTypeOK
<1>1. QuotingInit => QuotingTypeOK
  <2>1. <<>> \in Seq(Order) /\ 0 \in Int /\ 0 \in Nat
    OBVIOUS
  <2> QED BY <2>1 DEF QuotingInit, QuotingTypeOK
<1>2. QuotingTypeOK /\ [QuotingNext]_quotingVars => QuotingTypeOK'
  <2> SUFFICES ASSUME QuotingTypeOK, [QuotingNext]_quotingVars PROVE QuotingTypeOK'
    OBVIOUS
  <2>1. CASE Decide
    <3>1. orders' \in Seq(Order) /\ leaving' \in Seq(Order)
      <4>1. Given /\ orders \in Seq(Order)
        BY TypesGive
      <4>2. Decided(orders) \in Seq(Order) /\ Cancelled(orders) \in Seq(Order)
        BY <4>1, DecidedTypes, CancelledFacts
      <4> QED BY <2>1, <4>2 DEF Decide
    <3>2. steps' \in Nat /\ blind' \in BOOLEAN
      BY <2>1 DEF Decide, Step, QuotingTypeOK
    <3> QED BY <2>1, <3>1, <3>2 DEF Decide, QuotingTypeOK, Market
  <2>2. CASE TouchMoves
    BY <2>2 DEF TouchMoves, QuotingTypeOK, Market
  <2>3. CASE Fill
    <3>1. position' \in Int /\ unbooked' \in Int /\ orders' \in Seq(Order) /\ leaving' \in Seq(Order)
      BY <2>3, FillTypes
    <3>2. steps' \in Nat /\ UNCHANGED <<params, market, positionOnFill, liquidate, blind>>
      BY <2>3 DEF Fill, Step, QuotingTypeOK
    <3> QED BY <3>1, <3>2 DEF QuotingTypeOK, Market
  <2>4. CASE StartFlatten
    BY <2>4 DEF StartFlatten, QuotingTypeOK, Market
  <2>5. CASE UNCHANGED quotingVars
    BY <2>5 DEF quotingVars, QuotingTypeOK, Market
  <2>6. CASE CancelDone
    <3>1. leaving' \in Seq(Order)
      <4>1. leaving \in Seq(Order) /\ DOMAIN leaving = 1..Len(leaving)
        BY DEF QuotingTypeOK
      <4>2. PICK i \in 1..Len(leaving) : leaving' = RemoveAt(leaving, i)
        BY <2>6, <4>1 DEF CancelDone
      <4> QED BY <4>1, <4>2, RemoveFacts
    <3> QED BY <2>6, <3>1 DEF CancelDone, QuotingTypeOK, Market
  <2>7. CASE OnPosition
    <3>1. position' \in Int /\ unbooked' \in Int
      BY <2>7 DEF OnPosition, QuotingTypeOK
    <3> QED BY <2>7, <3>1 DEF OnPosition, QuotingTypeOK, Market
  <2> QED BY <2>1, <2>2, <2>3, <2>4, <2>5, <2>6, <2>7 DEF QuotingNext
<1> QED BY <1>1, <1>2, PTL DEF QuotingSpec

\* Whatever the strategy's parameters, the book, the fair price, the position and the
\* orders already resting, a quoting decision (make_decision with its caps, then
\* submit_place's snap) sends no bid at or above the best ask and no ask at or below the
\* best bid.
THEOREM QuotesStayPassive == QuotingSpec => []QuotesPassive
<1>1. QuotingTypeOK => QuotesPassive
  <2> SUFFICES ASSUME QuotingTypeOK PROVE QuotesPassive
    OBVIOUS
  <2>1. Given /\ Len(orders) \in Nat
    BY TypesGive
  <2> HIDE DEF Placed
  <2> QED BY <2>1, PassivePlaces DEF QuotesPassive
<1> QED BY <1>1, QuotingTypes, PTL
-----------------------------------------------------------------------------
(* Quoting: orders that all stand in for a wanted price.                   *)

\* What order o leaves of the wanted prices V of a side.
After(o, isBid, V) == IF o.isBid = isBid THEN V \ Claim(o.price, V) ELSE V

\* What all of ks leave of the wanted prices of a side.
Unclaimed(ks, isBid) == LeftOver(ks, isBid)[Len(ks)]

\* Every order of ks stands in for a wanted price.
Settled(ks) == \A i \in 1..Len(ks) : Stands(ks, i)

\* The resting orders are taken one after the other.
LEMMA LeftSteps ==
  ASSUME NEW ks \in Seq(Order), NEW isBid
  PROVE  /\ LeftOver(ks, isBid)[0] = DOMAIN Wanted(isBid)
         /\ \A i \in 1..Len(ks) : LeftOver(ks, isBid)[i] = After(ks[i], isBid, LeftOver(ks, isBid)[i - 1])
         /\ \A i \in 0..Len(ks) : LeftOver(ks, isBid)[i] \subseteq DOMAIN Wanted(isBid)
<1>1. Len(ks) \in Nat
  OBVIOUS
<1> HIDE DEF Claim, LeftOver, Wanted
<1> QED BY <1>1, LeftOverFacts DEF After

\* An order added at the end changes nothing for those before it and takes what it
\* claims.
LEMMA LeftAppend ==
  ASSUME NEW ks \in Seq(Order), NEW o \in Order, NEW isBid
  PROVE  /\ \A i \in 0..Len(ks) : LeftOver(Append(ks, o), isBid)[i] = LeftOver(ks, isBid)[i]
         /\ Unclaimed(Append(ks, o), isBid) = After(o, isBid, Unclaimed(ks, isBid))
<1> DEFINE m == Len(ks)
           t == Append(ks, o)
           L == LeftOver(ks, isBid)
           M == LeftOver(t, isBid)
           T == {i \in 0..m : M[i] = L[i]}
<1>1. /\ t \in Seq(Order) /\ Len(t) = m + 1 /\ m \in Nat
      /\ \A i \in 1..m : t[i] = ks[i]
      /\ t[m + 1] = o
  BY AppendProperties
<1> HIDE DEF t, LeftOver
<1>2. L[0] = DOMAIN Wanted(isBid) /\ \A i \in 1..m : L[i] = After(ks[i], isBid, L[i - 1])
  BY LeftSteps
<1>3. M[0] = DOMAIN Wanted(isBid) /\ \A i \in 1..(m + 1) : M[i] = After(t[i], isBid, M[i - 1])
  BY <1>1, LeftSteps
<1> HIDE DEF L, M, m, After, Wanted
<1>4. 0 \in T
  BY <1>1, <1>2, <1>3
<1>5. ASSUME NEW i \in 1..m, i - 1 \in T PROVE i \in T
  <2>1. M[i - 1] = L[i - 1] /\ i \in 1..(m + 1) /\ i \in 0..m
    BY <1>1, <1>5
  <2>2. M[i] = After(t[i], isBid, M[i - 1]) /\ L[i] = After(ks[i], isBid, L[i - 1]) /\ t[i] = ks[i]
    BY <1>1, <1>2, <1>3, <2>1
  <2>3. M[i] = L[i]
    BY <2>1, <2>2
  <2> QED BY <2>1, <2>3
<1> HIDE DEF T
<1>6. \A i \in 0..m : i \in T
  BY <1>1, <1>4, <1>5, Reaches
<1>7. \A i \in 0..m : M[i] = L[i]
  BY <1>6 DEF T
<1>8. M[m + 1] = After(o, isBid, L[m])
  <2>1. m + 1 \in 1..(m + 1) /\ (m + 1) - 1 = m /\ m \in 0..m
    BY <1>1
  <2>2. M[m + 1] = After(t[m + 1], isBid, M[(m + 1) - 1])
    BY <1>3, <2>1
  <2> QED BY <1>1, <1>7, <2>1, <2>2
<1> QED BY <1>1, <1>7, <1>8 DEF Unclaimed, L, M, m, t

\* An order that claims a price keeps a settled sequence settled.
LEMMA SettledAppend ==
  ASSUME NEW ks \in Seq(Order), NEW o \in Order, Settled(ks),
         Claim(o.price, Unclaimed(ks, o.isBid)) # {}
  PROVE  Settled(Append(ks, o))
<1> DEFINE m == Len(ks)
           t == Append(ks, o)
<1>1. /\ t \in Seq(Order) /\ Len(t) = m + 1 /\ m \in Nat
      /\ \A i \in 1..m : t[i] = ks[i]
      /\ t[m + 1] = o
  BY AppendProperties
<1>2. \A s : \A i \in 0..m : LeftOver(t, s)[i] = LeftOver(ks, s)[i]
  BY LeftAppend
<1> HIDE DEF t, LeftOver, Claim, m
<1>3. ASSUME NEW i \in 1..m PROVE Stands(t, i)
  <2>1. Stands(ks, i)
    BY DEF Settled, m
  <2>2. t[i] = ks[i] /\ i - 1 \in 0..m
    BY <1>1
  <2>3. LeftOver(t, t[i].isBid)[i - 1] = LeftOver(ks, ks[i].isBid)[i - 1]
    BY <1>2, <2>2
  <2> QED BY <2>1, <2>2, <2>3 DEF Stands
<1>4. Stands(t, m + 1)
  <2>1. (m + 1) - 1 = m /\ m \in 0..m
    BY <1>1
  <2>2. LeftOver(t, o.isBid)[m] = Unclaimed(ks, o.isBid)
    BY <1>2, <2>1 DEF Unclaimed, m
  <2> QED BY <1>1, <2>1, <2>2 DEF Stands
<1>5. \A i \in 1..(m + 1) : i \in 1..m \/ i = m + 1
  BY <1>1
<1> QED BY <1>1, <1>3, <1>4, <1>5 DEF Settled, t

\* The orders that are kept leave what all the orders leave, and each stands again.
LEMMA KeptSettled ==
  ASSUME NEW os \in Seq(Order)
  PROVE  /\ Kept(os) \in Seq(Order) /\ Settled(Kept(os))
         /\ \A isBid \in BOOLEAN : Unclaimed(Kept(os), isBid) = Unclaimed(os, isBid)
<1>1. PICK keep : Keeps(os, keep) /\ Kept(os) = keep[Len(os)]
  BY KeptFacts
<1> DEFINE n == Len(os)
           Same(i) == \A isBid \in BOOLEAN : Unclaimed(keep[i], isBid) = LeftOver(os, isBid)[i]
           T == {i \in 0..n : Settled(keep[i]) /\ Same(i)}
<1>2. n \in Nat /\ \A i \in 1..n : os[i] \in Order
  OBVIOUS
<1>3. /\ keep \in [0..n -> Seq(Order)] /\ keep[0] = <<>>
      /\ \A i \in 1..n : keep[i] = IF Stands(os, i) THEN Append(keep[i - 1], os[i]) ELSE keep[i - 1]
  BY <1>1 DEF Keeps
<1>4. \A s : /\ LeftOver(os, s)[0] = DOMAIN Wanted(s)
             /\ \A i \in 1..n : LeftOver(os, s)[i] = After(os[i], s, LeftOver(os, s)[i - 1])
  BY LeftSteps
<1> HIDE DEF n, LeftOver, Claim, Wanted
<1>5. 0 \in T
  <2>1. Len(<<>>) = 0 /\ <<>> \in Seq(Order)
    OBVIOUS
  <2>2. \A s : LeftOver(<<>>, s)[0] = DOMAIN Wanted(s)
    BY <2>1, LeftSteps
  <2>3. Settled(<<>>)
    BY <2>1 DEF Settled
  <2>4. Same(0)
    BY <1>3, <1>4, <2>1, <2>2 DEF Unclaimed
  <2> QED BY <1>2, <1>3, <2>3, <2>4
<1>6. ASSUME NEW i \in 1..n, i - 1 \in T PROVE i \in T
  <2> DEFINE k == keep[i - 1]
             o == os[i]
  <2>1. /\ i \in 0..n /\ i - 1 \in 0..n /\ k \in Seq(Order) /\ o \in Order
        /\ Settled(k) /\ Same(i - 1)
    BY <1>2, <1>3, <1>6
  <2>2. o.isBid \in BOOLEAN
    BY <2>1 DEF Order
  <2>3. Claim(o.price, Unclaimed(k, o.isBid)) = Claim(o.price, LeftOver(os, o.isBid)[i - 1])
    BY <2>1, <2>2
  <2>4. CASE Stands(os, i)
    <3>1. keep[i] = Append(k, o)
      BY <1>3, <2>4
    <3>2. Claim(o.price, Unclaimed(k, o.isBid)) # {}
      BY <2>3, <2>4 DEF Stands
    <3> HIDE DEF k, o
    <3>3. Settled(Append(k, o))
      BY <2>1, <3>2, SettledAppend
    <3>4. ASSUME NEW s \in BOOLEAN PROVE Unclaimed(Append(k, o), s) = LeftOver(os, s)[i]
      <4>1. Unclaimed(Append(k, o), s) = After(o, s, Unclaimed(k, s))
        BY <2>1, LeftAppend
      <4>2. Unclaimed(k, s) = LeftOver(os, s)[i - 1]
        BY <2>1 DEF k
      <4>3. LeftOver(os, s)[i] = After(o, s, LeftOver(os, s)[i - 1])
        BY <1>4 DEF o
      <4> QED BY <4>1, <4>2, <4>3
    <3> QED BY <2>1, <3>1, <3>3, <3>4
  <2>5. CASE ~Stands(os, i)
    <3>1. keep[i] = k
      BY <1>3, <2>5
    <3>2. Claim(o.price, LeftOver(os, o.isBid)[i - 1]) = {}
      BY <2>5 DEF Stands
    <3>3. ASSUME NEW s \in BOOLEAN PROVE LeftOver(os, s)[i] = LeftOver(os, s)[i - 1]
      <4>1. LeftOver(os, s)[i] = After(o, s, LeftOver(os, s)[i - 1])
        BY <1>4
      <4> QED BY <3>2, <4>1 DEF After
    <3> QED BY <2>1, <3>1, <3>3
  <2> QED BY <2>4, <2>5
<1> HIDE DEF T, Same
<1>7. \A i \in 0..n : i \in T
  BY <1>2, <1>5, <1>6, Reaches
<1>8. n \in 0..n
  BY <1>2
<1>9. Settled(keep[n]) /\ Same(n) /\ keep[n] \in Seq(Order)
  BY <1>3, <1>7, <1>8 DEF T
<1> QED BY <1>1, <1>9 DEF Same, n, Unclaimed

\* An order resting at a wanted price claims that price.
LEMMA OwnClaim ==
  ASSUME Given, NEW V, \A v \in V : v \in Int, NEW p \in V, p > 0
  PROVE  Claim(p, V) = {p}
<1>1. p \in Int /\ p \in Nat
  OBVIOUS
<1>2. Tolerance(p) \in Int /\ Tolerance(p) >= 0
  <2>1. params.orderBufferBp \in Nat /\ Whole \in Nat \ {0}
    BY MarketFacts DEF Given, Params
  <2> DEFINE x == p * params.orderBufferBp
  <2>2. x \in Int /\ Whole * 0 <= x
    BY <1>1, <2>1
  <2> HIDE DEF x
  <2>3. x \div Whole \in Int /\ 0 <= x \div Whole
    BY <2>1, <2>2, Quotient, QuotientBounds
  <2> QED BY <2>3 DEF Tolerance, x
<1> HIDE DEF Tolerance
<1>3. \A w \in V : Gap(w, p) \in Int /\ Gap(w, p) >= 0 /\ (Gap(w, p) = 0 <=> w = p)
  BY <1>1 DEF Gap
<1>4. Gap(p, p) = 0
  BY <1>3
<1> HIDE DEF Gap
<1>5. p \in Claim(p, V)
  BY <1>1, <1>2, <1>3, <1>4 DEF Claim
<1>6. ASSUME NEW w \in Claim(p, V) PROVE w = p
  <2>1. w \in V /\ (Gap(w, p) < Gap(p, p) \/ (Gap(w, p) = Gap(p, p) /\ w <= p))
    BY DEF Claim
  <2> QED BY <1>3, <1>4, <2>1
<1> QED BY <1>5, <1>6

\* A prefix is the one before it with one more element.
LEMMA PrefixAppend ==
  ASSUME NEW ps \in Seq(Order), NEW j \in 1..Len(ps)
  PROVE  /\ SubSeq(ps, 1, j - 1) \in Seq(Order)
         /\ SubSeq(ps, 1, j) = Append(SubSeq(ps, 1, j - 1), ps[j])
<1> DEFINE a == SubSeq(ps, 1, j - 1)
           b == SubSeq(ps, 1, j)
           e == Append(a, ps[j])
<1>1. \A i \in 1..j : ps[i] \in Order
  OBVIOUS
<1>2. j \in Int /\ j - 1 \in Int /\ 1 <= j
  OBVIOUS
<1>3. b \in Seq(Order) /\ Len(b) = j /\ \A i \in 1..j : b[i] = ps[i]
  <2>1. /\ b \in Seq(Order) /\ Len(b) = IF 1 <= j THEN j - 1 + 1 ELSE 0
        /\ \A i \in 1..(j - 1 + 1) : b[i] = ps[1 + i - 1]
    BY <1>1, <1>2, SubSeqProperties
  <2> QED BY <1>2, <2>1
<1>4. a \in Seq(Order) /\ Len(a) = j - 1 /\ \A i \in 1..(j - 1) : a[i] = ps[i]
  <2>0. \A i \in 1..(j - 1) : ps[i] \in Order
    BY <1>1, <1>2
  <2>1. /\ a \in Seq(Order) /\ Len(a) = IF 1 <= j - 1 THEN (j - 1) - 1 + 1 ELSE 0
        /\ \A i \in 1..((j - 1) - 1 + 1) : a[i] = ps[1 + i - 1]
    BY <1>2, <2>0, SubSeqProperties
  <2> QED BY <1>2, <2>1
<1> HIDE DEF a, b
<1>5. /\ e \in Seq(Order) /\ Len(e) = j /\ e[j] = ps[j]
      /\ \A i \in 1..(j - 1) : e[i] = a[i]
  BY <1>1, <1>2, <1>4, AppendProperties
<1> HIDE DEF e
<1>6. \A i \in 1..j : b[i] = e[i]
  BY <1>2, <1>3, <1>4, <1>5
<1>7. b = e
  BY <1>3, <1>5, <1>6, SeqEqual
<1> QED BY <1>4, <1>7 DEF a, b, e

\* The orders a side's map sends claim their own prices, in turn, and nothing of the
\* other side.
LEMMA PlacedSettled ==
  ASSUME Given, NEW os \in Seq(Order), NEW ks \in Seq(Order), NEW isBid \in BOOLEAN,
         Settled(ks), Sendable(os, isBid) \subseteq Unclaimed(ks, isBid)
  PROVE  LET t == ks \o Placed(os, isBid)
         IN /\ t \in Seq(Order) /\ Settled(t)
            /\ Unclaimed(t, isBid) = Unclaimed(ks, isBid) \ Sendable(os, isBid)
            /\ \A side : side # isBid => Unclaimed(t, side) = Unclaimed(ks, side)
<1> DEFINE S == Sendable(os, isBid)
           n == Cardinality(S)
           A == Ascending(S)
           P == Placed(os, isBid)
           U == Unclaimed(ks, isBid)
           Taken(j) == {A[l] : l \in 1..j}
           k(j) == ks \o SubSeq(P, 1, j)
           Good(j) == /\ k(j) \in Seq(Order) /\ Settled(k(j))
                      /\ Unclaimed(k(j), isBid) = U \ Taken(j)
                      /\ \A side : side # isBid => Unclaimed(k(j), side) = Unclaimed(ks, side)
           T == {j \in 0..n : Good(j)}
<1>0. Len(os) \in Nat /\ Len(ks) \in Nat /\ Len(ks) \in 0..Len(ks)
  OBVIOUS
<1>1. /\ n \in Nat /\ A \in [1..n -> S]
      /\ \A x \in S : \E i \in 1..n : A[i] = x
      /\ \A i, j \in 1..n : A[i] = A[j] => i = j
      /\ P = [i \in 1..n |-> Submit(isBid, A[i], Wanted(isBid)[A[i]])]
      /\ Len(P) = n /\ DOMAIN P = 1..n
  BY <1>0, PlacedFacts
<1>2. \A p \in S : p \in Int /\ p > 0 /\ Submit(isBid, p, Wanted(isBid)[p]) \in Order
  BY <1>0, SubmitTypes
<1>3. P \in Seq(Order)
  BY DecidedTypes
<1>4. \A v \in U : v \in Int
  <2>1. U \subseteq DOMAIN Wanted(isBid)
    BY <1>0, LeftSteps DEF Unclaimed
  <2> QED BY <2>1, WantedFinite
<1>5. S \subseteq U
  OBVIOUS
<1> HIDE DEF S, n, A, P, U
<1>6. \A i \in 1..n : /\ A[i] \in S /\ A[i] \in Int /\ A[i] > 0 /\ A[i] \in U
                      /\ P[i] \in Order /\ P[i].isBid = isBid /\ P[i].price = A[i]
  <2> SUFFICES ASSUME NEW i \in 1..n
               PROVE  /\ A[i] \in S /\ A[i] \in Int /\ A[i] > 0 /\ A[i] \in U
                      /\ P[i] \in Order /\ P[i].isBid = isBid /\ P[i].price = A[i]
    OBVIOUS
  <2>1. A[i] \in S /\ P[i] = Submit(isBid, A[i], Wanted(isBid)[A[i]])
    BY <1>1
  <2> HIDE DEF Wanted
  <2>2. P[i].isBid = isBid /\ P[i].price = A[i]
    BY <2>1 DEF Submit
  <2> QED BY <1>2, <1>5, <2>1, <2>2
<1>7. 0 \in T
  <2>1. SubSeq(P, 1, 0) = <<>>
    BY SubSeqEmpty
  <2>2. k(0) = ks
    BY <2>1, ConcatEmptySeq
  <2>3. Taken(0) = {}
    OBVIOUS
  <2> HIDE DEF k, Taken
  <2>4. U \ Taken(0) = Unclaimed(ks, isBid)
    BY <2>3 DEF U
  <2> QED BY <1>1, <2>2, <2>4
<1>8. ASSUME NEW j \in 1..n, j - 1 \in T PROVE j \in T
  <2> DEFINE c == k(j - 1)
             o == P[j]
             V == Unclaimed(c, isBid)
  <2>1. /\ c \in Seq(Order) /\ Settled(c) /\ V = U \ Taken(j - 1)
        /\ \A side : side # isBid => Unclaimed(c, side) = Unclaimed(ks, side)
    BY <1>8
  <2>2. o \in Order /\ o.isBid = isBid /\ o.price = A[j] /\ A[j] \in U /\ A[j] \in Int /\ A[j] > 0
    BY <1>6
  <2>3. k(j) = Append(c, o)
    <3> DEFINE a == SubSeq(P, 1, j - 1)
    <3>1. a \in Seq(Order) /\ SubSeq(P, 1, j) = Append(a, o)
      <4>1. j \in 1..Len(P)
        BY <1>1
      <4> QED BY <1>3, <4>1, PrefixAppend
    <3> HIDE DEF a, o
    <3>2. ks \o Append(a, o) = Append(ks \o a, o)
      <4>1. /\ Append(a, o) = a \o <<o>> /\ <<o>> \in Seq(Order)
            /\ ks \o a \in Seq(Order)
        BY <2>2, <3>1, AppendIsConcat, ConcatProperties
      <4> DEFINE z == ks \o a
      <4> HIDE DEF z
      <4>2. Append(z, o) = z \o <<o>>
        BY <2>2, <4>1, AppendIsConcat DEF z
      <4> QED BY <3>1, <4>1, <4>2, ConcatAssociative DEF z
    <3> QED BY <3>1, <3>2 DEF a
  <2>4. A[j] \in V
    <3>1. A[j] \notin Taken(j - 1)
      <4>1. \A l \in 1..(j - 1) : l \in 1..n /\ l # j
        BY <1>1
      <4> QED BY <1>1, <4>1
    <3> HIDE DEF Taken
    <3> QED BY <2>1, <2>2, <3>1
  <2>5. Claim(A[j], V) = {A[j]}
    <3>1. \A v \in V : v \in Int
      BY <1>4, <2>1
    <3> HIDE DEF V
    <3> QED BY <2>2, <2>4, <3>1, OwnClaim
  <2> HIDE DEF c, o
  <2>6. Settled(Append(c, o))
    <3>1. Claim(o.price, Unclaimed(c, o.isBid)) # {}
      BY <2>2, <2>5
    <3> QED BY <2>1, <2>2, <3>1, SettledAppend
  <2>7. \A s : Unclaimed(Append(c, o), s) = After(o, s, Unclaimed(c, s))
    BY <2>1, <2>2, LeftAppend
  <2>8. Unclaimed(Append(c, o), isBid) = U \ Taken(j)
    <3>1. Unclaimed(Append(c, o), isBid) = V \ {A[j]}
      BY <2>2, <2>5, <2>7 DEF After
    <3>2. Taken(j) = Taken(j - 1) \cup {A[j]}
      <4>1. \A l : l \in 1..j <=> (l \in 1..(j - 1) \/ l = j)
        BY <1>1
      <4> QED BY <4>1
    <3> HIDE DEF Taken, V
    <3> QED BY <2>1, <3>1, <3>2
  <2>9. \A side : side # isBid => Unclaimed(Append(c, o), side) = Unclaimed(ks, side)
    BY <2>1, <2>2, <2>7 DEF After
  <2>10. Append(c, o) \in Seq(Order)
    BY <2>1, <2>2, AppendProperties
  <2> HIDE DEF Taken, k
  <2>11. Good(j)
    BY <2>3, <2>6, <2>8, <2>9, <2>10
  <2> HIDE DEF Good
  <2> QED BY <1>1, <2>11
<1> HIDE DEF T, Good
<1>9. \A j \in 0..n : j \in T
  BY <1>1, <1>7, <1>8, Reaches
<1>10. n \in 0..n
  BY <1>1
<1>11. Good(n)
  BY <1>9, <1>10 DEF T
<1>12. SubSeq(P, 1, n) = P
  <2>1. SubSeq(P, 1, Len(P)) = P
    BY <1>3, SubSeqFull
  <2> QED BY <1>1, <2>1
<1>13. Taken(n) = S
  BY <1>1, <1>6
<1> HIDE DEF Taken
<1>14. k(n) = ks \o P
  BY <1>12
<1> HIDE DEF k
<1> QED BY <1>11, <1>13, <1>14 DEF Good, P, S, U
-----------------------------------------------------------------------------
(* Quoting: decisions settle.                                              *)

\* The orders after a decision all stand, and leave of the wanted prices only those of
\* which nothing could be sent.
LEMMA DecidedSettled ==
  ASSUME Given, NEW os \in Seq(Order)
  PROVE  /\ Settled(Decided(os))
         /\ \A isBid \in BOOLEAN :
              Unclaimed(Decided(os), isBid) = Unclaimed(os, isBid) \ Sendable(os, isBid)
<1> DEFINE k == Kept(os)
           b == k \o Placed(os, TRUE)
           d == b \o Placed(os, FALSE)
<1>0. \A isBid \in BOOLEAN : Sendable(os, isBid) \subseteq Unclaimed(os, isBid)
  BY DEF Sendable, Unclaimed
<1>1. /\ k \in Seq(Order) /\ Settled(k)
      /\ \A isBid \in BOOLEAN : Unclaimed(k, isBid) = Unclaimed(os, isBid)
  BY KeptSettled
<1> HIDE DEF k, Placed, Sendable, Unclaimed, Settled
<1>2. /\ b \in Seq(Order) /\ Settled(b)
      /\ Unclaimed(b, TRUE) = Unclaimed(k, TRUE) \ Sendable(os, TRUE)
      /\ Unclaimed(b, FALSE) = Unclaimed(k, FALSE)
  <2>1. Sendable(os, TRUE) \subseteq Unclaimed(k, TRUE)
    BY <1>0, <1>1
  <2>2. TRUE # FALSE
    OBVIOUS
  <2> QED BY <1>1, <2>1, <2>2, PlacedSettled
<1> HIDE DEF b
<1>3. /\ Settled(d)
      /\ Unclaimed(d, FALSE) = Unclaimed(b, FALSE) \ Sendable(os, FALSE)
      /\ Unclaimed(d, TRUE) = Unclaimed(b, TRUE)
  <2>1. Sendable(os, FALSE) \subseteq Unclaimed(b, FALSE)
    BY <1>0, <1>1, <1>2
  <2>2. /\ Settled(d)
        /\ Unclaimed(d, FALSE) = Unclaimed(b, FALSE) \ Sendable(os, FALSE)
        /\ \A side : side # FALSE => Unclaimed(d, side) = Unclaimed(b, side)
    BY <1>2, <2>1, PlacedSettled
  <2> HIDE DEF d
  <2>3. TRUE # FALSE
    OBVIOUS
  <2> QED BY <2>2, <2>3
<1>4. d = Decided(os)
  BY DEF Decided, b, k
<1> HIDE DEF d
<1>5. /\ Unclaimed(d, TRUE) = Unclaimed(os, TRUE) \ Sendable(os, TRUE)
      /\ Unclaimed(d, FALSE) = Unclaimed(os, FALSE) \ Sendable(os, FALSE)
  BY <1>1, <1>2, <1>3
<1> QED BY <1>3, <1>4, <1>5

\* Of settled orders all are kept.
LEMMA SettledKept ==
  ASSUME NEW ks \in Seq(Order), Settled(ks)
  PROVE  Kept(ks) = ks
<1>1. PICK keep : Keeps(ks, keep) /\ Kept(ks) = keep[Len(ks)]
  BY KeptFacts
<1> DEFINE n == Len(ks)
           T == {i \in 0..n : Len(keep[i]) = i /\ \A j \in 1..i : keep[i][j] = ks[j]}
<1>2. n \in Nat /\ \A i \in 1..n : ks[i] \in Order
  OBVIOUS
<1>3. /\ keep \in [0..n -> Seq(Order)] /\ keep[0] = <<>>
      /\ \A i \in 1..n : keep[i] = Append(keep[i - 1], ks[i])
  BY <1>1 DEF Keeps, Settled
<1> HIDE DEF n
<1>4. 0 \in T
  BY <1>2, <1>3
<1>5. ASSUME NEW i \in 1..n, i - 1 \in T PROVE i \in T
  <2> DEFINE k == keep[i - 1]
             t == Append(k, ks[i])
  <2>1. /\ k \in Seq(Order) /\ Len(k) = i - 1 /\ \A j \in 1..(i - 1) : k[j] = ks[j]
        /\ ks[i] \in Order /\ i \in 0..n /\ keep[i] = t
    <3>1. i \in 0..n /\ i - 1 \in 0..n /\ ks[i] \in Order
      BY <1>2
    <3>2. k \in Seq(Order) /\ keep[i] = t
      BY <1>3, <3>1
    <3>3. Len(k) = i - 1 /\ \A j \in 1..(i - 1) : k[j] = ks[j]
      BY <1>5
    <3> QED BY <3>1, <3>2, <3>3
  <2> HIDE DEF k
  <2>2. /\ Len(t) = i /\ t[i] = ks[i]
        /\ \A j \in 1..(i - 1) : t[j] = k[j]
    BY <2>1, AppendProperties
  <2> HIDE DEF t
  <2>3. \A j \in 1..i : t[j] = ks[j]
    BY <2>1, <2>2
  <2> QED BY <2>1, <2>2, <2>3
<1> HIDE DEF T
<1>6. \A i \in 0..n : i \in T
  BY <1>2, <1>4, <1>5, Reaches
<1>7. n \in 0..n
  BY <1>2
<1>8. keep[n] \in Seq(Order) /\ Len(keep[n]) = n /\ \A j \in 1..n : keep[n][j] = ks[j]
  BY <1>3, <1>6, <1>7 DEF T
<1>9. keep[n] = ks
  BY <1>8, SeqEqual DEF n
<1> QED BY <1>1, <1>9 DEF n

\* A second decision at the same prices is the first.
LEMMA DecidedTwice ==
  ASSUME Given, NEW os \in Seq(Order)
  PROVE  Decided(Decided(os)) = Decided(os)
<1> DEFINE d == Decided(os)
<1>1. /\ d \in Seq(Order) /\ Settled(d)
      /\ \A isBid \in BOOLEAN : Unclaimed(d, isBid) = Unclaimed(os, isBid) \ Sendable(os, isBid)
  BY DecidedTypes, DecidedSettled
<1> HIDE DEF d
<1>2. Kept(d) = d
  BY <1>1, SettledKept
<1>3. ASSUME NEW isBid \in BOOLEAN PROVE Placed(d, isBid) = <<>>
  <2> DEFINE ok(p) == LET o == Submit(isBid, p, Wanted(isBid)[p])
                      IN o.qty > 0 /\ o.venuePrice > 0 /\ o.venueQty > 0
  <2>1. /\ Sendable(d, isBid) = {p \in Unclaimed(d, isBid) : ok(p)}
        /\ Sendable(os, isBid) = {p \in Unclaimed(os, isBid) : ok(p)}
    BY DEF Sendable, Unclaimed
  <2> HIDE DEF ok
  <2>2. Sendable(d, isBid) = {}
    <3>1. Unclaimed(d, isBid) = Unclaimed(os, isBid) \ Sendable(os, isBid)
      BY <1>1
    <3> QED BY <2>1, <3>1
  <2>3. Len(d) \in Nat
    BY <1>1
  <2>4. Len(Placed(d, isBid)) = 0
    <3>1. Len(Placed(d, isBid)) = Cardinality(Sendable(d, isBid))
      BY <2>3, PlacedFacts
    <3> QED BY <2>2, <3>1, FS_EmptySet
  <2>5. Placed(d, isBid) \in Seq(Order)
    BY <1>1, DecidedTypes
  <2> HIDE DEF Placed
  <2> QED BY <2>4, <2>5
<1>4. Decided(d) = d \o Placed(d, TRUE) \o Placed(d, FALSE)
  BY <1>2 DEF Decided
<1> HIDE DEF Placed
<1>5. Decided(d) = d \o <<>> \o <<>>
  BY <1>3, <1>4
<1>6. d \o <<>> = d
  BY <1>1, ConcatEmptySeq
<1> QED BY <1>5, <1>6 DEF d

\* Whatever is resting, and although an order is recorded as asked for and sent snapped,
\* a second make_decision at the same prices cancels nothing and sends nothing: the
\* strategy does not churn.
THEOREM DecisionsSettle == QuotingSpec => []DecisionSettles
<1>1. QuotingTypeOK => DecisionSettles
  <2> SUFFICES ASSUME QuotingTypeOK PROVE DecisionSettles
    OBVIOUS
  <2>1. Given /\ orders \in Seq(Order)
    BY TypesGive
  <2> QED BY <2>1, DecidedTwice DEF DecisionSettles
<1> QED BY <1>1, QuotingTypes, PTL
-----------------------------------------------------------------------------
(* Quoting: the position limit.                                            *)

\* At most one order a side.
Single(os) == \A i, j \in 1..Len(os) : os[i].isBid = os[j].isBid => i = j

\* What rests on a side, order by order.
Sizes(os, isBid) == {0} \cup {os[i].venueQty : i \in {j \in 1..Len(os) : os[j].isBid = isBid}}

\* What rests on a side with at most one order is that order.
LEMMA SumOfOne ==
  ASSUME NEW os \in Seq(Order), NEW isBid \in BOOLEAN, Single(os)
  PROVE  SumQty(os, isBid) \in Sizes(os, isBid) /\ SumQty(os, isBid) \in Int
<1> DEFINE D == {i \in DOMAIN os : os[i].isBid = isBid}
           q(i) == os[i].venueQty
           x(s) == CHOOSE i \in s : TRUE
           Is(f) == f = [s \in SUBSET D |-> IF s = {} THEN 0 ELSE q(x(s)) + f[s \ {x(s)}]]
           sum == CHOOSE f : Is(f)
           g == [s \in SUBSET D |-> IF s = {} THEN 0 ELSE q(x(s))]
<1>1. SumQty(os, isBid) = sum[D]
  BY DEF SumQty, MapThenSumSet, MapThenFoldSet
<1>a. D = {i \in 1..Len(os) : os[i].isBid = isBid}
  OBVIOUS
<1> HIDE DEF sum, q, D
<1>2. \A i, j \in D : i = j
  BY <1>a DEF Single
<1>3. \A i \in D : q(i) \in Int
  <2>1. \A i \in D : os[i] \in Order
    BY <1>a
  <2> QED BY <2>1 DEF q, Order
<1>4. \A s \in SUBSET D : s # {} => x(s) \in s /\ x(s) \in D /\ s \ {x(s)} = {}
  BY <1>2
<1> HIDE DEF x
<1>5. Is(g)
  <2>1. \A s \in SUBSET D : s # {} => g[s \ {x(s)}] = 0
    BY <1>4
  <2>2. \A s \in SUBSET D : s # {} => q(x(s)) \in Int
    BY <1>3, <1>4
  <2>3. \A s \in SUBSET D : g[s] = IF s = {} THEN 0 ELSE q(x(s)) + g[s \ {x(s)}]
    <3> SUFFICES ASSUME NEW s \in SUBSET D, s # {}
                 PROVE  g[s] = q(x(s)) + g[s \ {x(s)}]
      OBVIOUS
    <3> DEFINE a == q(x(s))
               b == g[s \ {x(s)}]
    <3>1. g[s] = a /\ a \in Int /\ b = 0
      BY <2>1, <2>2
    <3> HIDE DEF a, b
    <3>2. g[s] = a + b
      BY <3>1
    <3> QED BY <3>2 DEF a, b
  <2> QED BY <2>3
<1>6. Is(sum)
  <2> HIDE DEF Is
  <2> QED BY <1>5 DEF sum
<1>7. sum[{}] = 0
  BY <1>6
<1>8. D # {} => sum[D] = q(x(D))
  <2>1. D # {} => sum[D] = q(x(D)) + sum[D \ {x(D)}]
    BY <1>6
  <2>2. D # {} => D \ {x(D)} = {} /\ q(x(D)) \in Int
    BY <1>3, <1>4
  <2> DEFINE a == q(x(D))
             b == sum[D \ {x(D)}]
  <2>3. D # {} => sum[D] = a + b /\ a \in Int /\ b = 0
    BY <1>7, <2>1, <2>2
  <2> HIDE DEF a, b
  <2>4. D # {} => sum[D] = a
    BY <2>3
  <2> QED BY <2>4 DEF a
<1>9. \A i \in D : q(i) \in Sizes(os, isBid)
  BY <1>a DEF Sizes, q
<1>10. D # {} => x(D) \in D /\ q(x(D)) \in Int /\ q(x(D)) \in Sizes(os, isBid)
  BY <1>3, <1>4, <1>9
<1>11. 0 \in Sizes(os, isBid)
  BY DEF Sizes
<1> HIDE DEF SumQty, Sizes
<1>12. CASE D = {}
  BY <1>1, <1>7, <1>11, <1>12
<1>13. CASE D # {}
  BY <1>1, <1>8, <1>10, <1>13
<1> QED BY <1>12, <1>13

\* One order a side, limits in lots: what WithinLimit is about.
OneASide == params.orderNum = 1 /\ ~params.inDollar

\* With at most one wanted price a side, settled orders are at most one a side.
LEMMA SettledApart ==
  ASSUME NEW ks \in Seq(Order), Settled(ks), NEW isBid \in BOOLEAN,
         \A v, w \in DOMAIN Wanted(isBid) : v = w,
         NEW i \in 1..Len(ks), NEW j \in 1..Len(ks),
         ks[i].isBid = isBid, ks[j].isBid = isBid, i < j
  PROVE  FALSE
<1> DEFINE n == Len(ks)
           L == LeftOver(ks, isBid)
           T == {m \in 0..n : i <= m => L[m] = {}}
<1>0. n \in Nat
  OBVIOUS
<1>1. /\ \A m \in 1..n : L[m] = After(ks[m], isBid, L[m - 1])
      /\ \A m \in 0..n : L[m] \subseteq DOMAIN Wanted(isBid)
  BY LeftSteps
<1>2. Claim(ks[i].price, L[i - 1]) # {} /\ Claim(ks[j].price, L[j - 1]) # {}
  BY DEF Settled, Stands
<1>3. \A p, V : Claim(p, V) \subseteq V
  BY DEF Claim
<1> HIDE DEF n, L, Claim, Wanted
<1>4. L[i] = {}
  <2>1. L[i] = L[i - 1] \ Claim(ks[i].price, L[i - 1])
    BY <1>1 DEF After, n
  <2>2. L[i - 1] \subseteq DOMAIN Wanted(isBid)
    BY <1>0, <1>1 DEF n
  <2> QED BY <1>2, <1>3, <2>1, <2>2
<1>5. 0 \in T
  BY <1>0
<1>6. ASSUME NEW m \in 1..n, m - 1 \in T PROVE m \in T
  <2>1. CASE m = i
    BY <1>0, <1>4, <2>1
  <2>2. CASE m # i
    <3>1. i <= m => L[m - 1] = {}
      BY <1>0, <1>6, <2>2
    <3>2. L[m] = After(ks[m], isBid, L[m - 1]) /\ m \in 0..n
      BY <1>0, <1>1
    <3>3. L[m - 1] = {} => L[m] = {}
      BY <3>2 DEF After
    <3> QED BY <3>1, <3>2, <3>3
  <2> QED BY <2>1, <2>2
<1> HIDE DEF T
<1>7. \A m \in 0..n : m \in T
  BY <1>0, <1>5, <1>6, Reaches
<1>8. j - 1 \in 0..n /\ i <= j - 1
  BY <1>0 DEF n
<1>9. L[j - 1] = {}
  BY <1>7, <1>8 DEF T
<1> QED BY <1>2, <1>3, <1>9

\* An order that is kept is one of those before the decision that stand.
LEMMA KeptElements ==
  ASSUME NEW os \in Seq(Order), NEW i \in 1..Len(Kept(os))
  PROVE  \E j \in 1..Len(os) : Stands(os, j) /\ Kept(os)[i] = os[j]
<1>1. PICK keep : Keeps(os, keep) /\ Kept(os) = keep[Len(os)]
  BY KeptFacts
<1> DEFINE n == Len(os)
           T == {m \in 0..n : \A l \in 1..Len(keep[m]) : \E j \in 1..n : Stands(os, j) /\ keep[m][l] = os[j]}
<1>2. n \in Nat /\ \A m \in 1..n : os[m] \in Order
  OBVIOUS
<1>3. /\ keep \in [0..n -> Seq(Order)] /\ keep[0] = <<>>
      /\ \A m \in 1..n : keep[m] = IF Stands(os, m) THEN Append(keep[m - 1], os[m]) ELSE keep[m - 1]
  BY <1>1 DEF Keeps
<1> HIDE DEF n, Stands
<1>4. 0 \in T
  BY <1>2, <1>3
<1>5. ASSUME NEW m \in 1..n, m - 1 \in T PROVE m \in T
  <2> DEFINE k == keep[m - 1]
             t == Append(k, os[m])
  <2>1. m \in 0..n /\ m - 1 \in 0..n /\ os[m] \in Order
    BY <1>2
  <2>2. k \in Seq(Order) /\ \A l \in 1..Len(k) : \E j \in 1..n : Stands(os, j) /\ k[l] = os[j]
    BY <1>3, <1>5, <2>1
  <2>3. (Stands(os, m) /\ keep[m] = t) \/ keep[m] = k
    BY <1>3
  <2> HIDE DEF k
  <2>4. /\ Len(t) = Len(k) + 1 /\ Len(k) \in Nat /\ t[Len(k) + 1] = os[m]
        /\ \A l \in 1..Len(k) : t[l] = k[l]
    BY <2>1, <2>2, AppendProperties
  <2> HIDE DEF t
  <2>5. \A l \in 1..Len(t) : l \in 1..Len(k) \/ l = Len(k) + 1
    BY <2>4
  <2>6. Stands(os, m) => \A l \in 1..Len(t) : \E j \in 1..n : Stands(os, j) /\ t[l] = os[j]
    BY <2>2, <2>4, <2>5
  <2> QED BY <2>1, <2>2, <2>3, <2>6
<1> HIDE DEF T
<1>6. \A m \in 0..n : m \in T
  BY <1>2, <1>4, <1>5, Reaches
<1>7. n \in T
  BY <1>2, <1>6
<1> QED BY <1>1, <1>7 DEF T, n

\* An order after a decision is one of those before it that stand or one that is sent.
LEMMA DecidedElements ==
  ASSUME Given, NEW os \in Seq(Order), NEW i \in 1..Len(Decided(os))
  PROVE  \/ \E j \in 1..Len(os) : Stands(os, j) /\ Decided(os)[i] = os[j]
         \/ \E isBid \in BOOLEAN : \E p \in Sendable(os, isBid) :
              Decided(os)[i] = Submit(isBid, p, Wanted(isBid)[p])
<1> DEFINE k == Kept(os)
           b == Placed(os, TRUE)
           a == Placed(os, FALSE)
           c == k \o b
           d == c \o a
           Sent(o) == \E isBid \in BOOLEAN : \E p \in Sendable(os, isBid) :
                        o = Submit(isBid, p, Wanted(isBid)[p])
<1>0. Len(os) \in Nat
  OBVIOUS
<1>1. k \in Seq(Order) /\ b \in Seq(Order) /\ a \in Seq(Order)
  BY DecidedTypes
<1>2. \A l \in 1..Len(k) : \E j \in 1..Len(os) : Stands(os, j) /\ k[l] = os[j]
  BY KeptElements
<1>3. ASSUME NEW s \in BOOLEAN, NEW l \in 1..Len(Placed(os, s)) PROVE Sent(Placed(os, s)[l])
  <2> DEFINE S == Sendable(os, s)
             n == Cardinality(S)
             A == Ascending(S)
             P == Placed(os, s)
  <2>1. /\ A \in [1..n -> S] /\ Len(P) = n
        /\ P = [m \in 1..n |-> Submit(s, A[m], Wanted(s)[A[m]])]
    BY <1>0, PlacedFacts
  <2> HIDE DEF A, n, P
  <2>2. l \in 1..n
    BY <2>1 DEF P
  <2>3. A[l] \in S /\ P[l] = Submit(s, A[l], Wanted(s)[A[l]])
    BY <2>1, <2>2
  <2> HIDE DEF Sendable, Submit, Wanted
  <2> QED BY <2>3 DEF P
<1>4. (\A l \in 1..Len(b) : Sent(b[l])) /\ (\A l \in 1..Len(a) : Sent(a[l]))
  BY <1>3
<1> HIDE DEF k, b, a, Sent, Stands
<1>5. /\ c \in Seq(Order) /\ Len(c) = Len(k) + Len(b)
      /\ \A l \in 1..(Len(k) + Len(b)) : c[l] = IF l <= Len(k) THEN k[l] ELSE b[l - Len(k)]
  BY <1>1, ConcatProperties
<1> HIDE DEF c
<1>6. /\ Len(d) = Len(c) + Len(a)
      /\ \A l \in 1..(Len(c) + Len(a)) : d[l] = IF l <= Len(c) THEN c[l] ELSE a[l - Len(c)]
  <2>1. c \in Seq(Order) /\ a \in Seq(Order)
    BY <1>1, <1>5
  <2> QED BY <2>1, ConcatProperties
<1>7. d = Decided(os)
  BY DEF Decided, k, b, a, c
<1> HIDE DEF d
<1>8. Len(k) \in Nat /\ Len(b) \in Nat /\ Len(a) \in Nat /\ i \in 1..(Len(k) + Len(b) + Len(a))
  BY <1>1, <1>5, <1>6, <1>7
<1>9. CASE i <= Len(k)
  <2>1. i \in 1..Len(k) /\ i \in 1..Len(c) /\ i \in 1..(Len(c) + Len(a)) /\ i <= Len(c)
    BY <1>5, <1>8, <1>9
  <2>2. d[i] = k[i]
    BY <1>5, <1>6, <1>9, <2>1
  <2> QED BY <1>2, <1>7, <2>1, <2>2
<1>10. CASE ~(i <= Len(k)) /\ i <= Len(c)
  <2>1. i - Len(k) \in 1..Len(b) /\ i \in 1..(Len(k) + Len(b)) /\ i \in 1..(Len(c) + Len(a))
    BY <1>5, <1>8, <1>10
  <2>2. d[i] = b[i - Len(k)]
    BY <1>5, <1>6, <1>10, <2>1
  <2> QED BY <1>4, <1>7, <2>1, <2>2 DEF Sent
<1>11. CASE ~(i <= Len(c))
  <2>1. i - Len(c) \in 1..Len(a) /\ i \in 1..(Len(c) + Len(a))
    BY <1>5, <1>8, <1>11
  <2>2. d[i] = a[i - Len(c)]
    BY <1>6, <1>11, <2>1
  <2> QED BY <1>4, <1>7, <2>1, <2>2 DEF Sent
<1> QED BY <1>9, <1>10, <1>11

\* With one order a side there is one wanted price a side.
LEMMA OneWanted ==
  ASSUME Given, OneASide, NEW isBid \in BOOLEAN
  PROVE  \A v, w \in DOMAIN Wanted(isBid) : v = w
<1>1. CASE liquidate
  BY <1>1 DEF Wanted, Liquidation
<1>2. CASE ~liquidate
  <2>1. \A i \in 0..(params.orderNum - 1) : i = 0
    BY DEF OneASide
  <2>2. \A v \in DOMAIN Wanted(isBid) : \E i \in 0..(params.orderNum - 1) :
          v = IF isBid THEN BidLevel(i) ELSE AskLevel(i)
    BY <1>2 DEF Wanted, Quotes
  <2> HIDE DEF Wanted, BidLevel, AskLevel
  <2> QED BY <2>1, <2>2
<1> QED BY <1>1, <1>2

\* The sizes of a side are numbers, and those of its orders.
LEMMA SizesFacts ==
  ASSUME NEW os \in Seq(Order), NEW s \in BOOLEAN
  PROVE  /\ \A a \in Sizes(os, s) : a \in Int
         /\ 0 \in Sizes(os, s)
         /\ \A i \in 1..Len(os) : os[i].isBid = s => os[i].venueQty \in Sizes(os, s)
         /\ \A a \in Sizes(os, s) : a = 0 \/ \E i \in 1..Len(os) : os[i].isBid = s /\ a = os[i].venueQty
<1>1. \A o \in Order : o.venueQty \in Int
  BY DEF Order
<1>2. \A i \in 1..Len(os) : os[i].venueQty \in Int
  BY <1>1
<1> QED BY <1>2 DEF Sizes

\* An order that goes takes nothing but itself along.
LEMMA RemovedSizes ==
  ASSUME NEW os \in Seq(Order), NEW i \in 1..Len(os), Single(os)
  PROVE  /\ Single(RemoveAt(os, i))
         /\ \A s \in BOOLEAN : Sizes(RemoveAt(os, i), s) \subseteq Sizes(os, s)
         /\ Sizes(RemoveAt(os, i), os[i].isBid) = {0}
<1> DEFINE n == Len(os)
           t == RemoveAt(os, i)
           at(j) == IF j < i THEN j ELSE j + 1
<1>0. n \in Nat /\ i \in 1..n
  OBVIOUS
<1>1. Len(t) = n - 1 /\ \A j \in 1..(n - 1) : t[j] = IF j < i THEN os[j] ELSE os[j + 1]
  BY RemoveFacts
<1> HIDE DEF t
<1>2. \A j \in 1..Len(t) : at(j) \in 1..n /\ at(j) # i /\ t[j] = os[at(j)]
  BY <1>0, <1>1
<1>3. \A j, l \in 1..Len(t) : at(j) = at(l) => j = l
  BY <1>0, <1>1
<1> HIDE DEF at, n
<1>4. \A j, l \in 1..n : os[j].isBid = os[l].isBid => j = l
  BY DEF Single, n
<1>5. Single(t)
  BY <1>2, <1>3, <1>4 DEF Single
<1>6. \A s \in BOOLEAN : Sizes(t, s) \subseteq Sizes(os, s)
  BY <1>2 DEF Sizes, n
<1>7. Sizes(t, os[i].isBid) = {0}
  BY <1>0, <1>2, <1>4 DEF Sizes
<1> QED BY <1>5, <1>6, <1>7 DEF t

\* A fill takes what it fills from the orders of its side.
LEMMA FilledSizes ==
  ASSUME NEW os \in Seq(Order), NEW i \in 1..Len(os), Single(os),
         NEW q \in Int, 1 <= q, q <= os[i].venueQty
  PROVE  /\ Filled(os, i, q) \in Seq(Order) /\ Single(Filled(os, i, q))
         /\ \A s \in BOOLEAN : s # os[i].isBid => Sizes(Filled(os, i, q), s) \subseteq Sizes(os, s)
         /\ \A a \in Sizes(Filled(os, i, q), os[i].isBid) : a \in Int /\ a + q <= os[i].venueQty
<1> DEFINE n == Len(os)
           t == Filled(os, i, q)
           side == os[i].isBid
           v == os[i].venueQty
<1>0. side \in BOOLEAN /\ v \in Int /\ 1 <= q /\ q <= v /\ n \in Nat /\ i \in 1..n
  <2>1. \A o \in Order : o.isBid \in BOOLEAN /\ o.venueQty \in Int
    BY DEF Order
  <2>2. os[i] \in Order
    OBVIOUS
  <2> QED BY <2>1, <2>2
<1>1. /\ t \in Seq(Order)
      /\ \/ t = RemoveAt(os, i)
         \/ /\ Len(t) = n /\ \A j \in 1..n : j # i => t[j] = os[j]
            /\ t[i].isBid = side /\ t[i].venueQty = v - q
  BY FilledFacts
<1>2. \A j, l \in 1..n : os[j].isBid = os[l].isBid => j = l
  BY DEF Single
<1>3. /\ Single(RemoveAt(os, i))
      /\ \A s \in BOOLEAN : Sizes(RemoveAt(os, i), s) \subseteq Sizes(os, s)
      /\ Sizes(RemoveAt(os, i), side) = {0}
  BY RemovedSizes
<1> HIDE DEF t, v, n
<1>4. CASE t = RemoveAt(os, i)
  BY <1>0, <1>1, <1>3, <1>4 DEF t, v
<1>5. CASE /\ Len(t) = n /\ \A j \in 1..n : j # i => t[j] = os[j]
           /\ t[i].isBid = side /\ t[i].venueQty = v - q
  <2>1. \A j \in 1..n : t[j].isBid = os[j].isBid
    BY <1>0, <1>5
  <2>2. Single(t)
    BY <1>2, <1>5, <2>1 DEF Single
  <2>3. ASSUME NEW s \in BOOLEAN, s # side PROVE Sizes(t, s) \subseteq Sizes(os, s)
    <3>1. \A j \in 1..n : t[j].isBid = s => j # i /\ t[j] = os[j]
      BY <1>5, <2>1, <2>3
    <3> QED BY <1>5, <2>1, <3>1 DEF Sizes, n
  <2>4. ASSUME NEW a \in Sizes(t, side) PROVE a \in Int /\ a + q <= v
    <3>1. \A j \in 1..n : t[j].isBid = side => j = i
      BY <1>0, <1>2, <2>1
    <3>2. a = 0 \/ a = v - q
      BY <1>5, <3>1, <2>4 DEF Sizes
    <3> QED BY <1>0, <3>2
  <2> QED BY <1>1, <2>2, <2>3, <2>4 DEF t, v
<1> QED BY <1>1, <1>4, <1>5

\* What a quote may hold, and with a liquidation a close.
Largest == IF liquidate THEN Snapped(params.positionLimit) + Snapped(params.orderSize)
           ELSE Snapped(params.orderSize)

\* What the position may come to.
Furthest == Snapped(params.positionLimit) + Snapped(params.orderSize)

\* Position and fills are on the lot grid; what rests, and what is leaving, is one order
\* a side; a resting order is a quote's or a close's size; and the position stays within
\* reach whichever of them fill.
LimitInv ==
  OneASide /\ ~blind =>
    /\ \E k \in Int : position = k * Lot
    /\ \E k \in Int : unbooked = k * Lot
    /\ Single(orders) /\ Single(leaving)
    /\ \A s \in BOOLEAN : \A a \in Sizes(orders, s) : a <= Largest
    /\ \A a \in Sizes(orders, TRUE), b \in Sizes(leaving, TRUE) :
         (position + unbooked) + a + b <= Furthest
    /\ \A a \in Sizes(orders, FALSE), b \in Sizes(leaving, FALSE) :
         (position + unbooked) - a - b >= -Furthest

\* The bounds are numbers.
LEMMA BoundsTypes ==
  ASSUME Given
  PROVE  /\ Snapped(params.positionLimit) \in Nat /\ Snapped(params.orderSize) \in Nat
         /\ Furthest \in Nat /\ Lot \in Nat \ {0}
         /\ (liquidate => Largest = Furthest)
         /\ (~liquidate => Largest = Snapped(params.orderSize))
<1>1. Lot \in Nat \ {0} /\ params.positionLimit \in Nat /\ params.orderSize \in Nat
  BY MarketFacts DEF Given, Params
<1>2. ASSUME NEW x \in Nat PROVE Snapped(x) \in Nat
  <2>1. 0 * Lot = 0 /\ 0 * Lot <= x
    BY <1>1
  <2>2. Round(x, Lot) \in Int /\ 0 <= Round(x, Lot)
    BY <1>1, <2>1, RoundBounds
  <2> HIDE DEF Round
  <2> QED BY <1>1, <2>2 DEF Snapped
<1> HIDE DEF Snapped
<1> QED BY <1>1, <1>2 DEF Furthest, Largest

\* The room a position leaves.
LEMMA RoomLeft ==
  ASSUME NEW q \in Int, NEW room \in Int, NEW limit \in Int, NEW pos \in Int,
         q <= room, room <= limit - pos
  PROVE  q + pos <= limit
OBVIOUS

\* What is sent is no more than an order's size and the room the position leaves, or
\* closes the position.
LEMMA SentBounded ==
  ASSUME Given, OneASide, NEW k \in Int, position = k * Lot,
         NEW os \in Seq(Order), NEW isBid \in BOOLEAN, NEW p \in Sendable(os, isBid)
  PROVE  LET v == Submit(isBid, p, Wanted(isBid)[p]).venueQty
         IN /\ v \in Int
            /\ liquidate => position = IF isBid THEN -v ELSE v
            /\ ~liquidate => /\ v <= Snapped(params.orderSize)
                             /\ isBid => position + v <= Snapped(params.positionLimit)
                             /\ ~isBid => position - v >= -Snapped(params.positionLimit)
<1> DEFINE q == Wanted(isBid)[p]
           limit == params.positionLimit
           size == params.orderSize
           v == Round(q, Lot) * Lot
<1>0. Lot \in Nat \ {0} /\ limit \in Nat /\ size \in Nat /\ position \in Int /\ Len(os) \in Nat
  BY MarketFacts DEF Given, Params
<1>1. q \in Int /\ p \in DOMAIN Wanted(isBid)
  BY <1>0, SubmitTypes, SendableFacts
<1>2. Submit(isBid, p, Wanted(isBid)[p]).venueQty = v
  BY DEF Submit
<1>3. Round(q, Lot) \in Int /\ v \in Int
  <2>1. Round(q, Lot) \in Int
    BY <1>0, <1>1, RoundBounds
  <2> HIDE DEF Round
  <2> QED BY <1>0, <2>1
<1>4. CASE liquidate
  <2>1. q = Gap(position, 0) /\ (isBid => position < 0) /\ (~isBid => position > 0)
    BY <1>1, <1>4 DEF Wanted, Liquidation
  <2>2. (isBid => q = 0 - position) /\ (~isBid => q = position)
    BY <1>0, <2>1 DEF Gap
  <2> HIDE DEF q, Round
  <2>3. ASSUME NEW j \in Int, q = j * Lot PROVE v = q
    <3>1. Round(q, Lot) * Lot <= j * Lot /\ j * Lot <= Round(q, Lot) * Lot
      <4>1. q <= j * Lot /\ j * Lot <= q
        BY <1>0, <1>1, <2>3
      <4> QED BY <1>0, <1>1, <4>1, RoundBounds
    <3>2. j * Lot \in Int
      BY <1>0
    <3> QED BY <1>3, <2>3, <3>1, <3>2
  <2>4. 0 - position = (-k) * Lot /\ -k \in Int
    BY <1>0
  <2>5. v = q
    BY <2>2, <2>3, <2>4
  <2> HIDE DEF v
  <2>6. position = IF isBid THEN -v ELSE v
    BY <1>0, <1>1, <2>2, <2>5
  <2> QED BY <1>2, <1>3, <1>4, <2>6 DEF q
<1>5. CASE ~liquidate
  <2>1. q = OrderQty(p, QtyLimit(isBid))
    BY <1>1, <1>5 DEF Wanted, Quotes
  <2>2. params.shortSellUnable \in BOOLEAN /\ ~params.inDollar
    BY DEF Given, Params, OneASide
  <2>3. PositionLimitInLots = limit
    BY <2>2 DEF PositionLimitInLots
  <2>4. QtyLimit(isBid) \in Int /\ (isBid => QtyLimit(isBid) <= limit - position)
        /\ (~isBid => QtyLimit(isBid) <= position + limit)
    BY <1>0, <2>2, <2>3 DEF QtyLimit, Least
  <2> HIDE DEF QtyLimit, q, limit
  <2>5. q <= QtyLimit(isBid) /\ q <= size
    BY <1>0, <2>1, <2>2, <2>4 DEF OrderQty, Least
  <2>6. v <= Round(size, Lot) * Lot
    <3>1. q + 0 * Lot <= size /\ 0 \in Int
      BY <1>0, <1>1, <2>5
    <3>2. (Round(q, Lot) + 0) * Lot <= Round(size, Lot) * Lot
      BY <1>0, <1>1, <3>1, RoundShift
    <3> HIDE DEF Round
    <3> QED BY <1>3, <3>2
  <2>7. isBid => position + v <= Round(limit, Lot) * Lot
    <3>0. k * Lot = position
      OBVIOUS
    <3>1. isBid => q + k * Lot <= limit
      <4> HIDE DEF Round
      <4>1. isBid => q + position <= limit
        <5>1. limit \in Int /\ position \in Int /\ QtyLimit(isBid) \in Int
          BY <1>0, <2>4
        <5>2. isBid => QtyLimit(isBid) <= limit - position
          BY <2>4
        <5> HIDE DEF v
        <5> QED BY <1>1, <2>5, <5>1, <5>2, RoomLeft
      <4>2. k * Lot \in Int
        BY <1>0
      <4> QED BY <1>0, <1>1, <3>0, <4>1, <4>2
    <3>2. isBid => (Round(q, Lot) + k) * Lot <= Round(limit, Lot) * Lot
      BY <1>0, <1>1, <3>1, RoundShift
    <3> HIDE DEF Round
    <3>3. (Round(q, Lot) + k) * Lot = position + v
      BY <1>0, <1>3
    <3> QED BY <3>2, <3>3
  <2>8. ~isBid => v - position <= Round(limit, Lot) * Lot
    <3>0. (-k) * Lot = -position /\ -k \in Int
      BY <1>0
    <3>1. ~isBid => q + (-k) * Lot <= limit
      BY <1>0, <1>1, <2>4, <2>5, <3>0
    <3>2. ~isBid => (Round(q, Lot) + (-k)) * Lot <= Round(limit, Lot) * Lot
      BY <1>0, <1>1, <3>0, <3>1, RoundShift
    <3> HIDE DEF Round
    <3>3. (Round(q, Lot) + (-k)) * Lot = v - position
      BY <1>0, <1>3, <3>0
    <3> QED BY <3>2, <3>3
  <2>9. Round(limit, Lot) * Lot \in Int
    <3>1. Round(limit, Lot) \in Int
      BY <1>0, RoundBounds
    <3> HIDE DEF Round
    <3> QED BY <1>0, <3>1
  <2> HIDE DEF v, Round, size
  <2>10. ~isBid => position - v >= -(Round(limit, Lot) * Lot)
    BY <1>0, <1>3, <2>8, <2>9
  <2> QED BY <1>2, <1>3, <1>5, <2>6, <2>7, <2>10 DEF q, Snapped, limit, size
<1> QED BY <1>4, <1>5

\* After a decision a side has what it had, resting or leaving, and what was sent for
\* it beside what is leaving; never two orders that stay.
LEMMA DecidedSizes ==
  ASSUME Given, OneASide, NEW os \in Seq(Order), Single(os), NEW s \in BOOLEAN
  PROVE  /\ Single(Decided(os)) /\ Single(Cancelled(os))
         /\ \A a \in Sizes(Decided(os), s), b \in Sizes(Cancelled(os), s) :
              \/ a \in Sizes(os, s) /\ b = 0
              \/ a = 0 /\ b \in Sizes(os, s)
              \/ /\ b \in Sizes(os, s)
                 /\ \E p \in Sendable(os, s) : a = Submit(s, p, Wanted(s)[p]).venueQty
<1> DEFINE d == Decided(os)
           c == Cancelled(os)
           n == Len(os)
<1>1. d \in Seq(Order) /\ Settled(d)
  BY DecidedTypes, DecidedSettled
<1>2. PICK cids : /\ c \in Seq(Order) /\ cids \in [1..Len(c) -> 1..n]
                  /\ \A i \in 1..Len(c) : ~Stands(os, cids[i]) /\ c[i] = os[cids[i]]
                  /\ \A i, j \in 1..Len(c) : cids[i] = cids[j] => i = j
  BY CancelledFacts
<1>3. \A i \in 1..Len(d) :
        \/ \E j \in 1..n : Stands(os, j) /\ d[i] = os[j]
        \/ \E isBid \in BOOLEAN : \E p \in Sendable(os, isBid) : d[i] = Submit(isBid, p, Wanted(isBid)[p])
  BY DecidedElements
<1> HIDE DEF d, c, Settled, Stands, Sendable, Submit, Wanted
<1>4. \A i, j \in 1..n : os[i].isBid = os[j].isBid => i = j
  BY DEF Single, n
<1>5. Single(c)
  <2>1. \A i \in 1..Len(c) : cids[i] \in 1..n
    BY <1>2
  <2> HIDE DEF n
  <2> QED BY <1>2, <1>4, <2>1 DEF Single
<1>6. Single(d)
  <2>1. ASSUME NEW i \in 1..Len(d), NEW j \in 1..Len(d), d[i].isBid = d[j].isBid, i < j
        PROVE  FALSE
    <3>1. d[i].isBid \in BOOLEAN
      <4>1. d[i] \in Order
        BY <1>1
      <4>2. \A r \in Order : r.isBid \in BOOLEAN
        BY DEF Order
      <4> QED BY <4>1, <4>2
    <3>2. \A v, w \in DOMAIN Wanted(d[i].isBid) : v = w
      BY <3>1, OneWanted
    <3> QED BY <1>1, <2>1, <3>1, <3>2, SettledApart
  <2>2. Len(d) \in Nat
    BY <1>1
  <2>3. \A i, j \in 1..Len(d) : i = j \/ i < j \/ j < i
    BY <2>2
  <2> QED BY <2>1, <2>3 DEF Single
<1>7. ASSUME NEW a \in Sizes(d, s), NEW b \in Sizes(c, s)
      PROVE  \/ a \in Sizes(os, s) /\ b = 0
             \/ a = 0 /\ b \in Sizes(os, s)
             \/ /\ b \in Sizes(os, s)
                /\ \E p \in Sendable(os, s) : a = Submit(s, p, Wanted(s)[p]).venueQty
  <2>1. \/ b = 0
        \/ \E j \in 1..n : ~Stands(os, j) /\ os[j].isBid = s /\ b = os[j].venueQty
    <3>1. \A i \in 1..Len(c) : cids[i] \in 1..n
      BY <1>2
    <3>2. b = 0 \/ \E i \in 1..Len(c) : c[i].isBid = s /\ b = c[i].venueQty
      BY <1>2, SizesFacts
    <3> HIDE DEF n
    <3> QED BY <1>2, <3>1, <3>2
  <2>2. \/ a = 0
        \/ \E j \in 1..n : Stands(os, j) /\ os[j].isBid = s /\ a = os[j].venueQty
        \/ \E p \in Sendable(os, s) : a = Submit(s, p, Wanted(s)[p]).venueQty
    <3>1. a = 0 \/ \E i \in 1..Len(d) : d[i].isBid = s /\ a = d[i].venueQty
      BY <1>1, SizesFacts
    <3>2. \A x, p, q : Submit(x, p, q).isBid = x
      BY DEF Submit
    <3> HIDE DEF n
    <3>3. ASSUME NEW i \in 1..Len(d), d[i].isBid = s, a = d[i].venueQty
          PROVE  \/ \E j \in 1..n : Stands(os, j) /\ os[j].isBid = s /\ a = os[j].venueQty
                 \/ \E p \in Sendable(os, s) : a = Submit(s, p, Wanted(s)[p]).venueQty
      <4>1. CASE \E j \in 1..n : Stands(os, j) /\ d[i] = os[j]
        BY <3>3, <4>1
      <4>2. ASSUME NEW isBid \in BOOLEAN, NEW p \in Sendable(os, isBid),
                   d[i] = Submit(isBid, p, Wanted(isBid)[p])
            PROVE  \E r \in Sendable(os, s) : a = Submit(s, r, Wanted(s)[r]).venueQty
        <5>1. isBid = s
          BY <3>2, <3>3, <4>2
        <5> QED BY <3>3, <4>2, <5>1
      <4> QED BY <1>3, <4>1, <4>2
    <3> QED BY <3>1, <3>3
  <2>3. 0 \in Sizes(os, s) /\ \A j \in 1..n : os[j].isBid = s => os[j].venueQty \in Sizes(os, s)
    BY SizesFacts
  <2> HIDE DEF n
  <2>4. b \in Sizes(os, s)
    BY <2>1, <2>3
  <2>5. CASE a = 0 \/ \E p \in Sendable(os, s) : a = Submit(s, p, Wanted(s)[p]).venueQty
    BY <2>4, <2>5
  <2>6. ASSUME NEW j \in 1..n, Stands(os, j), os[j].isBid = s, a = os[j].venueQty
        PROVE  a \in Sizes(os, s) /\ b = 0
    BY <1>4, <2>1, <2>3, <2>6
  <2> QED BY <2>2, <2>5, <2>6
<1> QED BY <1>5, <1>6, <1>7 DEF d, c

\* A decision keeps the limit: a side keeps its order, or the order it had, no larger
\* than a quote's size, leaves beside one for the room the position has.
LEMMA DecideKeepsLimit ==
  ASSUME QuotingTypeOK, LimitInv, Decide
  PROVE  LimitInv'
<1>1. /\ orders' = Decided(orders) /\ leaving' = Cancelled(orders) /\ leaving = <<>>
      /\ params' = params /\ position' = position /\ unbooked' = unbooked /\ liquidate' = liquidate
      /\ ~blind' => ~blind /\ unbooked = 0
  BY DEF Decide
<1>2. Given /\ orders \in Seq(Order) /\ position \in Int
  BY TypesGive DEF QuotingTypeOK
<1>3. /\ Largest' = Largest /\ Furthest' = Furthest /\ OneASide' = OneASide
      /\ \A os, s : Sizes(os, s)' = Sizes(os, s)
      /\ \A os : Single(os)' = Single(os)
  BY <1>1 DEF Largest, Furthest, Snapped, Round, OneASide, Sizes, Single
<1> DEFINE d == Decided(orders)
           c == Cancelled(orders)
<1> HIDE DEF Largest, Furthest, Single, Sizes, OneASide, d, c
<1> SUFFICES ASSUME OneASide, ~blind, unbooked = 0
             PROVE  /\ Single(d) /\ Single(c)
                    /\ \A s \in BOOLEAN : \A a \in Sizes(d, s) : a <= Largest
                    /\ \A a \in Sizes(d, TRUE), b \in Sizes(c, TRUE) :
                         (position + unbooked) + a + b <= Furthest
                    /\ \A a \in Sizes(d, FALSE), b \in Sizes(c, FALSE) :
                         (position + unbooked) - a - b >= -Furthest
  <2>1. OneASide /\ ~blind => /\ \E k \in Int : position = k * Lot
                              /\ \E k \in Int : unbooked = k * Lot
    BY DEF LimitInv
  <2>2. orders' = d /\ leaving' = c
    BY <1>1 DEF d, c
  <2> QED BY <1>1, <1>3, <2>1, <2>2 DEF LimitInv
<1>4. PICK k \in Int : position = k * Lot
  BY DEF LimitInv
<1>5. /\ Single(orders)
      /\ \A s \in BOOLEAN : \A a \in Sizes(orders, s) : a <= Largest
      /\ \A a \in Sizes(orders, TRUE) : position + a <= Furthest
      /\ \A a \in Sizes(orders, FALSE) : position - a >= -Furthest
  <2>1. <<>> \in Seq(Order) /\ leaving = <<>>
    BY <1>1
  <2>2. 0 \in Sizes(leaving, TRUE) /\ 0 \in Sizes(leaving, FALSE)
    BY <2>1, SizesFacts
  <2>3. \A s \in BOOLEAN : \A a \in Sizes(orders, s) : a \in Int
    BY <1>2, SizesFacts
  <2>4. /\ Single(orders)
        /\ \A s \in BOOLEAN : \A a \in Sizes(orders, s) : a <= Largest
        /\ \A a \in Sizes(orders, TRUE), b \in Sizes(leaving, TRUE) :
             (position + unbooked) + a + b <= Furthest
        /\ \A a \in Sizes(orders, FALSE), b \in Sizes(leaving, FALSE) :
             (position + unbooked) - a - b >= -Furthest
    BY DEF LimitInv
  <2>5. ASSUME NEW a \in Sizes(orders, TRUE) PROVE position + a <= Furthest
    <3>1. (position + unbooked) + a + 0 <= Furthest
      BY <2>2, <2>4
    <3>2. a \in Int
      BY <2>3
    <3>3. (position + unbooked) + a + 0 = position + a
      BY <1>2, <3>2
    <3> QED BY <3>1, <3>3
  <2>6. ASSUME NEW a \in Sizes(orders, FALSE) PROVE position - a >= -Furthest
    <3>1. (position + unbooked) - a - 0 >= -Furthest
      BY <2>2, <2>4
    <3>2. a \in Int
      BY <2>3
    <3>3. (position + unbooked) - a - 0 = position - a
      BY <1>2, <3>2
    <3> QED BY <3>1, <3>3
  <2> QED BY <2>4, <2>5, <2>6
<1>6. /\ Snapped(params.positionLimit) \in Nat /\ Snapped(params.orderSize) \in Nat
      /\ Furthest = Snapped(params.positionLimit) + Snapped(params.orderSize)
      /\ (liquidate => Largest = Furthest)
      /\ (~liquidate => Largest = Snapped(params.orderSize))
  BY <1>2, BoundsTypes DEF Furthest
<1>7. \A s \in BOOLEAN :
        /\ Single(d) /\ Single(c)
        /\ \A a \in Sizes(d, s), b \in Sizes(c, s) :
             \/ a \in Sizes(orders, s) /\ b = 0
             \/ a = 0 /\ b \in Sizes(orders, s)
             \/ /\ b \in Sizes(orders, s)
                /\ \E p \in Sendable(orders, s) : a = Submit(s, p, Wanted(s)[p]).venueQty
  BY <1>2, <1>5, DecidedSizes DEF d, c
<1> DEFINE L == Snapped(params.positionLimit)
           S == Snapped(params.orderSize)
           Sent(s, a) == /\ a \in Int
                         /\ liquidate => position = IF s THEN -a ELSE a
                         /\ ~liquidate => /\ a <= S
                                          /\ s => position + a <= L
                                          /\ ~s => position - a >= -L
<1>8. \A s \in BOOLEAN : \A p \in Sendable(orders, s) : Sent(s, Submit(s, p, Wanted(s)[p]).venueQty)
  BY <1>2, <1>4, SentBounded
<1>9. \A s \in BOOLEAN : \A a \in Sizes(orders, s) : a \in Int
  BY <1>2, SizesFacts
<1>10. \A s \in BOOLEAN : 0 \in Sizes(orders, s) /\ 0 \in Sizes(c, s)
  <2>1. c \in Seq(Order)
    BY <1>2, CancelledFacts DEF c
  <2> QED BY <1>2, <2>1, SizesFacts
<1> HIDE DEF L, S, Sent, Submit, Sendable, Wanted
<1>11. ASSUME NEW s \in BOOLEAN, NEW a \in Sizes(d, s), NEW b \in Sizes(c, s)
       PROVE  \/ a \in Sizes(orders, s) /\ b = 0
              \/ a = 0 /\ b \in Sizes(orders, s)
              \/ b \in Sizes(orders, s) /\ Sent(s, a)
  BY <1>7, <1>8
<1>12. -Furthest <= position /\ position <= Furthest /\ Furthest \in Nat /\ L \in Nat /\ S \in Nat
       /\ Furthest = L + S /\ Largest \in Nat /\ (~liquidate => Largest = S)
  <2>1. position + 0 <= Furthest /\ position - 0 >= -Furthest
    BY <1>5, <1>10
  <2> QED BY <1>2, <1>6, <2>1 DEF L, S
<1>13. ASSUME NEW s \in BOOLEAN, NEW a \in Sizes(d, s) PROVE a <= Largest
  <2>1. 0 \in Sizes(c, s) /\ 0 <= Largest
    BY <1>10, <1>12
  <2>2. CASE a \in Sizes(orders, s) \/ a = 0
    BY <1>5, <2>1, <2>2
  <2>3. CASE Sent(s, a)
    <3>1. CASE liquidate
      <4>1. a = position \/ a = -position
        BY <1>2, <2>3, <3>1 DEF Sent
      <4> QED BY <1>2, <1>6, <1>12, <3>1, <4>1
    <3>2. CASE ~liquidate
      BY <1>12, <2>3, <3>2 DEF Sent
    <3> QED BY <3>1, <3>2
  <2> QED BY <1>11, <2>1, <2>2, <2>3
<1>14. ASSUME NEW a \in Sizes(d, TRUE), NEW b \in Sizes(c, TRUE) PROVE (position + 0) + a + b <= Furthest
  <2>0. \A x \in Sizes(orders, TRUE) : x \in Int /\ (position + 0) + x + 0 = position + x
                                   /\ (position + 0) + 0 + x = position + x
    <3> SUFFICES ASSUME NEW x \in Sizes(orders, TRUE)
                 PROVE  /\ x \in Int /\ (position + 0) + x + 0 = position + x
                        /\ (position + 0) + 0 + x = position + x
      OBVIOUS
    <3>1. x \in Int
      BY <1>9
    <3> QED BY <1>2, <3>1
  <2>1. CASE a \in Sizes(orders, TRUE) /\ b = 0
    BY <1>5, <2>0, <2>1
  <2>2. CASE a = 0 /\ b \in Sizes(orders, TRUE)
    BY <1>5, <2>0, <2>2
  <2>3. CASE b \in Sizes(orders, TRUE) /\ Sent(TRUE, a)
    <3>1. b \in Int /\ b <= Largest /\ a \in Int
      BY <1>5, <1>9, <2>3 DEF Sent
    <3>2. CASE liquidate
      BY <1>2, <1>6, <1>12, <2>3, <3>1, <3>2 DEF Sent
    <3>3. CASE ~liquidate
      BY <1>2, <1>12, <2>3, <3>1, <3>3 DEF Sent
    <3> QED BY <3>2, <3>3
  <2> QED BY <1>11, <2>1, <2>2, <2>3
<1>15. ASSUME NEW a \in Sizes(d, FALSE), NEW b \in Sizes(c, FALSE) PROVE (position + 0) - a - b >= -Furthest
  <2>0. \A x \in Sizes(orders, FALSE) : x \in Int /\ (position + 0) - x - 0 = position - x
                                   /\ (position + 0) - 0 - x = position - x
    <3> SUFFICES ASSUME NEW x \in Sizes(orders, FALSE)
                 PROVE  /\ x \in Int /\ (position + 0) - x - 0 = position - x
                        /\ (position + 0) - 0 - x = position - x
      OBVIOUS
    <3>1. x \in Int
      BY <1>9
    <3> QED BY <1>2, <3>1
  <2>1. CASE a \in Sizes(orders, FALSE) /\ b = 0
    BY <1>5, <2>0, <2>1
  <2>2. CASE a = 0 /\ b \in Sizes(orders, FALSE)
    BY <1>5, <2>0, <2>2
  <2>3. CASE b \in Sizes(orders, FALSE) /\ Sent(FALSE, a)
    <3>1. b \in Int /\ b <= Largest /\ a \in Int
      BY <1>5, <1>9, <2>3 DEF Sent
    <3>2. CASE liquidate
      BY <1>2, <1>6, <1>12, <2>3, <3>1, <3>2 DEF Sent
    <3>3. CASE ~liquidate
      BY <1>2, <1>12, <2>3, <3>1, <3>3 DEF Sent
    <3> QED BY <3>2, <3>3
  <2> QED BY <1>11, <2>1, <2>2, <2>3
<1> QED BY <1>7, <1>13, <1>14, <1>15

\* A fill moves the position by what it takes from its order, resting or leaving, and
\* leaves the other side more room.
LEMMA FillKeepsLimit ==
  ASSUME QuotingTypeOK, LimitInv, Fill
  PROVE  LimitInv'
<1> DEFINE held == position + unbooked
           held1 == position' + unbooked'
           Fits(h, os, ls) ==
             /\ \A a \in Sizes(os, TRUE), b \in Sizes(ls, TRUE) : h + a + b <= Furthest
             /\ \A a \in Sizes(os, FALSE), b \in Sizes(ls, FALSE) : h - a - b >= -Furthest
<1>0. /\ orders \in Seq(Order) /\ leaving \in Seq(Order) /\ position \in Int /\ unbooked \in Int
      /\ held \in Int /\ Given
  BY TypesGive DEF QuotingTypeOK
<1>1. UNCHANGED <<params, liquidate, blind>>
  BY DEF Fill
<1>2. Largest \in Int /\ 0 <= Largest /\ Furthest \in Int /\ Lot \in Nat \ {0}
  BY <1>0, BoundsTypes
<1>3. /\ Largest' = Largest /\ Furthest' = Furthest /\ OneASide' = OneASide
      /\ \A os, s : Sizes(os, s)' = Sizes(os, s)
      /\ \A os : Single(os)' = Single(os)
  BY <1>1 DEF Largest, Furthest, Snapped, Round, OneASide, Sizes, Single
<1> HIDE DEF Largest, Furthest, Single, Sizes, OneASide
<1> SUFFICES ASSUME OneASide, ~blind
             PROVE  /\ \E k \in Int : position' = k * Lot
                    /\ \E k \in Int : unbooked' = k * Lot
                    /\ Single(orders') /\ Single(leaving')
                    /\ \A s \in BOOLEAN : \A a \in Sizes(orders', s) : a <= Largest
                    /\ Fits(held1, orders', leaving')
  BY <1>1, <1>3 DEF LimitInv
<1>4. /\ Single(orders) /\ Single(leaving) /\ Fits(held, orders, leaving)
      /\ \A s \in BOOLEAN : \A a \in Sizes(orders, s) : a <= Largest
  BY DEF LimitInv
<1>5. ASSUME NEW os, NEW i, NEW q, FillOf(os, i, q)
      PROVE  (\E k \in Int : position' = k * Lot) /\ \E k \in Int : unbooked' = k * Lot
  <2>1. PICK m \in Nat : q = m * Lot
    BY <1>2, <1>5, OnGrid DEF FillOf
  <2>2. ASSUME NEW x \in Int, NEW k \in Int, x = k * Lot, NEW y \in {x, x + q, x - q}
        PROVE  \E l \in Int : y = l * Lot
    <3>1. x + q = (k + m) * Lot /\ x - q = (k - m) * Lot /\ k + m \in Int /\ k - m \in Int
      BY <1>2, <2>1, <2>2
    <3> QED BY <2>2, <3>1
  <2>3. PICK k \in Int : position = k * Lot
    BY DEF LimitInv
  <2>4. PICK l \in Int : unbooked = l * Lot
    BY DEF LimitInv
  <2>5. position' \in {position, position + q, position - q}
        /\ unbooked' \in {unbooked, unbooked + q, unbooked - q}
    BY <1>5 DEF FillOf
  <2> QED BY <1>0, <2>2, <2>3, <2>4, <2>5
<1>6. ASSUME NEW os \in Seq(Order), NEW i \in 1..Len(os), NEW q, FillOf(os, i, q), Single(os)
      PROVE  LET t == Filled(os, i, q)
                 v == os[i].venueQty
             IN /\ t \in Seq(Order) /\ Single(t) /\ q \in Int /\ 1 <= q /\ v \in Int /\ q <= v
                /\ v \in Sizes(os, os[i].isBid) /\ os[i].isBid \in BOOLEAN
                /\ \A s \in BOOLEAN : s # os[i].isBid => Sizes(t, s) \subseteq Sizes(os, s)
                /\ \A a \in Sizes(t, os[i].isBid) : a \in Int /\ a + q <= v
                /\ os[i].isBid => held1 = held + q
                /\ ~os[i].isBid => held1 = held - q
  <2>1. /\ q \in Int /\ 1 <= q /\ q <= os[i].venueQty
        /\ os[i].isBid => held1 = held + q
        /\ ~os[i].isBid => held1 = held - q
    BY <1>6 DEF FillOf
  <2>2. os[i] \in Order
    OBVIOUS
  <2>3. \A o \in Order : o.isBid \in BOOLEAN /\ o.venueQty \in Int
    BY DEF Order
  <2>4. os[i].venueQty \in Sizes(os, os[i].isBid)
    BY <2>2, <2>3, SizesFacts
  <2> HIDE DEF held, held1, Filled
  <2> QED BY <1>6, <2>1, <2>2, <2>3, <2>4, FilledSizes
<1>7. \A s \in BOOLEAN : \A a \in Sizes(orders, s) : a \in Int
  BY <1>0, SizesFacts
<1>8. \A s \in BOOLEAN : \A a \in Sizes(leaving, s) : a \in Int
  BY <1>0, SizesFacts
<1> HIDE DEF held, held1
<1>9. ASSUME NEW i \in 1..Len(orders), NEW q, FillOf(orders, i, q),
             orders' = Filled(orders, i, q), leaving' = leaving
      PROVE  /\ Single(orders') /\ Single(leaving')
             /\ \A s \in BOOLEAN : \A a \in Sizes(orders', s) : a <= Largest
             /\ Fits(held1, orders', leaving')
  <2> DEFINE side == orders[i].isBid
             v == orders[i].venueQty
             t == Filled(orders, i, q)
  <2>1. /\ t \in Seq(Order) /\ Single(t) /\ q \in Int /\ 1 <= q /\ v \in Int /\ q <= v
        /\ v \in Sizes(orders, side) /\ side \in BOOLEAN
        /\ \A s \in BOOLEAN : s # side => Sizes(t, s) \subseteq Sizes(orders, s)
        /\ \A a \in Sizes(t, side) : a \in Int /\ a + q <= v
        /\ side => held1 = held + q
        /\ ~side => held1 = held - q
    BY <1>0, <1>4, <1>6, <1>9
  <2> HIDE DEF t, v, side
  <2>2. \A s \in BOOLEAN : \A a \in Sizes(t, s) : a <= Largest
    <3>1. v <= Largest
      BY <1>4, <2>1
    <3>2. \A a \in Sizes(t, side) : a <= Largest
      BY <1>2, <2>1, <3>1
    <3> QED BY <1>4, <2>1, <3>2
  <2>3. ASSUME NEW a \in Sizes(t, TRUE), NEW b \in Sizes(leaving, TRUE) PROVE held1 + a + b <= Furthest
    <3>1. CASE side
      <4>1. held + v + b <= Furthest /\ a + q <= v /\ a \in Int /\ b \in Int /\ held1 = held + q
        BY <1>4, <1>8, <2>1, <3>1
      <4> QED BY <1>0, <1>2, <2>1, <4>1
    <3>2. CASE ~side
      <4>1. a \in Sizes(orders, TRUE)
        BY <2>1, <3>2
      <4>2. held + a + b <= Furthest /\ a \in Int /\ b \in Int /\ held1 = held - q
        BY <1>4, <1>7, <1>8, <2>1, <3>2, <4>1
      <4> QED BY <1>0, <1>2, <2>1, <4>2
    <3> QED BY <3>1, <3>2
  <2>4. ASSUME NEW a \in Sizes(t, FALSE), NEW b \in Sizes(leaving, FALSE) PROVE held1 - a - b >= -Furthest
    <3>1. CASE ~side
      <4>1. held - v - b >= -Furthest /\ a + q <= v /\ a \in Int /\ b \in Int /\ held1 = held - q
        BY <1>4, <1>8, <2>1, <3>1
      <4> QED BY <1>0, <1>2, <2>1, <4>1
    <3>2. CASE side
      <4>1. a \in Sizes(orders, FALSE)
        BY <2>1, <3>2
      <4>2. held - a - b >= -Furthest /\ a \in Int /\ b \in Int /\ held1 = held + q
        BY <1>4, <1>7, <1>8, <2>1, <3>2, <4>1
      <4> QED BY <1>0, <1>2, <2>1, <4>2
    <3> QED BY <3>1, <3>2
  <2>5. orders' = t /\ leaving' = leaving
    BY <1>9 DEF t
  <2> QED BY <1>4, <2>1, <2>2, <2>3, <2>4, <2>5
<1>10. ASSUME NEW i \in 1..Len(leaving), NEW q, FillOf(leaving, i, q),
              leaving' = Filled(leaving, i, q), orders' = orders
       PROVE  /\ Single(orders') /\ Single(leaving')
              /\ \A s \in BOOLEAN : \A a \in Sizes(orders', s) : a <= Largest
              /\ Fits(held1, orders', leaving')
  <2> DEFINE side == leaving[i].isBid
             v == leaving[i].venueQty
             t == Filled(leaving, i, q)
  <2>1. /\ t \in Seq(Order) /\ Single(t) /\ q \in Int /\ 1 <= q /\ v \in Int /\ q <= v
        /\ v \in Sizes(leaving, side) /\ side \in BOOLEAN
        /\ \A s \in BOOLEAN : s # side => Sizes(t, s) \subseteq Sizes(leaving, s)
        /\ \A a \in Sizes(t, side) : a \in Int /\ a + q <= v
        /\ side => held1 = held + q
        /\ ~side => held1 = held - q
    BY <1>0, <1>4, <1>6, <1>10
  <2> HIDE DEF t, v, side
  <2>3. ASSUME NEW a \in Sizes(orders, TRUE), NEW b \in Sizes(t, TRUE) PROVE held1 + a + b <= Furthest
    <3>1. CASE side
      <4>1. held + a + v <= Furthest /\ b + q <= v /\ a \in Int /\ b \in Int /\ held1 = held + q
        BY <1>4, <1>7, <2>1, <3>1
      <4> QED BY <1>0, <1>2, <2>1, <4>1
    <3>2. CASE ~side
      <4>1. b \in Sizes(leaving, TRUE)
        BY <2>1, <3>2
      <4>2. held + a + b <= Furthest /\ a \in Int /\ b \in Int /\ held1 = held - q
        BY <1>4, <1>7, <1>8, <2>1, <3>2, <4>1
      <4> QED BY <1>0, <1>2, <2>1, <4>2
    <3> QED BY <3>1, <3>2
  <2>4. ASSUME NEW a \in Sizes(orders, FALSE), NEW b \in Sizes(t, FALSE) PROVE held1 - a - b >= -Furthest
    <3>1. CASE ~side
      <4>1. held - a - v >= -Furthest /\ b + q <= v /\ a \in Int /\ b \in Int /\ held1 = held - q
        BY <1>4, <1>7, <2>1, <3>1
      <4> QED BY <1>0, <1>2, <2>1, <4>1
    <3>2. CASE side
      <4>1. b \in Sizes(leaving, FALSE)
        BY <2>1, <3>2
      <4>2. held - a - b >= -Furthest /\ a \in Int /\ b \in Int /\ held1 = held + q
        BY <1>4, <1>7, <1>8, <2>1, <3>2, <4>1
      <4> QED BY <1>0, <1>2, <2>1, <4>2
    <3> QED BY <3>1, <3>2
  <2>5. orders' = orders /\ leaving' = t
    BY <1>10 DEF t
  <2> QED BY <1>4, <2>1, <2>3, <2>4, <2>5
<1> HIDE DEF FillOf, Fits
<1> QED BY <1>5, <1>9, <1>10, FillFacts

\* With one order a side and limits in lots, and as long as no decision is made between
\* a fill and its position message, the position stays within the limit and one order's
\* size, each snapped to the lot, whatever rests or is being cancelled when it fills:
\* make_decision sizes a quote by the room the position leaves, choose_orders_to_cancel
\* keeps at most one order a side, and update_orders waits for the cancels it sent.
THEOREM LimitHolds == QuotingSpec => []WithinLimit
<1>1. QuotingInit => LimitInv
  <2> SUFFICES ASSUME QuotingInit PROVE LimitInv
    OBVIOUS
  <2>1. /\ position = 0 /\ unbooked = 0 /\ orders = <<>> /\ leaving = <<>>
        /\ params \in Params /\ market \in Market
    BY QuotingAssumption DEF QuotingInit
  <2>2. Given
    BY <2>1 DEF Given
  <2>3. 0 = 0 * Lot /\ 0 \in Int
    BY <2>2, BoundsTypes
  <2>4. Single(<<>>) /\ \A s : Sizes(<<>>, s) = {0}
    BY DEF Single, Sizes
  <2>5. 0 <= Largest /\ Furthest \in Nat
    BY <2>2, BoundsTypes
  <2> HIDE DEF Single, Sizes, Largest, Furthest
  <2>6. (0 + 0) + 0 + 0 <= Furthest /\ (0 + 0) - 0 - 0 >= -Furthest
    BY <2>5
  <2> QED BY <2>1, <2>3, <2>4, <2>5, <2>6 DEF LimitInv
<1>2. QuotingTypeOK /\ LimitInv /\ [QuotingNext]_quotingVars => LimitInv'
  <2> SUFFICES ASSUME QuotingTypeOK, LimitInv, [QuotingNext]_quotingVars PROVE LimitInv'
    OBVIOUS
  <2>1. CASE Decide
    BY <2>1, DecideKeepsLimit
  <2>2. CASE Fill
    BY <2>2, FillKeepsLimit
  <2>3. CASE UNCHANGED <<params, position, unbooked, orders, leaving, liquidate, blind>>
    BY <2>3 DEF LimitInv, OneASide, Single, Sizes, Largest, Furthest, Snapped, Round
  <2>4. TouchMoves \/ UNCHANGED quotingVars
          => UNCHANGED <<params, position, unbooked, orders, leaving, liquidate, blind>>
    BY DEF TouchMoves, quotingVars
  <2>5. CASE StartFlatten
    <3>1. /\ UNCHANGED <<params, position, unbooked, orders, leaving, blind>>
          /\ liquidate' /\ ~liquidate
      BY <2>5 DEF StartFlatten
    <3>2. /\ Furthest' = Furthest /\ OneASide' = OneASide /\ Single(orders)' = Single(orders)
          /\ Single(leaving)' = Single(leaving) /\ Largest' = Furthest
          /\ \A s : Sizes(orders, s)' = Sizes(orders, s) /\ Sizes(leaving, s)' = Sizes(leaving, s)
      BY <3>1 DEF OneASide, Single, Sizes, Largest, Furthest, Snapped, Round
    <3>3. Largest \in Nat /\ Furthest \in Nat /\ Largest <= Furthest
      <4>1. Given
        BY TypesGive
      <4>2. Snapped(params.positionLimit) \in Nat /\ Snapped(params.orderSize) \in Nat
        BY <4>1, BoundsTypes
      <4> HIDE DEF Snapped
      <4> QED BY <3>1, <4>2 DEF Largest, Furthest
    <3>4. \A s \in BOOLEAN : \A a \in Sizes(orders, s) : a \in Int
      BY SizesFacts DEF QuotingTypeOK
    <3> HIDE DEF OneASide, Single, Sizes, Largest, Furthest
    <3>5. \A s \in BOOLEAN : \A a \in Sizes(orders, s) : a <= Largest => a <= Furthest
      BY <3>3, <3>4
    <3> QED BY <3>1, <3>2, <3>5 DEF LimitInv
  <2>6. CASE CancelDone
    <3>1. UNCHANGED <<params, position, unbooked, orders, liquidate, blind>>
      BY <2>6 DEF CancelDone
    <3>2. leaving \in Seq(Order) /\ DOMAIN leaving = 1..Len(leaving)
      BY DEF QuotingTypeOK
    <3>3. PICK i \in 1..Len(leaving) : leaving' = RemoveAt(leaving, i)
      BY <2>6, <3>2 DEF CancelDone
    <3>4. Single(leaving) => /\ Single(RemoveAt(leaving, i))
                             /\ \A s \in BOOLEAN : Sizes(RemoveAt(leaving, i), s) \subseteq Sizes(leaving, s)
      BY <3>2, RemovedSizes
    <3>5. /\ Furthest' = Furthest /\ OneASide' = OneASide /\ Largest' = Largest
          /\ \A os, s : Sizes(os, s)' = Sizes(os, s)
          /\ \A os : Single(os)' = Single(os)
      BY <3>1 DEF OneASide, Single, Sizes, Largest, Furthest, Snapped, Round
    <3>6. /\ Single(leaving)' = Single(RemoveAt(leaving, i))
          /\ \A s : Sizes(leaving, s)' = Sizes(RemoveAt(leaving, i), s) /\ Sizes(orders, s)' = Sizes(orders, s)
          /\ Single(orders)' = Single(orders)
      BY <3>1, <3>3 DEF Single, Sizes
    <3> HIDE DEF OneASide, Single, Sizes, Largest, Furthest
    <3> QED BY <3>1, <3>4, <3>5, <3>6 DEF LimitInv
  <2>7. CASE OnPosition
    <3>1. /\ UNCHANGED <<params, orders, leaving, liquidate, blind>>
          /\ position' = position + unbooked /\ unbooked' = 0
      BY <2>7 DEF OnPosition
    <3>2. /\ Furthest' = Furthest /\ OneASide' = OneASide /\ Largest' = Largest
          /\ \A s : Sizes(orders, s)' = Sizes(orders, s) /\ Sizes(leaving, s)' = Sizes(leaving, s)
          /\ Single(orders)' = Single(orders) /\ Single(leaving)' = Single(leaving)
      BY <3>1 DEF OneASide, Single, Sizes, Largest, Furthest, Snapped, Round
    <3>3. position' + unbooked' = position + unbooked /\ Lot \in Nat /\ position \in Int /\ unbooked \in Int
      BY <3>1, TypesGive, BoundsTypes DEF QuotingTypeOK
    <3>4. ASSUME NEW k \in Int, NEW l \in Int, position = k * Lot, unbooked = l * Lot
          PROVE  /\ \E m \in Int : position' = m * Lot
                 /\ \E m \in Int : unbooked' = m * Lot
      <4>1. position' = (k + l) * Lot /\ unbooked' = 0 * Lot /\ k + l \in Int /\ 0 \in Int
        BY <3>1, <3>3, <3>4
      <4> QED BY <4>1
    <3> HIDE DEF OneASide, Single, Sizes, Largest, Furthest
    <3> QED BY <3>1, <3>2, <3>3, <3>4 DEF LimitInv
  <2> QED BY <2>1, <2>2, <2>3, <2>4, <2>5, <2>6, <2>7 DEF QuotingNext
<1>3. QuotingTypeOK /\ LimitInv => WithinLimit
  <2> SUFFICES ASSUME QuotingTypeOK, LimitInv, OneASide, ~blind
               PROVE  /\ (position + unbooked) + SumQty(orders, TRUE) + SumQty(leaving, TRUE) <= Furthest
                      /\ (position + unbooked) - SumQty(orders, FALSE) - SumQty(leaving, FALSE) >= -Furthest
    BY DEF WithinLimit, OneASide, Furthest
  <2>1. orders \in Seq(Order) /\ leaving \in Seq(Order)
    BY DEF QuotingTypeOK
  <2>2. Single(orders) /\ Single(leaving)
    BY DEF LimitInv
  <2>3. \A s \in BOOLEAN : SumQty(orders, s) \in Sizes(orders, s) /\ SumQty(leaving, s) \in Sizes(leaving, s)
    BY <2>1, <2>2, SumOfOne
  <2> HIDE DEF SumQty, Sizes, Furthest
  <2> QED BY <2>3 DEF LimitInv
<1> QED BY <1>1, <1>2, <1>3, QuotingTypes, PTL DEF QuotingSpec
=============================================================================
