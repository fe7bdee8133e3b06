----------------------------- MODULE FairPrice -----------------------------
(***************************************************************************)
(* One product's fair price, from the listener's book to the trader's      *)
(* decision: the pricer service (pricer/pricer.cpp), the fair price modes  *)
(* and the microprice factor (pricer/fair_price, pricer/factor), and what  *)
(* the trader makes of it (OrderHandler::on_orderbook, on_fair_price,      *)
(* build_price_info).  The TCP links are FIFO and may drop; FeedLink has   *)
(* their detail.  Prices are in ticks; a factor is in 1/Unit and a fair or *)
(* mid price in 1/(2*Unit) ticks, so that arithmetic stays in the integers.*)
(***************************************************************************)
EXTENDS Integers, Sequences

CONSTANTS
  Books,       \* the tops of book the venue may show, see Book
  Modes,       \* the --fair_price_mode it may be started with
  Unit, Cap,   \* a factor of 1, and cap_bp
  Alpha,       \* ema_alpha, in tenths
  MaxAge,      \* fair_price_max_age_ns_, in publish intervals
  MaxNow,      \* bound on the clock
  MaxFeed,     \* bound on each process's queue
  MaxBreaks    \* bound on the links lost and the pricer restarts

Book == [bid : Nat, ask : Nat, bq : Nat, aq : Nat]   \* price 0: no such side

ASSUME FairPriceAssumption ==
  /\ Books \subseteq Book
  /\ Modes \subseteq {"MID", "VWAP", "FACTOR"}
  /\ Unit \in Nat \ {0} /\ Cap \in 0..Unit /\ Alpha \in 0..10
  /\ MaxAge \in Int /\ MaxNow \in Nat /\ MaxFeed \in Nat /\ MaxBreaks \in Nat

Service == {"pricer", "trader"}   \* the listener's two clients
NaN == -1
NoBook == [bid |-> 0, ask |-> 0, bq |-> 0, aq |-> 0]
NoFairPrice == [ts |-> 0, price |-> NaN, factor |-> NaN, frozen |-> FALSE]

VARIABLES
  mode,        \* --fair_price_mode
  now,
  link,        \* each service's link to the listener: "down", "up", "subscribed"
  feed,        \* the listener client's tasks in its task queue: a status or a book
  connected,   \* listener_connected_
  book,        \* the pricer's market, the trader's l1
  bookSeen,    \* book_seen
  ema,         \* ema_factor_
  ticks,       \* FairPriceUpdates in the pricer's queue
  wire,        \* fair prices on their way to the trader, or in its queue; `frozen' is
               \* history: computed from a book of an earlier link than the present one
  plink,       \* the trader's link to the pricer, subscribed
  fair,        \* the trader's FairPriceState; its price is NaN before the first
  current,     \* history: has the pricer's present link brought a book?
  heard,       \* history: when the pricer last had its link, and last a book of it
  breaks

vars == <<mode, now, link, feed, connected, book, bookSeen, ema, ticks, wire,
          plink, fair, current, heard, breaks>>

Init ==
  /\ mode \in Modes /\ now = 0 /\ breaks = 0
  /\ current = FALSE /\ heard = [link |-> 0, book |-> 0]
  /\ link = [s \in Service |-> "down"]
  /\ feed = [s \in Service |-> <<>>]
  /\ connected = [s \in Service |-> FALSE]
  /\ book = [s \in Service |-> NoBook]
  /\ bookSeen = FALSE /\ ema = NaN /\ ticks = 0
  /\ wire = <<>> /\ plink = FALSE /\ fair = NoFairPrice
-----------------------------------------------------------------------------
(* Fair price and factor.                                                  *)

TwoSided(b) == b.bid > 0 /\ b.ask > 0

Mid(b) == Unit * (b.bid + b.ask)

\* Weighted by the opposite side's size.
Vwap(b) ==
  IF b.bq + b.aq = 0 THEN NaN
  ELSE (2 * Unit * (b.bid * b.aq + b.ask * b.bq)) \div (b.bq + b.aq)

Clamp(f) == IF f < Unit - Cap THEN Unit - Cap ELSE IF f > Unit + Cap THEN Unit + Cap ELSE f

Smooth(f) == IF ema = NaN THEN f ELSE (Alpha * f + (10 - Alpha) * ema) \div 10

\* MicropriceFactor::compute, imbalance_exponent 1.
RawFactor(b) == IF Vwap(b) = NaN THEN NaN ELSE Vwap(b) \div (b.bid + b.ask)

\* Mutant: smoothed but not clamped.
FactorUnclamped(b) == IF RawFactor(b) = NaN THEN NaN ELSE Smooth(RawFactor(b))

Factor(b) == IF RawFactor(b) = NaN THEN NaN ELSE Smooth(Clamp(RawFactor(b)))

\* FairPriceCalculator::compute for a two-sided book: the price, the factor in it
\* if there is one, and the EMA left behind.
Compute(b) ==
  CASE mode = "MID"    -> [price |-> Mid(b), factor |-> NaN, ema |-> ema]
    [] mode = "VWAP"   -> [price |-> IF Vwap(b) = NaN THEN Mid(b) ELSE Vwap(b),
                           factor |-> NaN, ema |-> ema]
    [] mode = "FACTOR" -> IF Factor(b) = NaN
                          THEN [price |-> Mid(b), factor |-> NaN, ema |-> ema]
                          ELSE [price |-> Factor(b) * (b.bid + b.ask),
                                factor |-> Factor(b), ema |-> Factor(b)]
-----------------------------------------------------------------------------
(* The listener's side: the book moves and is broadcast to each subscriber. *)

MarketMoves ==
  \E b \in Books :
    /\ \E s \in Service : link[s] = "subscribed"
    /\ \A s \in Service : Len(feed[s]) < MaxFeed
    /\ feed' = [s \in Service |->
                  IF link[s] = "subscribed" THEN Append(feed[s], <<"book", b>>) ELSE feed[s]]
    /\ UNCHANGED <<mode, now, link, connected, book, bookSeen, ema, ticks, wire,
                   plink, fair, current, heard, breaks>>

LinkUp(s) ==
  /\ link[s] = "down" /\ Len(feed[s]) < MaxFeed
  /\ link' = [link EXCEPT ![s] = "up"]
  /\ feed' = [feed EXCEPT ![s] = Append(@, <<"status", TRUE>>)]
  /\ UNCHANGED <<mode, now, connected, book, bookSeen, ema, ticks, wire, plink,
                 fair, current, heard, breaks>>

LinkDown(s) ==
  /\ link[s] # "down" /\ Len(feed[s]) < MaxFeed /\ breaks < MaxBreaks
  /\ breaks' = breaks + 1
  /\ link' = [link EXCEPT ![s] = "down"]
  /\ feed' = [feed EXCEPT ![s] = Append(@, <<"status", FALSE>>)]
  /\ UNCHANGED <<mode, now, connected, book, bookSeen, ema, ticks, wire, plink,
                 fair, current, heard>>

\* The trader's link to the pricer: what is still on it is lost with it; the trader
\* takes what is in its queue and keeps the last value it got.
WireCut == \E k \in 0..Len(wire) : wire' = SubSeq(wire, 1, k)

PricerLinkUp ==
  /\ ~plink /\ plink' = TRUE
  /\ UNCHANGED <<mode, now, link, feed, connected, book, bookSeen, ema, ticks,
                 wire, fair, current, heard, breaks>>

PricerLinkDown ==
  /\ plink /\ plink' = FALSE /\ WireCut
  /\ breaks < MaxBreaks /\ breaks' = breaks + 1
  /\ UNCHANGED <<mode, now, link, feed, connected, book, bookSeen, ema, ticks,
                 fair, current, heard>>
-----------------------------------------------------------------------------
(* Tasks of either process.                                                *)

\* What the pricer has heard of its listener by the end of a step.
Hears ==
  heard' = [link |-> IF connected'["pricer"] THEN now' ELSE heard.link,
            book |-> IF connected'["pricer"] /\ current' THEN now' ELSE heard.book]

\* on_listener_status: subscribe on the way up.
OnListenerStatus(s) ==
  LET up == Head(feed[s])[2]
  IN /\ connected' = [connected EXCEPT ![s] = up]
     /\ link' = IF up /\ ~connected[s] /\ link[s] = "up"
                THEN [link EXCEPT ![s] = "subscribed"] ELSE link
     /\ current' = (current /\ (s = "pricer" => up))
     /\ UNCHANGED <<book, bookSeen>>

\* on_orderbook
OnOrderbook(s) ==
  /\ book' = [book EXCEPT ![s] = Head(feed[s])[2]]
  /\ bookSeen' = (bookSeen \/ s = "pricer")
  /\ current' = (current \/ (s = "pricer" /\ connected[s]))
  /\ UNCHANGED <<connected, link>>

TakeFeed(s) ==
  /\ feed[s] # <<>>
  /\ feed' = [feed EXCEPT ![s] = Tail(@)]
  /\ IF Head(feed[s])[1] = "status" THEN OnListenerStatus(s) ELSE OnOrderbook(s)
  /\ UNCHANGED <<mode, now, ema, ticks, wire, plink, fair, breaks>>
  /\ Hears
-----------------------------------------------------------------------------
(* The pricer.                                                             *)

\* set_publish_timer's handler
TimerFires ==
  /\ ticks < 1 /\ ticks' = ticks + 1
  /\ UNCHANGED <<mode, now, link, feed, connected, book, bookSeen, ema, wire,
                 plink, fair, current, heard, breaks>>

\* Mutant: published whatever the link.
MayPublishAlways == bookSeen /\ TwoSided(book["pricer"])

\* The early returns of publish_fair_price.
MayPublish == connected["pricer"] /\ bookSeen /\ TwoSided(book["pricer"])

PublishFairPrice ==
  /\ ticks > 0 /\ ticks' = ticks - 1
  /\ IF MayPublish
     THEN LET b == book["pricer"]
              r == Compute(b)
          IN /\ Len(wire) < MaxFeed
             /\ ema' = r.ema
             /\ wire' = IF plink
                        THEN Append(wire, [ts |-> now, price |-> r.price, factor |-> r.factor,
                                           frozen |-> ~current])
                        ELSE wire
     ELSE UNCHANGED <<ema, wire>>
  /\ UNCHANGED <<mode, now, link, feed, connected, book, bookSeen, plink, fair,
                 current, heard, breaks>>

\* The pricer process is restarted: its links go with it.
PricerRestarts ==
  /\ breaks < MaxBreaks /\ breaks' = breaks + 1
  /\ link' = [link EXCEPT !["pricer"] = "down"]
  /\ feed' = [feed EXCEPT !["pricer"] = <<>>]
  /\ connected' = [connected EXCEPT !["pricer"] = FALSE]
  /\ book' = [book EXCEPT !["pricer"] = NoBook]
  /\ bookSeen' = FALSE /\ current' = FALSE /\ ema' = NaN /\ ticks' = 0
  /\ plink' = FALSE /\ WireCut
  /\ UNCHANGED <<mode, now, fair, heard>>
-----------------------------------------------------------------------------
(* The trader.                                                             *)

OnFairPrice ==
  /\ wire # <<>> /\ wire' = Tail(wire)
  /\ fair' = Head(wire)
  /\ UNCHANGED <<mode, now, link, feed, connected, book, bookSeen, ema, ticks,
                 plink, current, heard, breaks>>

Usable == fair.price # NaN /\ (MaxAge <= 0 \/ now - fair.ts <= MaxAge)

\* update_orders gets as far as pricing: the listener is there and so is a
\* two-sided book.
MayDecide == connected["trader"] /\ TwoSided(book["trader"])

\* A decision now would apply the pricer's factor, see build_price_info.
FactorApplied == MayDecide /\ Usable /\ fair.factor # NaN

\* build_price_info's fair price.
PriceInfo ==
  LET b == book["trader"]
  IN IF FactorApplied THEN fair.factor * (b.bid + b.ask) ELSE Mid(b)

Clock ==
  /\ now < MaxNow /\ now' = now + 1
  /\ UNCHANGED <<mode, link, feed, connected, book, bookSeen, ema, ticks, wire,
                 plink, fair, current, breaks>>
  /\ Hears

Next ==
  \/ Clock \/ MarketMoves \/ PricerLinkUp \/ PricerLinkDown
  \/ \E s \in Service : LinkUp(s) \/ LinkDown(s) \/ TakeFeed(s)
  \/ TimerFires \/ PublishFairPrice \/ PricerRestarts \/ OnFairPrice

Spec == Init /\ [][Next]_vars
-----------------------------------------------------------------------------
(* Properties.                                                             *)

\* "Going quiet instead lets the value age out there and the trader fall back to
\* its own mid": once the pricer has been for MaxAge without a link that has brought
\* it a book, no decision applies its factor, however late its last messages come in,
\* over however many reconnects and restarts.  But for a frozen price: book_seen outlives
\* the link, so after a reconnect the book of the old link is published with a fresh
\* timestamp until the first book of the new one, and that price ages only from the link.
DeadPriceAgesOut ==
  FactorApplied => now - (IF fair.frozen THEN heard.link ELSE heard.book) <= MaxAge

\* "Hard clamp on how far the factor may pull fair away from mid": the trader's own
\* mid, which has moved on since the factor was computed and smoothed.
FairNearMid ==
  MayDecide => LET m == book["trader"].bid + book["trader"].ask
               IN PriceInfo \in (Unit - Cap) * m .. (Unit + Cap) * m
=============================================================================
