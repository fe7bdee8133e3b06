------------------------------ MODULE Quoting ------------------------------
(***************************************************************************)
(* What the strategy quotes and what becomes of it: GeuantStrategy::       *)
(* make_decision and choose_orders_to_cancel (trader/strategy), with the   *)
(* snapping of OrderHandler::submit_place, for one product.  Cancels and   *)
(* the orders that replace them go out together, so an order can fill      *)
(* while its cancel is under way; a fill moves the position with the       *)
(* execution (KIS) or with a position message after it (Binance).  Places  *)
(* are accepted and cancels obeyed, before the wait for them times out;    *)
(* OrderHandler and TradingSystem have the replies.  Prices are in min     *)
(* ticks and a fair price in half ones, quantities in default lots, and a  *)
(* bp is 1/Whole rather than 1/10000, so that small prices meet the same   *)
(* rounding.                                                               *)
(***************************************************************************)
EXTENDS Integers, Sequences, FiniteSets, SequencesExt, FiniteSetsExt

CONSTANTS
  Touches,       \* the venue's [bid, ask] in min ticks, on its tick grid
  FairOffsets,   \* fair price minus mid, in half min ticks
  Vols,          \* forward_vol_bp
  Tick, Lot,     \* product_info, in min ticks and default lots
  Whole,         \* the denominator of a bp
  Strategies,    \* the strategy parameters it may be started with, see Params
  MaxSteps       \* bound on the decisions and fills

NoCap == -1

\* Sizes and limits are in lots or, with inDollar, in lots * min ticks; interval is in
\* ticks or in bp.
Params == [spreadBp : Nat, skewTenths : Nat, spreadCapBp : Nat \cup {NoCap},
           bboCapBp : Nat \cup {NoCap}, inDollar : BOOLEAN, orderSize : Nat,
           positionLimit : Nat \ {0}, orderBufferBp : Nat, orderNum : Nat,
           tickBased : BOOLEAN, interval : Nat, shortSellUnable : BOOLEAN]

ASSUME QuotingAssumption ==
  /\ \A b \in Touches : /\ b.bid \in Nat /\ b.ask \in Nat /\ 0 < b.bid /\ b.bid < b.ask
                        /\ b.bid % Tick = 0 /\ b.ask % Tick = 0
  /\ FairOffsets \subseteq Int /\ Vols \subseteq Nat \ {0}
  /\ {Tick, Lot, Whole} \subseteq Nat \ {0}
  /\ Strategies \subseteq Params /\ MaxSteps \in Nat

VARIABLES
  params,      \* GeuantParams
  market,      \* the PriceInfo of a decision: bid, ask, fair2 (twice the fair price), vol
  positionOnFill, \* update_position_on_fill, the listener's
  position,    \* position_in_lots
  unbooked,    \* fills whose position message is still to come
  orders,      \* outstanding_orders in cid order: isBid; price and qty, the strategy's;
               \* venuePrice and venueQty, as sent
  leaving,     \* those of outstanding_orders whose cancel is under way
  liquidate,   \* decisions are the shutdown's
  blind,       \* history: a decision was made with a position message still to come
  steps

quotingVars == <<params, market, positionOnFill, position, unbooked, orders, leaving,
                 liquidate, blind, steps>>

Market == UNION {[bid : {b.bid}, ask : {b.ask}, vol : Vols,
                  fair2 : {b.bid + b.ask + d : d \in FairOffsets}] : b \in Touches}

QuotingInit ==
  /\ params \in Strategies /\ market \in Market
  /\ positionOnFill \in BOOLEAN /\ position = 0 /\ unbooked = 0
  /\ orders = <<>> /\ leaving = <<>>
  /\ liquidate = FALSE /\ blind = FALSE /\ steps = 0
-----------------------------------------------------------------------------
(* BaseStrategy's conversions; n/d rounded half up, n >= 0.                *)

Round(n, d) == (2 * n + d) \div (2 * d)

Ceil(n, d) == (n + d - 1) \div d

Least(a, b) == IF a < b THEN a ELSE b

Most(a, b) == IF a < b THEN b ELSE a

Gap(a, b) == IF a < b THEN b - a ELSE a - b

\* clip_delta
ClipDelta(d) == IF params.spreadCapBp # NoCap THEN Least(Most(0, d), params.spreadCapBp) ELSE Most(0, d)

\* Twice the mid price is bid + ask.
Mid2 == market.bid + market.ask

PositionLimitInLots == IF params.inDollar THEN Round(2 * params.positionLimit, Mid2) ELSE params.positionLimit

\* Mutant: the skew has the same sign on both sides.
DeltaOneSign(lean) ==
  LET used == IF params.inDollar THEN position * Mid2 ELSE position
      full == IF params.inDollar THEN 2 * params.positionLimit ELSE params.positionLimit
  IN ClipDelta((params.spreadBp * market.vol * (10 * full + params.skewTenths * used)) \div (10 * full))

\* delta_bid for lean = 1, delta_ask for lean = -1: the half-spread in bp.
Delta(lean) ==
  LET used == IF params.inDollar THEN position * Mid2 ELSE position
      full == IF params.inDollar THEN 2 * params.positionLimit ELSE params.positionLimit
  IN ClipDelta((params.spreadBp * market.vol * (10 * full + lean * params.skewTenths * used)) \div (10 * full))
-----------------------------------------------------------------------------
(* make_decision                                                           *)

\* The quote on a side, fair price less or plus half-spread and offset, in min ticks.
Shaded(bp) == Round(market.fair2 * (Whole + bp), 2 * Whole)

\* Mutant: the cap lets a bid onto the ask.
BidLimitTouch == market.ask

\* Held inside the touch.
BidLimit ==
  IF params.bboCapBp # NoCap THEN (market.bid * (Whole - params.bboCapBp)) \div Whole ELSE market.ask - Tick

AskLimit ==
  IF params.bboCapBp # NoCap THEN Ceil(market.ask * (Whole + params.bboCapBp), Whole) ELSE market.bid + Tick

\* The price of ladder level i.  A tick-based level is counted from the innermost
\* one, which is level 0.
BidLevel(i) ==
  IF params.tickBased
  THEN Least(Shaded(-Delta(1)), BidLimit) - i * params.interval * Tick
  ELSE Least(Shaded(-Delta(1) - i * params.interval), BidLimit)

AskLevel(i) ==
  IF params.tickBased
  THEN Most(Shaded(Delta(-1)), AskLimit) + i * params.interval * Tick
  ELSE Most(Shaded(Delta(-1) + i * params.interval), AskLimit)

\* Mutant: an order of full size whatever the position.
QtyLimitFlat(isBid) == PositionLimitInLots

\* bid_qty_limit_in_lots, ask_qty_limit_in_lots
QtyLimit(isBid) ==
  IF isBid THEN PositionLimitInLots - position
  ELSE LET room == position + PositionLimitInLots
       IN IF params.shortSellUnable THEN Least(position, room) ELSE room

\* get_order_qty_in_lots
OrderQty(price, limit) ==
  Least(limit, IF params.inDollar THEN Round(params.orderSize, price) ELSE params.orderSize)

\* bid_place_orders, ask_place_orders: price to quantity.
Quotes(isBid) ==
  LET limit == QtyLimit(isBid)
      prices == IF limit > 0
                THEN {IF isBid THEN BidLevel(i) ELSE AskLevel(i) : i \in 0..(params.orderNum - 1)}
                ELSE {}
  IN [p \in prices |-> OrderQty(p, limit)]

\* The do_liquidate branch.
Liquidation(isBid) ==
  [p \in IF isBid THEN (IF position < 0 THEN {market.bid + Tick} ELSE {})
         ELSE (IF position > 0 THEN {market.ask - Tick} ELSE {})
     |-> Gap(position, 0)]

Wanted(isBid) == IF liquidate THEN Liquidation(isBid) ELSE Quotes(isBid)
-----------------------------------------------------------------------------
(* choose_orders_to_cancel                                                 *)

Tolerance(price) == IF liquidate THEN 0 ELSE (price * params.orderBufferBp) \div Whole

\* The wanted price that a resting order at price stands in for, if there is one:
\* the nearest, the lower of two, if it is near enough.
Claim(price, wanted) ==
  {w \in wanted :
     /\ Gap(w, price) <= Tolerance(price)
     /\ \A v \in wanted : \/ Gap(w, price) < Gap(v, price)
                          \/ Gap(w, price) = Gap(v, price) /\ w <= v}

\* The wanted prices of a side that the first i of os have left unclaimed.
LeftOver(os, isBid) ==
  LET left[i \in 0..Len(os)] ==
        IF i = 0 THEN DOMAIN Wanted(isBid)
        ELSE IF os[i].isBid = isBid THEN left[i - 1] \ Claim(os[i].price, left[i - 1])
        ELSE left[i - 1]
  IN left

\* Order i stands in for a wanted price that those before it have left.
Stands(os, i) == Claim(os[i].price, LeftOver(os, os[i].isBid)[i - 1]) # {}

Kept(os) ==
  LET keep[i \in 0..Len(os)] ==
        IF i = 0 THEN <<>> ELSE IF Stands(os, i) THEN Append(keep[i - 1], os[i]) ELSE keep[i - 1]
  IN keep[Len(os)]

\* Mutant: recorded as sent.
SubmitSnapped(isBid, price, qty) ==
  [isBid |-> isBid, price |-> Round(price, Tick) * Tick, qty |-> qty,
   venuePrice |-> Round(price, Tick) * Tick, venueQty |-> Round(qty, Lot) * Lot]

\* submit_place: snapped to the product's grid, recorded as asked for.
Submit(isBid, price, qty) ==
  [isBid |-> isBid, price |-> price, qty |-> qty,
   venuePrice |-> Round(price, Tick) * Tick, venueQty |-> Round(qty, Lot) * Lot]

\* The prices the map is left with, less those of which the snap leaves nothing.
Sendable(os, isBid) ==
  {p \in LeftOver(os, isBid)[Len(os)] :
     LET o == Submit(isBid, p, Wanted(isBid)[p])
     IN o.qty > 0 /\ o.venuePrice > 0 /\ o.venueQty > 0}

\* A set of numbers from the lowest to the highest.
Ascending(S) ==
  CHOOSE ps \in SetToSeqs(S) : \A i, j \in DOMAIN ps : i < j => ps[i] < ps[j]

\* The map's orders, in the order of its keys.
Placed(os, isBid) ==
  LET prices == Ascending(Sendable(os, isBid))
  IN [i \in DOMAIN prices |-> Submit(isBid, prices[i], Wanted(isBid)[prices[i]])]

\* bid_cancel_orders and ask_cancel_orders, in cid order.
Cancelled(os) ==
  LET cids == Ascending({i \in 1..Len(os) : ~Stands(os, i)})
  IN [i \in DOMAIN cids |-> os[cids[i]]]

\* update_orders: what the orders are after a decision, those it cancels aside.
Decided(os) == Kept(os) \o Placed(os, TRUE) \o Placed(os, FALSE)
-----------------------------------------------------------------------------
(* Behaviour.                                                              *)

Step == steps < MaxSteps /\ steps' = steps + 1

\* The places go out with the cancels; the next decision waits for the replies.
Decide ==
  /\ Step /\ leaving = <<>>
  /\ orders' = Decided(orders) /\ leaving' = Cancelled(orders)
  /\ blind' = (blind \/ unbooked # 0)
  /\ UNCHANGED <<params, market, positionOnFill, position, unbooked, liquidate>>

\* The reply to a cancel, or its report on the feed: the order is gone.
CancelDone ==
  /\ \E i \in DOMAIN leaving : leaving' = RemoveAt(leaving, i)
  /\ UNCHANGED <<params, market, positionOnFill, position, unbooked, orders, liquidate,
                 blind, steps>>

\* An order at the venue is passive.
Rests(o, m) == IF o.isBid THEN o.venuePrice < m.ask ELSE o.venuePrice > m.bid

\* The book and the fair price move, away from any order resting in their way.
TouchMoves ==
  /\ market' \in Market
  /\ \A i \in DOMAIN orders : Rests(orders[i], market')
  /\ \A i \in DOMAIN leaving : Rests(leaving[i], market')
  /\ UNCHANGED <<params, positionOnFill, position, unbooked, orders, leaving, liquidate,
                 blind, steps>>

\* An order is filled, in part or whole, in the venue's lots.
Fills(o) == {n \in 1..o.venueQty : n % Lot = 0}

\* on_execution: the record shrinks by what was filled, and goes when that leaves
\* nothing of it.
Filled(os, i, q) ==
  IF os[i].qty <= q THEN RemoveAt(os, i)
  ELSE ReplaceAt(os, i, [os[i] EXCEPT !.qty = @ - q, !.venueQty = @ - q])

Booking(o, q) ==
  LET d == IF o.isBid THEN q ELSE -q
  IN IF positionOnFill THEN position' = position + d /\ UNCHANGED unbooked
     ELSE unbooked' = unbooked + d /\ UNCHANGED position

FillResting ==
  /\ \E i \in DOMAIN orders : \E q \in Fills(orders[i]) :
       Booking(orders[i], q) /\ orders' = Filled(orders, i, q)
  /\ UNCHANGED leaving

FillLeaving ==
  /\ \E i \in DOMAIN leaving : \E q \in Fills(leaving[i]) :
       Booking(leaving[i], q) /\ leaving' = Filled(leaving, i, q)
  /\ UNCHANGED orders

Fill ==
  /\ Step
  /\ FillResting \/ FillLeaving
  /\ UNCHANGED <<params, market, positionOnFill, liquidate, blind>>

\* on_position, of the last fill.
OnPosition ==
  /\ unbooked # 0 /\ unbooked' = 0 /\ position' = position + unbooked
  /\ UNCHANGED <<params, market, positionOnFill, orders, leaving, liquidate, blind, steps>>

\* shutdown() begins to flatten; cancel_all_orders may have given up with orders left.
StartFlatten ==
  /\ ~liquidate /\ liquidate' = TRUE
  /\ UNCHANGED <<params, market, positionOnFill, position, unbooked, orders, leaving, blind,
                 steps>>

QuotingNext == Decide \/ CancelDone \/ TouchMoves \/ Fill \/ OnPosition \/ StartFlatten

QuotingSpec == QuotingInit /\ [][QuotingNext]_quotingVars
-----------------------------------------------------------------------------
(* Properties.                                                             *)

SumQty(os, isBid) ==
  MapThenSumSet(LAMBDA i : os[i].venueQty, {i \in DOMAIN os : os[i].isBid = isBid})

\* What is sent of a quantity.
Snapped(qty) == Round(qty, Lot) * Lot

\* "the caps that hold a quote inside the touch": whatever the fair price, the skew
\* and the snap to the product's grid, what a decision sends does not cross the book.
QuotesPassive ==
  ~liquidate =>
    /\ \A i \in DOMAIN Placed(orders, TRUE) : Placed(orders, TRUE)[i].venuePrice < market.ask
    /\ \A i \in DOMAIN Placed(orders, FALSE) : Placed(orders, FALSE)[i].venuePrice > market.bid

\* Recording what was asked for rather than what was sent must not "churn a
\* cancel/replace every tick": a second decision at the same prices sends nothing
\* and cancels nothing, whatever is resting.
DecisionSettles == Decided(Decided(orders)) = Decided(orders)

\* The position limit holds in the worst case, everything filled that rests at the
\* venue, up to the one order a side that is filled while its cancel and its
\* replacement are under way, and up to the snap; although a resting order stands in
\* for a quote whatever its size.  (One order a side, limits in lots, and no decision
\* was made between a fill and its position message, which nothing in the code rules
\* out where a fill does not move the position itself.)
WithinLimit ==
  params.orderNum = 1 /\ ~params.inDollar /\ ~blind =>
    LET held == position + unbooked
        most == Snapped(params.positionLimit) + Snapped(params.orderSize)
    IN /\ held + SumQty(orders, TRUE) + SumQty(leaving, TRUE) <= most
       /\ held - SumQty(orders, FALSE) - SumQty(leaving, FALSE) >= -most

\* A decision leaves the process's own bids below its own asks, those it cancels aside.
OwnQuotesApart ==
  LET os == Decided(orders)
  IN \A i, j \in DOMAIN os : os[i].isBid /\ ~os[j].isBid => os[i].venuePrice < os[j].venuePrice
=============================================================================
