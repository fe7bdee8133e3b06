--------------------------- MODULE TradingSystem ----------------------------
(***************************************************************************)
(* The order handler closed with the order gateway, the venue and the      *)
(* execution feed.                                                         *)
(*                                                                         *)
(*   requests  the gateway's sends, in the order the trader issued them    *)
(*             (one socket or one worker: order_gateway.hpp)               *)
(*   replies   the gateway's answers, unordered against each other and     *)
(*             against the feed (they come from another thread)            *)
(*   feed      executions and positions: venue -> listener -> trader, FIFO *)
(*                                                                         *)
(* The venue is not part of the repository; it is modelled by what the     *)
(* gateway and the listener parse from it.  A behaviour is set in one of   *)
(* the Worlds: how much is traded in it, and what may go wrong.            *)
(***************************************************************************)
EXTENDS OrderHandler, SequencesExt

CONSTANT Worlds

\* orders, lots, wire: bounds on the orders handed to the gateway, on the lots of
\*   one, and on the requests on the wire, which timeouts would pile up
\* singleQuote: the strategy keeps at most one quote per product
\* reduceOnly: shutdown_reduce_only
\* lateReplies: a reply may outlast order_response_timeout
\* cancelMayFail: the venue may refuse to cancel an order that is working
\* sessionDrops: the gateway's session may drop
\* feedGaps: the venue's user stream may lose a report
\* signals: SIGINT and SIGTERM may come, repeatedly
World ==
  [orders : Nat, lots : Nat, wire : Nat, singleQuote : BOOLEAN, reduceOnly : BOOLEAN,
   lateReplies : BOOLEAN, cancelMayFail : BOOLEAN, sessionDrops : BOOLEAN, feedGaps : BOOLEAN,
   signals : BOOLEAN]

\* An order working at the venue.
Working == [cid : Cid, product : Product, lots : Nat, is_bid : BOOLEAN]

ASSUME SystemAssumption ==
  Worlds \subseteq World /\ IsFiniteSet(Product) /\ None \notin Working

VARIABLES
  world,
  session,        \* connected_ of the WS gateway
  requested,      \* g_shutdown_requested
  stamped,        \* g_first_signal_sec: "unset", "recent" or, SHUTDOWN_GRACE_SEC later, "past"
  forced,         \* the process has been ended by the signal it raised again
  raced,          \* history: by one that came before the first had been stamped
  requests, replies, feed,
  working,        \* at the venue: our working orders, by order number
  holding         \* at the venue: the position in each product

venueVars == <<requests, replies, feed, working, holding>>
signalVars == <<requested, stamped, forced, raced>>
sysVars == <<vars, world, session, signalVars, venueVars>>

SysInit ==
  /\ Init
  /\ world \in Worlds
  /\ session = TRUE
  /\ requested = FALSE /\ stamped = "unset" /\ forced = FALSE /\ raced = FALSE
  /\ requests = <<>> /\ replies = {} /\ feed = <<>>
  /\ working = [o \in OrderNo |-> None]
  /\ holding = [p \in Product |-> 0]
-----------------------------------------------------------------------------
(* The gateway.                                                            *)

Reply(of, c, success, gone, o) ==
  [of |-> of, cid |-> c, success |-> success, order_gone |-> gone, order_no |-> o]

Request(kind, p, c, o, lots, is_bid) ==
  [kind |-> kind, product |-> p, cid |-> c, order_no |-> o, lots |-> lots, is_bid |-> is_bid]

\* place_order and cancel_order: onto the socket, or answered at once by
\* report_not_sent when the session is down.
Dispatch(reqs) ==
  IF session
  THEN /\ requests' = requests \o reqs /\ UNCHANGED replies
       /\ Len(requests') <= world.wire
  ELSE /\ replies' = replies \cup
            {Reply(reqs[i].kind, reqs[i].cid, FALSE, FALSE, None) : i \in DOMAIN reqs}
       /\ UNCHANGED requests

\* A set of ids in ascending order.
InOrder(S) ==
  CHOOSE ids \in SetToSeqs(S) : \A i, j \in DOMAIN ids : i < j => ids[i] < ids[j]

CancelRequest(p, c) == Request("cancel", p, c, cid_to_order_no[p][c], 0, FALSE)

\* The code sends the bids' cancels ahead of the asks'; sides are not kept here, and
\* the order among cancels is the ids'.
CancelRequests(p, cids) ==
  LET ids == InOrder(cids) IN [i \in DOMAIN ids |-> CancelRequest(p, ids[i])]

\* The ids are the ones that follow last_cid_.
PlaceRequests(p, lots, bids) ==
  [i \in 1..Cardinality(DOMAIN lots) |->
     LET c == last_cid + i IN Request("place", p, c, None, lots[c], c \in bids)]

\* Mutant: the places first.
PlacesFirst(p, cancels, lots, bids) ==
  PlaceRequests(p, lots, bids)
    \o CancelRequests(p, {c \in cancels : cid_to_order_no[p][c] # None})

\* What update_orders hands over: the cancels first, then the places.
DecisionRequests(p, cancels, lots, bids) ==
  CancelRequests(p, {c \in cancels : cid_to_order_no[p][c] # None})
    \o PlaceRequests(p, lots, bids)
-----------------------------------------------------------------------------
(* The trader thread.                                                      *)

OrdersSent == {c \in Cid : placed[c] # None}

\* The quoting strategy, reduced to one quote: keep the resting order, or pull
\* whatever rests and quote anew.  Liquidating, the quote is the whole position,
\* on the closing side.
StrategyAllows(p, cancels, lots, bids) ==
  /\ Cardinality(OrdersSent) + Cardinality(DOMAIN lots) <= world.orders
  /\ \A c \in DOMAIN lots : lots[c] <= world.lots \/ phase = "flatten"
  /\ world.singleQuote \/ phase = "flatten" =>
       /\ Cardinality(DOMAIN lots) <= 1
       /\ DOMAIN lots # {} => cancels = Outstanding(p)
  /\ phase = "flatten" => \A c \in DOMAIN lots :
       lots[c] = (IF position[p] < 0 THEN -position[p] ELSE position[p])
         /\ (c \in bids <=> position[p] < 0)

Decide ==
  \E p \in Product, lots \in Placements :
    \E cancels \in SUBSET Outstanding(p), bids \in SUBSET DOMAIN lots :
      /\ StrategyAllows(p, cancels, lots, bids)
      /\ UpdateOrders(p, cancels, lots)
      /\ Dispatch(DecisionRequests(p, cancels, lots, bids))
      /\ UNCHANGED <<world, signalVars, session, feed, working, holding>>

\* cancel_all_orders walks the products; each product's cancels in cid order.
SendCancelRound ==
  /\ CancelRound
  /\ \E todo \in SetToSeqs({pc \in Product \X Cid : pc[2] \in Cancellable(pc[1])}) :
       /\ \A i, j \in DOMAIN todo : i < j /\ todo[i][1] = todo[j][1] =>
            todo[i][2] < todo[j][2] /\ \A k \in i..j : todo[k][1] = todo[i][1]
       /\ Dispatch([i \in DOMAIN todo |-> CancelRequest(todo[i][1], todo[i][2])])
  /\ UNCHANGED <<world, signalVars, session, feed, working, holding>>

SendMarketFlatten(p) ==
  /\ Cardinality(OrdersSent) < world.orders
  /\ SubmitMarketFlatten(p)
  /\ Dispatch(<<Request("market", p, last_cid + 1, None,
                        IF position[p] < 0 THEN -position[p] ELSE position[p],
                        position[p] < 0)>>)
  /\ UNCHANGED <<world, signalVars, session, feed, working, holding>>

\* The steps of shutdown() that leave gateway and venue alone; those that end
\* a stage also happen when its deadline passes.
EndStage ==
  /\ \/ AllOrdersCancelled \/ EndPassiveFlatten \/ MarketFlattenSent \/ EndMarketFlatten
     \/ GaveUpCancelling /\ world.lateReplies
     \/ Cardinality(OrdersSent) = world.orders /\ \E p \in Product : SkipMarketFlatten(p)
  /\ UNCHANGED <<world, signalVars, session, venueVars>>

\* The trading loop of trader_main ends: the flag is up, or the market has closed.
Stop == BeginShutdown /\ UNCHANGED <<world, signalVars, session, venueVars>>

Clock(p) == world.lateReplies /\ TimePasses(p) /\ UNCHANGED <<world, signalVars, session, venueVars>>

\* The link comes up and the first product info and book arrive; the book stays
\* two-sided here (OrderHandler lets it change).
StartUp ==
  /\ \/ ~listener_connected /\ OnListenerStatus(TRUE)
     \/ \E p \in Product : ~tick_known[p] /\ OnProductInfo(p)
     \/ \E p \in Product : ~two_sided[p] /\ OnOrderbook(p, TRUE)
  /\ UNCHANGED <<world, signalVars, session, venueVars>>

TakeReply ==
  \E r \in replies :
    /\ OnOrderResponse(r)
    /\ replies' = replies \ {r}
    /\ UNCHANGED <<world, signalVars, session, requests, feed, working, holding>>

TakeFeed ==
  /\ feed # <<>>
  /\ LET m == Head(feed)
     IN  IF m.kind = "position" THEN OnPosition(m.product, m.qty) ELSE OnExecution(m)
  /\ feed' = Tail(feed)
  /\ UNCHANGED <<world, signalVars, session, requests, replies, working, holding>>
-----------------------------------------------------------------------------
(* The venue (external) and what it tells the listener.                    *)

\* What handle_user_payload makes of the venue's report on order c.
Report(p, c, kind, qty, is_bid) ==
  Execution(p, VenueNo[c], IF EchoesCid THEN c ELSE None, kind, qty, is_bid)

\* A fill, followed by the position when fills do not carry it.
FillReports(p, c, qty, is_bid) ==
  <<Report(p, c, "fill", qty, is_bid)>> \o
    (IF PositionFromFills THEN <<>>
     ELSE <<Execution(p, None, None, "position", holding'[p], is_bid)>>)

\* The venue's holding is bounded like the trader's position.
Trade(p, is_bid, n) ==
  /\ holding' = [holding EXCEPT ![p] = @ + (IF is_bid THEN n ELSE -n)]
  /\ holding'[p] \in Position

Accept(q) ==
  /\ q.kind = "place"
  /\ working' = [working EXCEPT ![VenueNo[q.cid]] =
       [cid |-> q.cid, product |-> q.product, lots |-> q.lots, is_bid |-> q.is_bid]]
  /\ replies' = replies \cup {Reply("place", q.cid, TRUE, FALSE, VenueNo[q.cid])}
  /\ feed' = Append(feed, Report(q.product, q.cid, "new", q.lots, q.is_bid))
  /\ UNCHANGED holding

Refuse(q) ==
  /\ \/ q.kind \in {"place", "market"}
     \/ q.kind = "cancel" /\ world.cancelMayFail
  /\ replies' = replies \cup {Reply(q.kind, q.cid, FALSE, FALSE, None)}
  /\ UNCHANGED <<working, holding, feed>>

\* A reduceOnly order is refused when it would not reduce the position, and is
\* cut down to the position otherwise.
Reduces(q) == IF q.is_bid THEN holding[q.product] < 0 ELSE holding[q.product] > 0

MarketLots(q) ==
  IF world.reduceOnly THEN Min({q.lots, Max({holding[q.product], -holding[q.product]})}) ELSE q.lots

Cross(q) ==
  /\ q.kind = "market"
  /\ world.reduceOnly => Reduces(q)
  /\ Trade(q.product, q.is_bid, MarketLots(q))
  /\ replies' = replies \cup {Reply("market", q.cid, TRUE, FALSE, VenueNo[q.cid])}
  /\ feed' = feed \o <<Report(q.product, q.cid, "new", q.lots, q.is_bid)>>
                 \o FillReports(q.product, q.cid, MarketLots(q), q.is_bid)
  /\ UNCHANGED working

\* KIS, the venue that does not echo the cid, reports a cancel under the number
\* of the cancel request, which leads on_execution nowhere: no report to speak of.
CancelWorking(q) ==
  /\ q.kind = "cancel" /\ working[q.order_no] # None
  /\ LET w == working[q.order_no]
     IN  feed' = IF EchoesCid
                 THEN Append(feed, Report(w.product, w.cid, "canceled", 0, w.is_bid))
                 ELSE feed
  /\ working' = [working EXCEPT ![q.order_no] = None]
  /\ replies' = replies \cup {Reply("cancel", q.cid, TRUE, FALSE, q.order_no)}
  /\ UNCHANGED holding

\* Only the Binance gateway can tell that the order is gone.
CancelGone(q) ==
  /\ q.kind = "cancel" /\ working[q.order_no] = None
  /\ replies' = replies \cup {Reply("cancel", q.cid, FALSE, EchoesCid, None)}
  /\ UNCHANGED <<working, holding, feed>>

VenueTakes ==
  /\ requests # <<>>
  /\ LET q == Head(requests)
     IN  Accept(q) \/ Refuse(q) \/ Cross(q) \/ CancelWorking(q) \/ CancelGone(q)
  /\ requests' = Tail(requests)
  /\ UNCHANGED <<vars, world, signalVars, session>>

VenueFills ==
  \E o \in Ours : \E n \in 1..(IF working[o] = None THEN 0 ELSE working[o].lots) :
    LET w == working[o]
    IN  /\ Trade(w.product, w.is_bid, n)
        /\ working' = [working EXCEPT ![o] =
             IF w.lots = n THEN None ELSE [w EXCEPT !.lots = @ - n]]
        /\ feed' = feed \o FillReports(w.product, w.cid, n, w.is_bid)
        /\ UNCHANGED <<vars, world, signalVars, session, requests, replies>>

VenueExpires ==
  \E o \in Ours :
    /\ EchoesCid /\ working[o] # None
    /\ LET w == working[o]
       IN  feed' = Append(feed, Report(w.product, w.cid, "canceled", 0, w.is_bid))
    /\ working' = [working EXCEPT ![o] = None]
    /\ UNCHANGED <<vars, world, signalVars, session, requests, replies, holding>>

\* The session drops with whatever was on the wire, and is redialled.
SessionDown ==
  /\ world.sessionDrops /\ session
  /\ session' = FALSE
  /\ requests' = <<>>
  /\ \E kept \in SUBSET replies : replies' = kept
  /\ UNCHANGED <<vars, world, signalVars, feed, working, holding>>

SessionUp == ~session /\ session' = TRUE /\ UNCHANGED <<vars, world, signalVars, venueVars>>

\* The user stream reconnects and has missed a report.
FeedGap ==
  /\ world.feedGaps /\ feed # <<>>
  /\ feed' = Tail(feed)
  /\ UNCHANGED <<vars, world, signalVars, session, requests, replies, working, holding>>
-----------------------------------------------------------------------------
(* on_shutdown_signal, on whichever thread the signal is delivered to, two  *)
(* signals possibly on two.                                                *)

\* The exchange that makes it the first...
FirstSignal ==
  /\ world.signals /\ ~requested /\ phase # "done"
  /\ requested' = TRUE
  /\ UNCHANGED <<vars, world, session, stamped, forced, raced, venueVars>>

\* ...and the store of its time.
FirstStamped ==
  /\ requested /\ stamped = "unset"
  /\ stamped' = "recent"
  /\ UNCHANGED <<vars, world, session, requested, forced, raced, venueVars>>

GraceEnds ==
  /\ stamped = "recent" /\ stamped' = "past"
  /\ UNCHANGED <<vars, world, session, requested, forced, raced, venueVars>>

\* Mutant: the second press counts.
RepeatForcesAlways == TRUE

\* Before the store a first signal looks as old as the machine.
RepeatForces == stamped # "recent"

RepeatSignal ==
  /\ requested /\ phase # "done" /\ RepeatForces
  /\ forced' = TRUE /\ raced' = (stamped = "unset")
  /\ UNCHANGED <<vars, world, session, requested, stamped, venueVars>>

SignalStep == FirstSignal \/ FirstStamped \/ GraceEnds \/ RepeatSignal
-----------------------------------------------------------------------------

TraderStep ==
  \/ StartUp \/ TakeReply \/ TakeFeed \/ Decide
  \/ Stop \/ SendCancelRound \/ EndStage
  \/ \E p \in Product : SendMarketFlatten(p) \/ Clock(p)

VenueStep ==
  VenueTakes \/ VenueFills \/ VenueExpires \/ SessionDown \/ SessionUp \/ FeedGap

\* What the venue does after a forced exit is not followed.
Finished == (forced \/ (phase = "done" /\ requests = <<>>)) /\ UNCHANGED sysVars

SysNext == (~forced /\ (TraderStep \/ VenueStep \/ SignalStep)) \/ Finished

SysSpec == SysInit /\ [][SysNext]_sysVars

\* The timer ticks and the trader thread keeps looping, its deadlines pass; the
\* gateway keeps sending and the venue and the feed keep delivering.
SysFairness ==
  /\ WF_sysVars(~forced /\ TakeReply) /\ WF_sysVars(~forced /\ TakeFeed)
  /\ WF_sysVars(~forced /\ VenueTakes) /\ WF_sysVars(~forced /\ Decide)
  /\ WF_sysVars(~forced /\ SendCancelRound) /\ WF_sysVars(~forced /\ EndStage)
  /\ WF_sysVars(~forced /\ \E p \in Product : SendMarketFlatten(p))
  /\ WF_sysVars(~forced /\ requested /\ Stop)

FairSpec == SysSpec /\ SysFairness

-----------------------------------------------------------------------------
(* Properties.                                                             *)

Quiet == requests = <<>> /\ replies = {} /\ feed = <<>> /\ phase # "done"

Tracked ==
  UNION {{<<cid_to_order_no[p][c], outstanding[p][c]>> : c \in Outstanding(p)} : p \in Product}

AtVenue == {<<o, working[o].lots>> : o \in {n \in OrderNo : working[n] # None}}

\* When nothing is in flight the trader's outstanding orders are the venue's
\* working orders, lot for lot, whatever way replies, NEW reports, partial
\* fills and cancels overtook each other on the two channels.
BooksAgree == Quiet => Tracked = AtVenue

\* "a place that overtook its cancel would rest at both prices at once": a
\* strategy that keeps one quote never has two working at the venue.
NeverTwoQuotes ==
  world.singleQuote => \A p \in Product :
    Cardinality({o \in OrderNo : working[o] # None /\ working[o].product = p}) <= 1

\* "Nothing the process placed is left working, on any path": when shutdown()
\* returns without having given up, whatever still works at the venue has a
\* cancel on its way.
NothingLeftWorking ==
  phase = "done" => \A o \in OrderNo :
    working[o] # None =>
      \E i \in DOMAIN requests : requests[i].kind = "cancel" /\ requests[i].order_no = o

\* "Pull the resting liquidation quotes before crossing, so the two cannot both fill
\* and leave the position turned around": beside the market orders no quote is on the
\* wire, a decision tick still on the queue included, and whatever works at the venue
\* has its cancel there ahead of them.
PulledBeforeCrossing ==
  phase \in {"cross_send", "cross_wait"} =>
    /\ \A i \in DOMAIN requests : requests[i].kind # "place"
    /\ \A o \in OrderNo : working[o] # None =>
         \E i \in DOMAIN requests :
           /\ requests[i].kind = "cancel" /\ requests[i].order_no = o
           /\ \A j \in 1..i : requests[j].kind # "market"

\* shutdown() comes to its end.  Where every request is answered in time it does so
\* without its cancel deadline ever passing: no order is waited for that can neither
\* be answered nor cancelled, also when the feed has lost the report of its end.
ShutdownCompletes == ShuttingDown ~> phase = "done" \/ forced

\* "a repeat inside the grace window below is reported and ignored": a signal ends
\* in a complete shutdown however often it is repeated while the grace lasts.  (Not
\* if the second is handled on another thread before the first has stored its time.)
ShutdownSurvivesRepeat ==
  [](stamped # "past" /\ ~raced) => (requested ~> phase = "done")

\* A product is not held up for good by an answer that never comes: a wait that
\* has timed out is given up by the next decision.
TimedOutWaitEnds ==
  \A p \in Product :
    (waiting_since[p] = "expired" /\ phase = "run")
      ~> (waiting_since[p] # "expired" \/ phase # "run")
=============================================================================
