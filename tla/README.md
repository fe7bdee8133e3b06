# OmniTrader in TLA+

TLA+ models of OmniTrader, the multi-exchange trading framework whose source is under
`src/`; the TLC runs that check them on small instances, and the theorems TLAPS proves
about them. Paths below are relative to the repository's `src/` directory of C++ unless
they start with `README.md`, which is the repository's own.

* [The system](#the-system) - inventory of the components and what is hard about them
* [The modules](#the-modules) - which module models what, and how
* [The runs](#the-runs) - what TLC checks, the bounds, the fairness
* [Where the code and its text disagree](#where-the-code-and-its-text-disagree)
* [The proofs](#the-proofs)
* [What is not modelled](#what-is-not-modelled), [Plan](#plan)

## The system

Three processes. The **listener** talks to the exchange and broadcasts normalised
messages over TCP. The **pricer** subscribes to the listener and publishes a fair price
over a TCP server of its own. The **trader** subscribes to both, decides, and sends
orders through a gateway; what became of its orders it hears twice, from the gateway
(replies) and from the listener (execution and position reports).

```
 venue --ws--> BinanceListener --> MarketListener --> TcpServer ==> MarketFeedClient --> Pricer
   ^                                                      ||                               |
   |                                                      ||                           TcpServer
   |                                                      \/                               ||
   +------- WsOrderGateway <------- OrderHandler <-- MarketFeedClient, FairPriceClient <===++
```

| component | state | operations | talks to |
|---|---|---|---|
| `OrderHandler` (trader thread) | per product: outstanding orders, cid/order-number maps, waiting sets and their clock, position, L1, product info; globally: cid counter, routing maps | one handler per task: reply, execution, position, book, product info, fair price, link status, decision tick; `shutdown()` | gateway (calls, response sink), feed clients (task queue), strategy (calls) |
| strategy (`GeuantStrategy`) | parameters only | `make_decision`, `choose_orders_to_cancel` | called by `OrderHandler` |
| Binance gateway (`WsOrderGateway`) | client, `connected_`, redial flag, in-flight requests | place, cancel, redial, answer | websocket client, trader's response sink |
| KIS gateways + `SerialTaskRunner` | queue of requests, counter | post, run, drain | REST, response sink |
| `Pricer`, `FairPriceCalculator`, factors | per product: market state, `book_seen`, smoothed factor | book, link status, publish timer | feed client, `TcpServer` |
| `TcpServer`/`TcpSession` | sessions, subscription maps, retained product infos, write queues | accept, subscribe, unsubscribe, broadcast, write, close, stop | its owner's thread, io thread, worker thread |
| `TcpClientBase` and its two subclasses | socket, write queue, timer, flags | dial, read, write, retry, subscribe, stop | consumer's task queue |
| `MarketListener` | event queue, CSV logs, user-state window, product-info thread and timer | broadcast, retain product info, refresh it, fetch user state for a new subscriber | adapter, `TcpServer` |
| `BinanceListener`, `OrderBook` | three sockets and their redials, per product a book and its update id | status, depth event, resync from REST, user reports | websocket clients, REST, event queue |
| `KisListener` | one socket and its redial, subscription messages | status, subscribe, redial, parse | websocket client, event queue |
| `BaseWebsocketClient` | `connecting_`, `opened_`, `destroying_`, run thread | dial, open, fail, close, pong timeout, destroy | its owner's callbacks |
| `utils/shutdown` | the flag and the time of the first signal | first signal, repeat, forced exit | the trader's main loop |

What is hard about them, and what makes them correct:

* **Two channels tell of the same order.** Replies and execution reports are not ordered
  against each other, either may be late, doubled or missing, and both write the same maps
  and waiting sets. Correct: no order is tracked twice or lost, books and positions agree
  with the venue's when all is quiet, and no product is held up for good.
* **Leaving.** `shutdown()` cancels, flattens passively, crosses, and cancels again while
  fills and acks are still coming in. Correct: nothing is left working, the
  quotes are pulled before the market orders go out, closing a position opens none the
  other way, and it ends.
* **Reconnecting.** Four kinds of links are redialled by timers while other threads use
  them and late reports of the old connection come in. Correct: exactly one way forward at
  any time, everything subscribed or seeded again, nothing sent into a dead link, and the
  destructors return.
* **Hand-over between threads.** Counters and flags beside lock-free queues. Correct:
  nothing stranded, dropped, doubled or run after its owner is gone.
* **Staleness.** Books and prices outlive the links they came over. A position comes as
  an update over the stream and as a REST snapshot of either of two threads. Correct: what
  a trader was told last is what the venue has, whatever was missed in between.
* **Rounding.** Orders are decided on one grid, recorded on it, and sent on another.

`PROJECT.json` lists these hazards one by one, at the lines where they bite, with the
properties that cover them.

## The modules

| module | models | state and actions |
|---|---|---|
| `OrderHandler` | `trader/order_handler` | The fields of `OrderHandler` and `ProductState` under their own names; a map without a key holds `None`. One action per handler, since the trader thread runs each to completion: `OnExecution`, `OnOrderResponse`, `OnPosition`, `OnProductInfo`, `OnOrderbook`, `OnListenerStatus`, `UpdateOrders`, `ClearTimedOutWait`; and one per stage of `shutdown()`. The environment is open: any reply or report about any order sent, or about someone else's, at any time, any number of times. |
| `TradingSystem` | the loop through gateway, venue and feed; `utils/shutdown` and the loop of `trader_main` | Extends `OrderHandler` with the request queue (ordered), the replies (a set: unordered), the feed (FIFO), the venue's working orders and holdings, and the signal handler's flag and time stamp. A behaviour is set in one of the `Worlds`: how much is traded, and what may go wrong. |
| `SerialExecutor`, `TaskRunner` | `utils/task_runner` | The abstract promise, and the runner with each access to the atomic counter and to the queue as a step. |
| `IOrderGateway`, `KisGateway` | `order_gateway.hpp`, `kis/*_order_gateway` | The contract the interface states (ordered sends, one answer per request, a refused request answered as failed), and the KIS gateway: extends `TaskRunner` with what each task carries, the POST and the answer. Its order requests differ only in their text and are one action. |
| `OrderSession` | `binance/ws_order_gateway` | The constructor's, the io, the clients' and the trader's threads around `client_`, `connected_`, `reconnect_pending_`; a dial opens, fails or throws. |
| `OrderGateways` | `create_order_gateway` | The gateway of the trader's exchange: `KisGateway` or `OrderSession` (`GatewaysSpec`), and the fairness of both (`FairSpec`). |
| `FeedServer` | `tcp_server` and what `MarketListener::listen` hands it | io thread, worker and publisher; queues FIFO per enqueuing thread only, as moodycamel's are. |
| `FeedLink` | `tcp_client_base` and its consumers | pending operations, aborted ones included, the posted handlers, the consumer's status queue. |
| `BookSync` | `order_book`, `resync_order_book`, `handle_market_payload` | the venue's update history, depth events with U/u/pu, bookTicker events, snapshots that fail or lag, and the order book last passed on. |
| `ExchangeSocket` | `websocket_client` and the redial logic of `binance_listener` and `kis_listener` | io thread, per-client threads, the worker with its late reports; for KIS also the pointer `ws_client_`, which io thread and worker share. |
| `MarketListener` | `market_listener`, the adapter's `publish_user_state` and `publish_product_info`, `on_position` and `on_product_info` of the trader | the venue's position, the user stream with its losses, the worker and the product-info thread with their REST calls, `event_queue_`, the subscribe hook's window, and what each trader was told. |
| `FairPrice` | `pricer`, `fair_price`, `factor`, and `build_price_info` | one product's books, factor and price from the listener to a decision, over links that drop and come back. |
| `Quoting` | `strategy`, the snap in `submit_place`, and what decisions and fills do to the orders | one product's orders, as recorded and as the venue has them: those that rest and those whose cancel is under way beside their replacements (`leaving`); a position that moves with the fill (`positionOnFill`, as on KIS) or by a message after it (`unbooked`, as on Binance). |

`MCOrderHandler`, `MCTradingSystem`, `MCFairPrice` and `MCQuoting` give constants that a
cfg cannot write (functions, sets of records); the other modules are instantiated by
their cfg directly. Operators marked *Mutant* are broken variants of the operator next
to them: each property is shown to fail when its mutant takes the operator's place.

Abstractions worth knowing:

* A client order id is a timestamp made strictly increasing: ids are 1, 2, 3... The age
  of a wait is `idle`, `fresh` or `expired`.
* Times are not measured: a deadline is a step that may be taken, and a timer's firing is
  a step of its own. Only `FairPrice` has a clock, counted in publish intervals.
* Doubles are scaled integers. In `FairPrice` a factor of 1 is `Unit`; in `Quoting` a
  basis point is 1/`Whole` so that prices of about 50 meet the rounding that real prices
  meet. Rounding directions are the code's; floating-point error is not modelled.
* A reply to an order the trader placed carries the number the venue gave that order, or
  none; for an order adopted from the feed, the number its cancel was sent with (`ReplyNo`).
* In `OrderSession` and `ExchangeSocket` a connection counts as open until its client's
  handler says otherwise: what the network did before that, no code can know.
* Settings that a run is to compare are variables chosen in `Init` and never changed:
  `world` in `TradingSystem`, `mode` (the pricer's `--fair_price_mode`) in `FairPrice`,
  `params` (`GeuantParams`) in `Quoting`, `lag` (how far a REST snapshot may lag) in
  `BookSync`, `exchange` in `ExchangeSocket` and `OrderGateways`.
* History variables remember what a property has to leave out: `late` in
  `ExchangeSocket` (a report was handled after its client had been replaced), `overtaken`
  in `OrderSession` (a redial began before the constructor had assigned its client),
  `raced` in `TradingSystem` (a repeated signal overtook the first one's time stamp),
  `blind` in `Quoting` (a decision was made with a position message still to come), and
  in `MarketListener` the version of the position each trader last heard of. In
  `FairPrice`, `heard` is when the pricer last had its link and when last a book over it,
  `current` whether its present link has brought a book, and a price's `frozen` that it
  was computed when that one had not.
* `MarketListener` takes the user socket as up or down, since `ExchangeSocket` has its
  redialling, and the broadcast as one step, since `FeedServer` has that.
* `Quoting` leaves the requests' fate to `OrderHandler` and `TradingSystem`: places are
  accepted, cancels obeyed, both answered before the wait times out, so that the next
  decision finds `leaving` empty. Position messages come one after the other, each after
  its execution: one that comes before it would count the fill twice, in the position and
  in the order's lots, and make a decision more careful. A behaviour keeps to one of the
  two ways a fill is booked.
* `BookSync` assumes a snapshot that holds the whole book (`fetch_depth` asks for 1000
  levels a side) and status events that alternate in one queue. What late reports of a
  replaced client do is in `ExchangeSocket`.
* In `OrderSession` the destructor's join of the client is one step, so `DestructorReturns`
  says little of the Binance gateway: that the io thread ends and nobody waits for a timer.
* In `TradingSystem` the strategy is any choice of cancels and places or, with
  `singleQuote`, one quote that is replaced; `Quoting` has the real one.

## The runs

| run | module | shows |
|---|---|---|
| `MCOrderHandler` | MCOrderHandler | The bookkeeping under the open environment: waits are timed (`WaitIsTimed`), routing is consistent (`RoutingConsistent`), no order has two entries (`IndexesInverse`). |
| `MCTradingSystem` | MCTradingSystem | With nothing lost, late or refused, only overtaking: the trader's orders are the venue's whenever nothing is in flight (`BooksAgree`), an order's end leaves no wait for it (`NoWaitOutlivesItsOrder`), a replaced quote never rests twice (`NeverTwoQuotes`), `shutdown()` has no quote on its way or working, its cancel aside, beside the market orders (`PulledBeforeCrossing`), and leaves nothing working (`NothingLeftWorking`). |
| `MCTradingFaults` | MCTradingSystem | Three worlds: a feed that loses reports; dropped sessions, late replies and refused cancels as well; signals at any time. A wait that timed out is given up (`TimedOutWaitEnds`), `shutdown()` ends (`ShutdownCompletes`), in the first world without its cancel deadline, and a signal repeated within the grace period does not keep it from its end (`ShutdownSurvivesRepeat`). |
| `MCGateways` | OrderGateways | KIS: the cap of the backlog (`BacklogBounded`), refinement of `SerialExecutor` (`KeepsPromise`) and of `IOrderGateway` (`KeepsContract`), an answer to every request (`EveryRequestAnswered`). Binance: no request into a dead session (`NoRequestIntoDeadSession`), the session recovers (`SessionRecovers`). Both: the destructor returns (`DestructorReturns`). |
| `MCFeedServer` | FeedServer | Nothing dropped or sent twice, one write at a time (`NothingDropped`); closed sessions are forgotten (`ClosedSessionForgotten`); a subscriber is at most one product info behind (`InfoReplayed`); what is sent arrives (`EverythingArrives`). |
| `MCFeedLink` | FeedLink | The buffer outlives its write (`BufferOutlivesWrite`), all subscriptions are restored (`FeedResumes`), `stop()` returns (`StopReturns`). |
| `MCBookSync` | BookSync | A synced book is a book the venue had, and what was last passed on, by a depth event or a bookTicker, is such a book or the top of one (`BookIsVenues`); with snapshots that do not lag it misses nothing (`BookIsCurrent`). |
| `MCSocket` | ExchangeSocket | Binance and KIS: the pending flag tells the truth (`RedialInHand`, Binance), the socket comes back (`SocketRecovers`), each connection is seeded or subscribed (`SeededOnEveryOpen`), `stop()` returns (`StopReturns`). |
| `MCListener` | MarketListener | Once everything is delivered a subscribed trader has the venue's position, but for three holes named in the property (`PositionKnown`); it learns its tick however the exchangeInfo calls fail (`TickLearned`). |
| `MCFairPrice` | MCFairPrice | In all three modes: the price of a pricer without a link, or with one that brings no book, ages out (`DeadPriceAgesOut`; a frozen price, see the next section, only with the link), the clamp holds on the trader's own mid (`FairNearMid`). |
| `MCQuoting` | MCQuoting | Four strategies (one order a side; a tick-spaced ladder; a bp-spaced ladder held behind the touch; dollar limits without short sales): quotes stay passive through the snap (`QuotesPassive`), decisions settle (`DecisionSettles`), the position keeps to its limit and one order's size with everything filled (`WithinLimit`), own bids stay below own asks (`OwnQuotesApart`). |
| `MCLeftWorking` | MCTradingSystem | Finds `NothingLeftWorking` violated once the venue may refuse a cancel; see the next section. |

**Bounds.** One product or session suffices in most runs: the code keeps no state that
couples products except the id counter and the routing maps, whose theorems are proved
for any set of products. Two orders in flight, each of one or two lots, give every
overtaking between reply, NEW, partial fill, fill and cancel; a third (`orders = 3` in a
world) is what replacing a quote and then crossing takes. Ids beyond a world's orders
leave room for adopted orders. Two failures are enough for a failure while the first is
being handled; `ExchangeSocket` and `OrderSession` are run with three and four. Two
threads that post three requests each meet a backlog of two at its limit, below it and
refused. In `MarketListener` three subscriptions are the trader's, its return after a lost
link and another trader's within the window; two changes of the position are one missed
and one seen, or one that opens and one that closes; one drop of the stream and one failed
REST call can fall anywhere between them.
A fill that would take the venue's holding beyond `MaxPosition` is left out; in the runs no
behaviour comes that far.
Four updates at the venue allow an event before, within and after a snapshot and one
lost with the socket; a bookTicker event can fall anywhere between them. A world's `wire`, and `MaxBacklog` and `MaxFeed`, bound queues that
timeouts or reconnects could otherwise grow for ever; they are larger than what one
failure leaves behind. `MCQuoting` uses three books, of one and of three ticks, and four
decisions and fills: orders placed, replaced, the old one filled beside the new one, and
one more decision. Moves of the market, cancels' answers and position messages are not
counted: they may come anywhere.

**Deadlock** is checked in the runs of `TradingSystem`, which end in an explicit final
step. The other specifications may stop: at their bounds, or because the
server or client has been stopped.

**Fairness** is weak fairness of what a running thread or the library below it does by
itself: a thread takes the next item off its queue, asio runs a handler that is ready, a
timer fires, a dial ends one way or the other (websocketpp's open and handshake timeouts),
a peer that is up accepts. In `TradingSystem` also that the venue and the gateway handle
the next request, and that a deadline passes: `pump_until` is bounded by one, and the
decision timer keeps ticking; once a signal has set the flag, the main loop notices
(`Stop`). In `OrderGateways` a REST call ends, since `ORDER_REST_TIMEOUT_SEC` bounds it;
in `MarketListener` the refresh timer is enabled, as it is by default. Nothing is assumed of what only the outside decides: new
market data, failures, further fills, the stop.

## Where the code and its text disagree

`MCLeftWorking` is a run of its own. The repository's README says "Nothing the process
placed is left working, on any path". The NEW report of an order has cleared its place
wait, a cancel has gone out, and only then the place reply is taken: `on_order_response`
tells a reply's kind by the waiting sets, takes it for the cancel's success and forgets
the order. If the venue then refuses the cancel, `shutdown()` has returned already with
the order working. `MCTradingSystem` shows that the refusal is what it takes.

Others are stated as exceptions of properties that pass. Taking the exception out makes
TLC show the case:

| property | exception | what happens in it |
|---|---|---|
| `InfoReplayed` | one product info behind | `MarketListener::listen` broadcasts a product info and then retains it, as two tasks; a subscription between the two gets neither. |
| `SeededOnEveryOpen` | `late` | A report of the old client taken after the new one's: `user_opened_` is still set, and there is no REST seed. |
| `SocketRecovers` | `"stuck"` | After a `connect()` that throws, `connecting_` stays set and nobody redials. |
| `SocketRecovers` | `"crashed"` | `KisListener::on_ws_client_open` subscribes through `ws_client_`. The connection may be down again when the worker takes the report, and the send throws; or the io thread has not assigned the redialled client yet, and the pointer is null. Nothing catches what is thrown out of the worker thread. |
| `SessionRecovers` | `"stuck"` | The same in the order gateway: a dial that throws leaves `connecting_` set, the status callback returns at that, and no redial is scheduled. |
| `DeadPriceAgesOut` | `frozen` | `publish_fair_price` returns while the listener is away, because "Publishing anyway would stamp frozen prices with a fresh timestamp, which is exactly what defeats the trader's staleness check" (`pricer.cpp:205`). `book_seen` and the book outlive the link, so that is what happens between a reconnect and the first book of the new link, however long the link was down; such a price ages from the loss of the link on. |
| `PositionKnown` | `ClosedUnseen` | `publish_user_state` is to "seed authoritative state from REST snapshots on every (re)connect", but `fetch_positions` skips positions of zero: one that was closed while the stream was down, or the trader's link, stays open in the trader's eyes until it changes again. |
| `PositionKnown` | `Uninformed` | A fetch that is coalesced into another's, whose broadcast went out before this trader was subscribed. |
| `PositionKnown` | `Overwritten` | The product-info thread fetches a position, the stream's newer update is broadcast first, the older snapshot after it. |
| `ShutdownSurvivesRepeat` | `raced` | A second signal handled on another thread between the first one's `exchange` and its `store` finds a first time of 0, so the grace period is over. |
| `SessionRecovers`, `NoRequestIntoDeadSession` | `overtaken` | The constructor's assignment replaces the client of a redial by its own failed one, whose failure has been reported already. |
| `WithinLimit` | one order's size | Cancel and replacement go out together. With a limit of 3 and orders of 2, the old order fills while its cancel is under way, and the new one after it: 4. |
| `WithinLimit` | `blind` | Where a fill does not move the position (Binance), a decision can fall between the execution and the position message: the filled order is gone, the position is the old one, and the order is placed again, each time anew. |
| `WithinLimit` | ladders | Each level is capped by the limit on its own, so a ladder filled as a whole can exceed it. |

And some show in the models' steps, or when they are run with other settings:

* With `lateReplies`, a place refused after its wait timed out stays outstanding, without
  a number to cancel it by: `PlaceReply` drops it only while it is waited for.
* `shutdown_reduce_only` is to "Tag the flattening orders reduceOnly, so a stale position
  count can never turn a close into a new position the other way" (`trader_dtypes.hpp:88`),
  but only the market orders of `submit_market_flatten` are tagged. The liquidation quotes,
  which come first, are ordinary orders of `update_orders`: with the report of a fill or a
  position still on the feed, the quote is sized by a position that is no longer there, and
  its fill opens one the other way, in the worlds of `MCTradingSystem` too. With the setting
  off, as it must be in Hedge Mode, the same goes for the market orders.
* With `feedGaps`, `NoWaitOutlivesItsOrder` fails: the cancel branch of `on_execution`
  leaves a place wait behind, which the rejection and fill branches do not.
* With `EchoesCid = FALSE`, as on KIS, `BooksAgree` fails: a NEW report that comes before
  the place reply makes one order two. In this tree no trader meets it: the KIS listener
  is for derivatives only and the KIS order gateway for stock only.
* In `KisGateway` a place that timed out is answered as failed even if the venue has
  accepted it. `IOrderGateway` states no more than that, and the trader forgets the order.
* In `BookSync`, an event that ends exactly at the snapshot's id holds nothing new, but
  `u < last_update_id_` does not drop it, and it is taken for a gap.
* In `Quoting`, with an order buffer, a resting order that stands in for one level of a
  ladder can share its venue price with another level after the snap.
* With `Lot` larger than the size asked for allows, `Submit` records more than the venue
  has; the remainder stays on record after the venue has filled all, and stands in for
  later quotes. A resting order at exactly the liquidation price stands in for the whole
  position, whatever its size.
* In `ExchangeSocket`, a second report of one drop that the worker takes only after the
  redial starts another, which destroys the connection just opened: the flag that dedupes
  reports is cleared when the redial starts.
* In `Quoting`, with a position limit that is no number of the product's lots, the snap may
  round an order up past the limit, by at most half a lot; `WithinLimit` therefore speaks of
  the limit and the size as they are when snapped.
* In `Quoting`, one tick inside a market one tick wide is the other side, so the
  liquidation quote crosses.
* In `FairPrice`, a VWAP message has no factor, and `build_price_info` uses nothing else:
  the trader prices at its own mid. And nothing clears the trader's book when its link is lost: between
  a reconnect and the first new book it decides on the old one. A listener whose exchange
  socket is down tells nobody, so with both TCP links up the pricer goes on publishing,
  and the trader deciding, on a book that has stopped.

## The proofs

Eight modules hold the theorems, one per component or group of components. They are about
the same specifications the runs check, for every value of the constants: any set of
products, traders, sessions and posters, any number of ids, orders, updates, drops and
failures, any combination of the flags. Each proof rests on an inductive invariant, which
TLC checked on small instances before it was proved. What is proved and not also checked by
a run is marked *.

**`TradingSystem_proofs`.** First of the trader alone, in any environment (`Spec`).
`TypeCorrect`: `TypeOK` is inductive, one lemma per handler; that no outstanding order has a
negative number of lots is the part that needs the fill branch's comparison. `TimeoutIsArmed`: `WaitIsTimed` is inductive relative to
`TypeOK`: waiting sets shrink only through `EraseWaiting`, which stops the clock exactly
when both are empty, and grow only through steps that start it.

`RoutingConsistent` and `IndexesInverse` (`RoutingStaysConsistent`, `OneEntryPerOrder`) are
not inductive: a late reply re-binds a number, and a report about an order forgotten long
ago adopts it anew. The invariant `IndexInv` adds that ids are handed out once (`Fresh`),
that an order we placed is known by its own number only (`OwnNumber`), that a number
belongs to one product (`NumbersAtHome`), and that another id bears an order's number only
once that order is forgotten (`OneCidPerNumber`). Lemmas show that binding, forgetting,
adopting and placing keep it, then one lemma per handler. `WaitInv` adds `WaitsOwned` and
yields `CancelsAreForKnownOrders`* and `WaitsHaveRecords`*: every wait is for an order on
record, as a request of the kind it was sent as.

Then of the trader with gateway, venue and feed attached (`SysSpec`). What it is told is now
what the venue and the gateway say, so the proofs can follow an order. Four invariants, each
on top of the ones before it:

* `BaseInv` (`MessagesAreGenuine`*) holds whatever goes wrong: every request, reply and report
  in flight is about an order that was placed and carries its number, so that the handlers'
  own invariants survive each message that can come.
* `WaitsEnd` (`NoWaitOutlives`) holds unless the feed loses a report. It adds to
  `NoWaitOutlivesItsOrder` that, as long as a place is waited for, the report that the order
  is new is ahead of any report that it is over (`Announced`): the cancel branch of
  `on_execution`, which clears no place wait, is then never the one that meets it. Late
  replies, refused cancels and dropped sessions do no harm here.
* `SoundInv` (`NothingLost`*) holds in a `Sound` world: requests are answered within the
  timeout, a cancel of a working order is obeyed, the session stays up. Of an order still on
  the wire nothing has been heard (`WireUnheard`); a refusal and a report of cancellation are
  final (`RefusalTrue`, `CanceledTrue`); a cancel is never on the wire for an order whose
  place is unanswered (`CancelAfterPlace`); and every order that works has a cancel on the
  wire, or is on the trader's book with at least the lots it has left (`Covered`). The
  reports on the feed decide that inequality one after the other, which `Covers` says by
  naming what is left after each. `NothingLeftWorking` (`ShutdownLeavesNothing`) is `Covered`
  when nothing is outstanding; `NeverTwoQuotes` (`OneQuoteWorks`) is the part `OneQuote`: ahead
  of each place on the wire is the cancel of whatever works at its product. On top of it
  `CrossInv` says that no market order is on the wire before the crossing, and that from then
  on no place is, and each order that works has its cancel ahead of every market order:
  `PulledBeforeCrossing` (`CrossesAlone`).
* `BooksInv` (`BooksAccounted`*) holds if, besides, the feed echoes the client id and loses
  nothing (`Reliable`). The inequality becomes an account (`Accounted`): what the trader has
  on record, less the fills on the feed up to any report, is what was left of the order there,
  and at the end of the feed it is what the venue has; an order the venue no longer has is
  over on the feed. With nothing in flight that is `BooksAgree` (`TheBooksAgree`).

Every conjunct of `Sound` is needed: with late replies, refused cancels or session drops
alone switched on in the worlds of `MCTradingSystem`, TLC finds each of the three properties
violated. So are the two `Reliable` adds for `BooksAgree`, and whole reports for
`NoWaitOutlivesItsOrder`. The code promises nothing there, and the section above says what it
then does.

**`OrderGateways_proofs`.** Three parts. *The task runner*: `RunnerInv` says what
`outstanding_` counts: posts that have counted themselves, tasks in flight, and a task run
but not yet counted off. It gives the cap (`BacklogStaysBounded`), that a zero counter means
nothing is left (`DrainIsFinal`*), well-typedness (`RunnerTypes`*) and, with the queue's
numbering, that every step is a step of `SerialExecutor` or a stutter
(`RunnerImplementsExecutor`). *The Binance session* (`RequestsMeetOpenSessions`):
`SessionInv` says that a client is with the constructor, with the io thread or in `client_`,
one at a time (`OneClient`), and that `connected_` is what that one last said
(`SpeaksForIt`), so the second look under the lock is enough; unless a redial overtook the
constructor's assignment, the case the property leaves out. *The KIS gateway*
(`GatewayKeepsContract`): the contract is a refinement, `IOrderGateway` with the answers
mapped through what each task carries. The invariant `KisInv` says that a poster's tasks
carry its requests in the order they were made (`CarriedInOrder`), and that what waits,
queued or being posted, has been neither answered nor sent out, but for the task at its call
(`WaitingUnanswered`). `GatewayRunsTheRunner`*: the composition is a `TaskRunner`, which carries the
runner's theorems over to it.

**`FeedServer_proofs`.** Three threads meet in queues that are ordered per enqueuing thread
only. `TaskFacts` orders the tasks of one session where the code relies on it: ADD is the
first, a closed session's REMOVE is on its way or done and nothing of the session comes
behind it (`ClosedIsForgotten`). `WriteFacts` keeps the acks and the broadcasts apart in the
write queue's lanes and `writing_` equal to a write in flight (`NothingIsDropped`).
`InfoReplayed` speaks of quiet states, so its invariant says what is on the way instead:
behind each info broadcast its RETAIN, in the order published, the newest retained last, and
for each subscriber the newest one delivered, in its queue, or headed for it
(`InfoIsReplayed`).

**`FeedLink_proofs`.** `BufferIsKept` needs that `writing_` is set exactly while an
`async_write` has yet to complete, aborted ones included, and that one which was not aborted
is on the open connection; those two are also `NeverTwoWrites`*.

**`BookSync_proofs`.** `BookStaysVenues` is about the sequencing rules: applying an event in
sequence turns the book of `last_update_id` into that of the event's `u`. It rests on what an
event says of the venue's history (`EventTrue`) and on `History`, that a level which no
update between i and j touched is the same at both. That is an induction over the updates;
as an invariant it is carried along one update at a time. That what was passed on is a book
the venue had, or the top of one, then follows from the book where a depth event is applied,
and from the bookTicker events on their way (`Told`). `BookStaysCurrent` adds that the
status events in the queue alternate from `market_opened_` to the socket's state
(`StatusesAlternate`): the last of them, when the socket is up, is one that fetches the book,
and what was sent after it is behind it (`CatchesUp`).

**`ExchangeSocket_proofs`.** `RedialFlagExact` is inductive with the types. For
`EveryOpenIsSeeded`, `SeedInv` says that, as long as no report was handled late, the reports
of the current client tell its history (`TellsHistory`), that a redial is only begun for a
client that is down and known to be (`RedialsTheDead`), and that the queues of clients to
come are empty (`QueuesFresh`); so an open connection is seeded or its report is still there.

**`MarketListener_proofs`.** `PositionStaysKnown`: `PositionKnown` speaks of quiet states
only. `Covered` says why quiet comes with knowledge: a subscribed trader has heard the newest
version, or had heard it before an older one of the product-info thread, or subscribed at it
within another's window, or one of the two threads still owes it. The worker may broadcast an
older position after a newer (a fetch overtakes updates still on the stream), but its last
message is the newest (`WorkerFresh`). The three holes of the property are exactly the
disjuncts that survive when nothing is owed.

**`Prices_proofs`.** *The fair price*: `FairStaysNearMid` from the bounds of the smoothed and clamped factor
(lemmas about the rounding in tenths and the clamp); `DeadPriceIsNotUsed` from `Backed`: no
price, delivered or on the wire, is younger than the pricer's last sight of what it was
computed from, a link that has brought a book or, for a frozen price, the link. It
assumes `MaxAge > 0`, as the code does: `fair_price_max_age_ns_ <= 0` switches ageing off.

*Quoting*, for any parameters of the strategy, book, fair price, volatility, tick and lot.
`LeftOver` and `Kept` are recursive functions over the resting orders. The library's
induction theorems take an operator, but its `WFMin` takes a set, and `Reaches` is induction
over the positions of a sequence from that; `RecursionExists` then says that such a function
is what its definition says. `QuotesStayPassive` is arithmetic: the caps are a tick inside the touch
(`LimitsInside`), so is every level (`LevelsInside`), and as the touch is on the tick grid,
rounding to the nearest tick cannot reach it (`SnapInside`). `DecisionsSettle` calls orders
`Settled` if each stands in for a wanted price when its turn comes: those that are kept are
settled and leave the same prices unclaimed as all did (`KeptSettled`), each order sent
claims the very price it was recorded at (`OwnClaim`, which is why the snapped price must
not be the recorded one) and nothing of the other side (`PlacedSettled`), and of settled
orders all are kept (`SettledKept`), with nothing left to send. `LimitHolds` is from
`LimitInv`, for one order a side, limits in lots and no blind decision: position and fills
to be booked are on the lot grid; there is at most one order a side that rests (settled
orders are, with one wanted price a side) and at most one that is being cancelled; none is
larger than what is sent, which is the order's size, snapped, or in a liquidation the whole
position; and with both filled the position stays within the limit and one order's
size, each snapped. A decision that replaces an order moves it from the one set to the other
(`DecideKeepsLimit`): what it sends fits the room that the position leaves (`RoomLeft`), and
the old one is an order's size beyond that at most. A fill moves lots from an order to the
position (`FillKeepsLimit`). Rounding to the lot commutes with a shift by whole lots
(`RoundShift`), so that nothing need be assumed of limit and size.

**Assumptions.** The named `ASSUME`s of the modules: the bounds are naturals, the venue
numbers orders uniquely, the sentinel `None` is no product, set of products, number or
integer, nor an order at the venue, the flags are Booleans, the sets of products and of
posters are finite and the cap is positive (the
constructor sees to that). TLC evaluates them in the runs of the modules that declare them.

**Only model-checked.** Liveness (it rests on fairness and ENABLED, which the prover does
not handle). `OwnQuotesApart` of `Quoting`: it depends on the strategy's parameters (with a
spread of 0 TLC finds a bid and an ask at one price), so there is nothing to prove for all
of them. The violation found by `MCLeftWorking` is TLC's.

## What is not modelled

* Text and bytes: JSON, framing, KIS's field positions, signing, CSV and log files.
* REST calls as such; their outcomes are inputs of the modules.
* The listenKey keepalive. Assets' balances and open orders,
  which `publish_user_state` fetches beside the positions; open orders reach the trader's
  model as reports about someone else's order.
* A price-dependent tick (`tick_func_`), trades and forward volatility in the pricer.
* The KIS product manager, and what its websocket client does with a frame.
* Exceptions out of libraries, except the one `init_connection` catches (in `ExchangeSocket`
  and `OrderSession`) and a KIS subscription's.
* Configuration and options, the plotting tools.

## Plan

Written so far, in this order: `OrderHandler` and its proofs; `TradingSystem`; the task
runner with its refinement; server and client of the feed; the exchange side (`BookSync`,
`ExchangeSocket`); prices (`FairPrice`, `Quoting`); the order session; the contract of the
order gateways and the KIS gateway that keeps it; the signals; the KIS socket; the way of
positions and ticks from the venue to the trader (`MarketListener`).

Next, the model: a composition of `BookSync`, `FeedLink` and `FairPrice`, to say how old a
book can be when it is decided on; a trader on KIS once listener and gateway serve the
same market.

Proved, in this order: the order handler's invariants; the task runner, the gateways and
their refinements; server, client and listener of the feed; the exchange side; the fair
price; the accounting of `TradingSystem`, from genuine messages to books that agree; last
what `Quoting` decides. Of the safety properties only `OwnQuotesApart` has no theorem; what
a spread must be for it to hold is open.
