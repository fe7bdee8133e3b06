------------------------------ MODULE BookSync ------------------------------
(***************************************************************************)
(* One product's order book in the Binance listener: OrderBook             *)
(* (market_listener/exchange/binance/order_book.{hpp,cpp}) as driven by    *)
(* BinanceListener::on_ws_status, on_market_open, resync_order_book and    *)
(* handle_market_payload.                                                  *)
(*                                                                         *)
(* The venue numbers every update; a depth event carries the first and the *)
(* last update it covers (U, u), the last one of the event before (pu) and *)
(* the final quantity of every level it touches.  Update numbers are       *)
(* shared with other products, so they may skip.  The same socket carries  *)
(* the product's bookTicker events, each the best level at that moment;    *)
(* the listener passes them on as order books of one level without a look  *)
(* at its own book.  Events that the venue sends while the socket is down  *)
(* are lost.  A REST snapshot is a book the venue had, at most `lag'       *)
(* updates ago.                                                            *)
(*                                                                         *)
(* The two sides are handled alike by the code; one, the bids, stands for  *)
(* both.  Two things are assumed of the venue and the sockets: a book has  *)
(* no more levels than the 1000 a snapshot asks for, so that a snapshot is *)
(* all of it, and the socket's reports reach ws_event_queue_ in the order  *)
(* they were made, up and down in turn (a report of a replaced client that *)
(* comes late is in ExchangeSocket).                                       *)
(***************************************************************************)
EXTENDS Integers, Sequences, FiniteSets, FiniteSetsExt

CONSTANTS
  Price, MaxQty,   \* a level's quantity is 0..MaxQty, 0 meaning no level
  MaxUpdates,      \* bound: updates at the venue
  MaxTicks,        \* bound: bookTicker events
  MaxDrops,        \* bound: how often the socket drops
  MaxFailures,     \* bound: snapshots that fail
  Lag              \* bound: how many updates a snapshot may be behind

ASSUME BookAssumption ==
  {MaxQty, MaxUpdates, MaxTicks, MaxDrops, MaxFailures, Lag} \subseteq Nat

\* A book gives each price its quantity, 0 for no level.
EmptyBook == [p \in Price |-> 0]

VARIABLES
  \* the venue (external)
  history,       \* the book after each update
  sent,          \* the last update an event has covered
  socket,        \* is the market socket up?
  drops,
  ticks,         \* the bookTicker events it has sent
  lag,           \* how many updates a snapshot may be behind in this behaviour
  \* the listener
  events,        \* ws_event_queue_
  market_opened, \* market_opened_
  synced, last_update_id, book,
  published,     \* the levels of the last OrderbookMsg enqueued for the traders
  failures

venueVars == <<history, sent, ticks, lag>>
bookVars == <<synced, last_update_id, book, published>>
vars == <<venueVars, socket, drops, events, market_opened, bookVars, failures>>

At(i) == IF i = 0 THEN EmptyBook ELSE history[i]

\* The updates after `from` that changed this product's book.
Changes(from) == {i \in (from + 1)..Len(history) : At(i) # At(i - 1)}

\* The best level of a book, if it has one.
Top(b) ==
  [p \in {q \in Price : b[q] > 0 /\ \A r \in Price : b[r] > 0 => r <= q} |-> b[p]]

\* The socket is being dialled; no book has been fetched.
Init ==
  /\ lag \in 0..Lag
  /\ history = <<>> /\ sent = 0 /\ ticks = 0 /\ socket = FALSE /\ drops = 0
  /\ events = <<>> /\ market_opened = FALSE
  /\ synced = FALSE /\ last_update_id = 0
  /\ book = EmptyBook /\ published = EmptyBook
  /\ failures = 0
-----------------------------------------------------------------------------
(* The venue and the socket (external).                                    *)

\* A level of this product changes, or something of another product.
VenueUpdates ==
  /\ Len(history) < MaxUpdates
  /\ \E p \in Price, q \in 0..MaxQty :
       history' = Append(history, [At(Len(history)) EXCEPT ![p] = q])
  /\ UNCHANGED <<sent, ticks, lag, socket, drops, events, market_opened, bookVars, failures>>

DepthEvent ==
  LET u == Max(Changes(sent))
  IN  [kind |-> "diff", U |-> Min(Changes(sent)), u |-> u, pu |-> sent,
       levels |-> [p \in {q \in Price : \E i \in Changes(sent) : At(i)[q] # At(i - 1)[q]}
                     |-> At(u)[p]]]

VenueSends ==
  /\ Changes(sent) # {}
  /\ events' = IF socket THEN Append(events, DepthEvent) ELSE events
  /\ sent' = Max(Changes(sent))
  /\ UNCHANGED <<history, ticks, lag, socket, drops, market_opened, bookVars, failures>>

\* A bookTicker event: the best level as it is now, if there is one.
VenueTicks ==
  /\ socket /\ At(Len(history)) # EmptyBook
  /\ ticks < MaxTicks /\ ticks' = ticks + 1
  /\ events' = Append(events, [kind |-> "ticker", levels |-> Top(At(Len(history)))])
  /\ UNCHANGED <<history, sent, lag, socket, drops, market_opened, bookVars, failures>>

SocketOpens ==
  /\ ~socket /\ socket' = TRUE
  /\ events' = Append(events, [kind |-> "status", opened |-> TRUE])
  /\ UNCHANGED <<venueVars, drops, market_opened, bookVars, failures>>

SocketDrops ==
  /\ socket /\ socket' = FALSE
  /\ drops < MaxDrops /\ drops' = drops + 1
  /\ events' = Append(events, [kind |-> "status", opened |-> FALSE])
  /\ UNCHANGED <<venueVars, market_opened, bookVars, failures>>
-----------------------------------------------------------------------------
(* OrderBook and the listener's worker.                                    *)

\* The last update of this product up to i: a snapshot's lastUpdateId.
LastChange(i) == Max({0} \cup {j \in 1..i : At(j) # At(j - 1)})

\* apply_snapshot, of a book the venue had, and the message that follows it.
ApplySnapshot(id, levels) ==
  /\ book' = levels /\ last_update_id' = id /\ synced' = TRUE
  /\ published' = book'

\* fetch_depth, which may fail: the book then stays out of sync, and the next
\* diff asks again.
ResyncOrderBook ==
  \/ /\ failures < MaxFailures /\ failures' = failures + 1
     /\ synced' = FALSE
     /\ UNCHANGED <<last_update_id, book, published>>
  \/ \E i \in Max({0, Len(history) - lag})..Len(history) :
       /\ ApplySnapshot(LastChange(i), At(i))
       /\ UNCHANGED failures

\* apply_side: quantity 0 erases the level.
ApplyLevels(levels) == [p \in Price |-> IF p \in DOMAIN levels THEN levels[p] ELSE book[p]]

\* Mutant: the first event may begin one update too late.
InSequenceOffByOne(e) ==
  \/ e.U <= last_update_id + 2 /\ last_update_id + 1 <= e.u
  \/ e.pu = last_update_id

\* The first event after a snapshot straddles it, the others chain by pu.
InSequence(e) ==
  \/ e.U <= last_update_id + 1 /\ last_update_id + 1 <= e.u
  \/ e.pu = last_update_id

\* apply_diff, and the resync that follows when it returns FALSE.
DropsOld(e) ==
  /\ synced /\ e.u < last_update_id
  /\ published' = book
  /\ UNCHANGED <<synced, last_update_id, book, failures>>

Applies(e) ==
  /\ synced /\ e.u >= last_update_id /\ InSequence(e)
  /\ book' = ApplyLevels(e.levels)
  /\ last_update_id' = e.u
  /\ published' = book'
  /\ UNCHANGED <<synced, failures>>

Desyncs(e) ==
  /\ ~synced \/ (e.u >= last_update_id /\ ~InSequence(e))
  /\ ResyncOrderBook

HandleDiff ==
  /\ events # <<>> /\ Head(events).kind = "diff"
  /\ LET e == Head(events) IN DropsOld(e) \/ Applies(e) \/ Desyncs(e)
  /\ events' = Tail(events)
  /\ UNCHANGED <<venueVars, socket, drops, market_opened>>

\* The bookTicker branch: the best level goes to the traders as it came, whether or
\* not the book is in sync.
HandleTicker ==
  /\ events # <<>> /\ Head(events).kind = "ticker"
  /\ published' = Head(events).levels
  /\ events' = Tail(events)
  /\ UNCHANGED <<venueVars, socket, drops, market_opened, synced, last_update_id, book, failures>>

\* Mutant: the book is fetched on the first connection only.
OnWsStatusFirstOnly ==
  /\ events # <<>> /\ Head(events).kind = "status"
  /\ IF ~market_opened /\ Head(events).opened /\ last_update_id = 0
     THEN ResyncOrderBook ELSE UNCHANGED <<bookVars, failures>>
  /\ market_opened' = Head(events).opened
  /\ events' = Tail(events)
  /\ UNCHANGED <<venueVars, socket, drops>>

\* on_ws_status: the book is fetched afresh whenever the socket comes up.
OnWsStatus ==
  /\ events # <<>> /\ Head(events).kind = "status"
  /\ IF ~market_opened /\ Head(events).opened
     THEN ResyncOrderBook ELSE UNCHANGED <<bookVars, failures>>
  /\ market_opened' = Head(events).opened
  /\ events' = Tail(events)
  /\ UNCHANGED <<venueVars, socket, drops>>

Next ==
  \/ VenueUpdates \/ VenueSends \/ VenueTicks \/ SocketOpens \/ SocketDrops
  \/ HandleDiff \/ HandleTicker \/ OnWsStatus

Spec == Init /\ [][Next]_vars
-----------------------------------------------------------------------------
(* Properties.                                                             *)

\* "following Binance's U/u/pu sequencing rules": while the book counts as synced
\* it is, level for level, the book the venue had at last_update_id, whatever was
\* lost, and whichever events the snapshot was taken before, within or after; and
\* what the traders were sent last, by a depth event, a snapshot or a bookTicker
\* event, in or out of sync, is a book or the best level of a book the venue had.
BookIsVenues ==
  /\ synced => book = At(last_update_id)
  /\ \E i \in 0..Len(history) : published \in {At(i), Top(At(i))}

\* With snapshots that are not behind, nothing the venue sent is missing once the
\* events are handled: the book is not older than the last event.
BookIsCurrent ==
  lag = 0 /\ socket /\ events = <<>> /\ synced => last_update_id >= sent
=============================================================================
