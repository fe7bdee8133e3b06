---------------------------- MODULE OrderHandler ----------------------------
(***************************************************************************)
(* The trader's order bookkeeping: class OrderHandler of                   *)
(* src/trader/order_handler/order_handler.{hpp,cpp}.                       *)
(*                                                                         *)
(* One trader thread takes tasks off trader_queue_ and runs one handler to *)
(* completion per task, so a handler is one action.  The handlers are      *)
(* driven here by an OPEN environment: a reply or an execution report may  *)
(* arrive at any time, in any order, twice, or never, about any order that *)
(* was handed to the gateway and about orders placed by someone else.      *)
(* What holds here therefore holds whatever the gateway, the venue and the *)
(* feed do; TradingSystem closes the loop with an actual venue.            *)
(*                                                                         *)
(* Abstractions.  A client order id (cid) is a timestamp made strictly     *)
(* increasing; only its order matters, so ids are 1, 2, 3...  The age of   *)
(* the oldest unanswered request is "idle" (response_waiting_since_ns = 0),*)
(* "fresh", or "expired" (older than order_response_timeout).  Prices are  *)
(* left out; a map that lacks a key holds None there.  What the strategy   *)
(* decides is left open: any set of resting orders to cancel, any orders   *)
(* to place.                                                               *)
(***************************************************************************)
EXTENDS Integers, FiniteSets

CONSTANTS
  Product,        \* trade_products_: each has a ProductState from the start
  MaxCid,         \* bound: how many client order ids a behaviour may use
  MaxQty,         \* bound: the largest order, in lots
  MaxPosition,    \* bound: the largest position, long or short, in lots
  MaxPlaces,      \* bound: the most orders one decision places
  OrderNo,        \* the venue's order numbers
  VenueNo,        \* the number the venue gives the order sent under a cid
  ForeignProduct, \* the product of each order number that is not ours
  EchoesCid,      \* does the execution feed carry our client order id?
  PositionFromFills, \* update_position_on_fill: does a fill move the position?
  HasTickFunc,    \* market_config_.tick_func: tick known without product_info
  FlattenOnShutdown, MarketFlatten, \* the shutdown options
  None            \* "no such key"

Cid == 1..MaxCid
Qty == 1..MaxQty
Position == -MaxPosition..MaxPosition
Ours == {VenueNo[c] : c \in Cid}
Foreign == OrderNo \ Ours

ASSUME BoundsAssumption ==
  MaxCid \in Nat /\ MaxQty \in Nat /\ MaxPosition \in Nat /\ MaxPlaces \in Nat

\* The venue numbers orders uniquely, and a sentinel is no value of anything.
ASSUME VenueAssumption ==
  /\ VenueNo \in [Cid -> OrderNo]
  /\ \A c, d \in Cid : VenueNo[c] = VenueNo[d] => c = d
  /\ ForeignProduct \in [OrderNo -> Product]

ASSUME NoneAssumption ==
  None \notin Product /\ None \notin OrderNo /\ None \notin Int

ASSUME FlagsAssumption ==
  /\ EchoesCid \in BOOLEAN /\ PositionFromFills \in BOOLEAN
  /\ HasTickFunc \in BOOLEAN
  /\ FlattenOnShutdown \in BOOLEAN /\ MarketFlatten \in BOOLEAN

VARIABLES
  last_cid,             \* last_cid_
  cid_to_product,       \* cid_to_product_
  order_no_to_product,  \* order_no_to_product_
  pending,              \* pending_order_records_: the kind recorded per cid
  listener_connected,   \* listener_connected_
  phase,                \* where the trader thread is, see Phases
  crossing,             \* products submit_market_flatten has still to visit
  \* ProductState, one entry per product
  outstanding,          \* outstanding_orders: remaining lots per cid
  cid_to_order_no,
  order_no_to_cid,
  place_waiting,        \* response_waiting_place_orders
  cancel_waiting,       \* response_waiting_cancel_orders
  waiting_since,        \* response_waiting_since_ns
  position,             \* position_in_lots
  tick_known,           \* product_info.tick_size.has_value()
  two_sided,            \* l1 has both a bid and an ask
  \* history: what was handed to the gateway as a place, and for which product
  placed

orderVars == <<outstanding, cid_to_order_no, order_no_to_cid,
               cid_to_product, order_no_to_product>>
waitVars == <<place_waiting, cancel_waiting, waiting_since>>
marketVars == <<listener_connected, tick_known, two_sided>>
controlVars == <<phase, crossing>>
vars == <<last_cid, pending, placed, position,
          orderVars, waitVars, marketVars, controlVars>>

(***************************************************************************)
(* "run" is the main loop of trader_main; the rest is shutdown():          *)
(* cancel_all_orders, the passive stage of flatten_positions, its cancel   *)
(* before crossing, the market orders, the wait for them, and the last     *)
(* cancel_all_orders.                                                      *)
(***************************************************************************)
CancelPhases == {"cancel", "cross_cancel", "final"}
Phases == {"run", "flatten", "cross_send", "cross_wait", "done"} \cup CancelPhases
ShuttingDown == phase # "run"

Outstanding(p) == {c \in Cid : outstanding[p][c] # None}
Waiting(p) == place_waiting[p] \cup cancel_waiting[p]
Cancellable(p) ==
  {c \in Outstanding(p) : c \notin cancel_waiting[p] /\ cid_to_order_no[p][c] # None}

\* Mutant: orders whose place is unanswered are not counted.
NumberedOrdersOnly ==
  \A p \in Product : {c \in Outstanding(p) : cid_to_order_no[p][c] # None} = {}
NoOrdersOutstanding == \A p \in Product : Outstanding(p) = {}
AnyCancellable == \E p \in Product : Cancellable(p) # {}
AllFlat == \A p \in Product : position[p] = 0

\* run() takes tasks for ever; pump_until stops as soon as its `done` holds.
Pumping ==
  \/ phase = "run"
  \/ phase \in CancelPhases /\ ~NoOrdersOutstanding /\ ~AnyCancellable
  \/ phase \in {"flatten", "cross_wait"} /\ ~AllFlat

TypeOK ==
  /\ last_cid \in 0..MaxCid
  /\ cid_to_product \in [Cid -> Product \cup {None}]
  /\ order_no_to_product \in [OrderNo -> Product \cup {None}]
  /\ pending \in [Cid -> {"place", "cancel", None}]
  /\ listener_connected \in BOOLEAN
  /\ phase \in Phases
  /\ crossing \in SUBSET Product
  /\ outstanding \in [Product -> [Cid -> Nat \cup {None}]]
  /\ cid_to_order_no \in [Product -> [Cid -> OrderNo \cup {None}]]
  /\ order_no_to_cid \in [Product -> [OrderNo -> Cid \cup {None}]]
  /\ place_waiting \in [Product -> SUBSET Cid]
  /\ cancel_waiting \in [Product -> SUBSET Cid]
  /\ waiting_since \in [Product -> {"idle", "fresh", "expired"}]
  /\ position \in [Product -> Position]
  /\ tick_known \in [Product -> BOOLEAN]
  /\ two_sided \in [Product -> BOOLEAN]
  /\ placed \in [Cid -> Product \cup {None}]

Init ==
  /\ last_cid = 0
  /\ cid_to_product = [c \in Cid |-> None]
  /\ order_no_to_product = [o \in OrderNo |-> None]
  /\ pending = [c \in Cid |-> None]
  /\ listener_connected = FALSE
  /\ phase = "run"
  /\ crossing = {}
  /\ outstanding = [p \in Product |-> [c \in Cid |-> None]]
  /\ cid_to_order_no = [p \in Product |-> [c \in Cid |-> None]]
  /\ order_no_to_cid = [p \in Product |-> [o \in OrderNo |-> None]]
  /\ place_waiting = [p \in Product |-> {}]
  /\ cancel_waiting = [p \in Product |-> {}]
  /\ waiting_since = [p \in Product |-> "idle"]
  /\ position = [p \in Product |-> 0]
  /\ tick_known = [p \in Product |-> FALSE]
  /\ two_sided = [p \in Product |-> FALSE]
  /\ placed = [c \in Cid |-> None]
-----------------------------------------------------------------------------
(* Bookkeeping shared by the handlers.                                     *)

\* A local bind_order_no in on_execution, repeated in on_order_response.
BindOrderNo(p, c, o) ==
  /\ cid_to_order_no' = [cid_to_order_no EXCEPT ![p][c] = o]
  /\ order_no_to_cid' = [order_no_to_cid EXCEPT ![p][o] = c]
  /\ order_no_to_product' = [order_no_to_product EXCEPT ![o] = p]

\* Mutant: the number still leads to the forgotten cid.
ForgetOrderKeepsNumber(p, c) ==
  /\ order_no_to_product' =
       [o \in OrderNo |-> IF o = cid_to_order_no[p][c] THEN None ELSE order_no_to_product[o]]
  /\ cid_to_order_no' = [cid_to_order_no EXCEPT ![p][c] = None]
  /\ outstanding' = [outstanding EXCEPT ![p][c] = None]
  /\ cid_to_product' = [cid_to_product EXCEPT ![c] = None]
  /\ UNCHANGED order_no_to_cid

\* forget_order: out of every index; the two order_no maps only at the number
\* the cid is bound to.
ForgetOrder(p, c) ==
  LET Unmap(f) == [o \in OrderNo |-> IF o = cid_to_order_no[p][c] THEN None ELSE f[o]]
  IN  /\ order_no_to_product' = Unmap(order_no_to_product)
      /\ order_no_to_cid' = [order_no_to_cid EXCEPT ![p] = Unmap(order_no_to_cid[p])]
      /\ cid_to_order_no' = [cid_to_order_no EXCEPT ![p][c] = None]
      /\ outstanding' = [outstanding EXCEPT ![p][c] = None]
      /\ cid_to_product' = [cid_to_product EXCEPT ![c] = None]

\* Mutant: the clock is left running.
EraseWaitingKeepsClock(p, places, cancels) ==
  /\ place_waiting' = [place_waiting EXCEPT ![p] = @ \ places]
  /\ cancel_waiting' = [cancel_waiting EXCEPT ![p] = @ \ cancels]
  /\ UNCHANGED waiting_since

\* Requests answered: the clock stops when the last one leaves the sets.
EraseWaiting(p, places, cancels) ==
  LET pw == place_waiting[p] \ places
      cw == cancel_waiting[p] \ cancels
  IN  /\ place_waiting' = [place_waiting EXCEPT ![p] = pw]
      /\ cancel_waiting' = [cancel_waiting EXCEPT ![p] = cw]
      /\ waiting_since' = [waiting_since EXCEPT ![p] = IF pw \cup cw = {} THEN "idle" ELSE @]

-----------------------------------------------------------------------------
(* on_execution.  An execution report is a record                          *)
(*   [product, order_no, client_order_id, kind, qty, is_bid]               *)
(* whose kind stands for the flag combination the handler tells apart:     *)
(* "rejected", "canceled" (cancelled or expired), "new" (a place accepted) *)
(* or "fill".  qty is in lots, after rounding: it may be 0.                *)

HaveCid(e) == e.client_order_id # None /\ cid_to_product[e.client_order_id] # None

\* Route by cid, else by order number, else to the product of the message.
TargetProduct(e) ==
  CASE HaveCid(e) -> cid_to_product[e.client_order_id]
    [] ~HaveCid(e) /\ order_no_to_product[e.order_no] # None -> order_no_to_product[e.order_no]
    [] OTHER -> e.product

\* Mutant: no fallback to the order number.
TargetCidByEchoOnly(e) == IF HaveCid(e) THEN e.client_order_id ELSE None

TargetCid(e) ==
  IF HaveCid(e) THEN e.client_order_id ELSE order_no_to_cid[TargetProduct(e)][e.order_no]

ExecRejected(e) ==
  LET p == TargetProduct(e)
      c == TargetCid(e)
  IN  /\ e.kind = "rejected" /\ c # None
      /\ EraseWaiting(p, {c}, {c})
      /\ ForgetOrder(p, c)
      /\ UNCHANGED <<last_cid, pending, placed, position>>

\* The place-waiting set keeps the cid: only the cancel-waiting one is erased.
ExecCanceled(e) ==
  LET p == TargetProduct(e)
      c == TargetCid(e)
  IN  /\ e.kind = "canceled" /\ c # None
      /\ EraseWaiting(p, {}, {c})
      /\ ForgetOrder(p, c)
      /\ UNCHANGED <<last_cid, pending, placed, position>>

ExecNew(e) ==
  LET p == TargetProduct(e)
      c == TargetCid(e)
  IN  /\ e.kind = "new" /\ c # None
      /\ BindOrderNo(p, c, e.order_no)
      /\ EraseWaiting(p, {c}, {})
      /\ UNCHANGED <<last_cid, pending, placed, position, outstanding, cid_to_product>>

\* An order that is not ours (openOrders snapshot, manual order, a feed that
\* does not echo the cid) is adopted under a cid of its own.
ExecAdopt(e) ==
  LET p == TargetProduct(e)
      c == last_cid + 1
  IN  /\ e.kind = "new" /\ TargetCid(e) = None
      /\ c \in Cid
      /\ last_cid' = c
      /\ cid_to_product' = [cid_to_product EXCEPT ![c] = p]
      /\ outstanding' = [outstanding EXCEPT ![p][c] = e.qty]
      /\ BindOrderNo(p, c, e.order_no)
      /\ UNCHANGED <<pending, placed, position, waitVars>>

\* A cid without an entry is a market order: operator[] conjures one of 0 lots,
\* which any fill takes to 0 or below.
LotsLeft(p, c, e) == (IF outstanding[p][c] = None THEN 0 ELSE outstanding[p][c]) - e.qty

\* Mutants: an overfill is not a full fill; a full fill leaves the waits alone.
FillOrderExact(p, c, e) ==
  IF LotsLeft(p, c, e) = 0
  THEN EraseWaiting(p, {c}, {c}) /\ ForgetOrder(p, c)
  ELSE /\ outstanding' = [outstanding EXCEPT ![p][c] = LotsLeft(p, c, e)]
       /\ UNCHANGED <<cid_to_order_no, order_no_to_cid, cid_to_product,
                      order_no_to_product, waitVars>>

FillOrderKeepsWaits(p, c, e) ==
  IF LotsLeft(p, c, e) <= 0
  THEN ForgetOrder(p, c) /\ UNCHANGED waitVars
  ELSE /\ outstanding' = [outstanding EXCEPT ![p][c] = LotsLeft(p, c, e)]
       /\ UNCHANGED <<cid_to_order_no, order_no_to_cid, cid_to_product,
                      order_no_to_product, waitVars>>

FillOrder(p, c, e) ==
  IF LotsLeft(p, c, e) <= 0
  THEN EraseWaiting(p, {c}, {c}) /\ ForgetOrder(p, c)
  ELSE /\ outstanding' = [outstanding EXCEPT ![p][c] = LotsLeft(p, c, e)]
       /\ UNCHANGED <<cid_to_order_no, order_no_to_cid, cid_to_product,
                      order_no_to_product, waitVars>>

ExecFill(e) ==
  LET p == TargetProduct(e)
      c == TargetCid(e)
      signed == IF e.is_bid THEN e.qty ELSE -e.qty
  IN  /\ e.kind = "fill"
      /\ IF c # None THEN FillOrder(p, c, e) ELSE UNCHANGED <<orderVars, waitVars>>
      /\ position' = [position EXCEPT ![p] = IF PositionFromFills THEN @ + signed ELSE @]
      /\ position'[p] \in Position
      /\ UNCHANGED <<last_cid, pending, placed>>

ExecIgnored(e) ==
  /\ e.kind \in {"rejected", "canceled"} /\ TargetCid(e) = None
  /\ UNCHANGED <<last_cid, pending, placed, position, orderVars, waitVars>>

OnExecution(e) ==
  /\ Pumping
  /\ \/ ExecRejected(e) \/ ExecCanceled(e) \/ ExecNew(e)
     \/ ExecAdopt(e) \/ ExecFill(e) \/ ExecIgnored(e)
  /\ UNCHANGED <<marketVars, controlVars>>

-----------------------------------------------------------------------------
(* on_order_response.  A reply is a record                                 *)
(*   [cid, success, order_gone, order_no];                                 *)
(* it does not say which request it answers: the waiting sets do.          *)

DropRecord(c) == pending' = [pending EXCEPT ![c] = None]

\* The order is already forgotten: only its record row is written.
ReplyUnknown(r) ==
  /\ cid_to_product[r.cid] = None
  /\ DropRecord(r.cid)
  /\ UNCHANGED <<orderVars, waitVars>>

\* Mutant: a cancel refused because the order is gone keeps the order.
CancelReplyIgnoresGone(r) ==
  LET p == cid_to_product[r.cid]
  IN  /\ p # None
      /\ r.cid \in cancel_waiting[p]
      /\ EraseWaiting(p, {r.cid}, {r.cid})
      /\ DropRecord(r.cid)
      /\ IF r.success THEN ForgetOrder(p, r.cid) ELSE UNCHANGED orderVars

CancelReply(r) ==
  LET p == cid_to_product[r.cid]
  IN  /\ p # None
      /\ r.cid \in cancel_waiting[p]
      /\ EraseWaiting(p, {r.cid}, {r.cid})
      /\ DropRecord(r.cid)
      /\ IF r.success \/ r.order_gone THEN ForgetOrder(p, r.cid) ELSE UNCHANGED orderVars

\* Mutant: a refused place is not dropped.
PlaceReplyKeepsRefused(r) ==
  LET p == cid_to_product[r.cid]
  IN  /\ p # None
      /\ r.cid \notin cancel_waiting[p]
      /\ EraseWaiting(p, {r.cid}, {r.cid})
      /\ DropRecord(r.cid)
      /\ IF r.success /\ r.order_no # None
         THEN BindOrderNo(p, r.cid, r.order_no) /\ UNCHANGED <<outstanding, cid_to_product>>
         ELSE UNCHANGED orderVars

\* Any other reply is read as the answer to the place, also a late one.
PlaceReply(r) ==
  LET p == cid_to_product[r.cid]
      was_place == r.cid \in place_waiting[p]
  IN  /\ p # None
      /\ r.cid \notin cancel_waiting[p]
      /\ EraseWaiting(p, {r.cid}, {r.cid})
      /\ DropRecord(r.cid)
      /\ \/ /\ r.success /\ r.order_no # None
            /\ BindOrderNo(p, r.cid, r.order_no)
            /\ UNCHANGED <<outstanding, cid_to_product>>
         \/ /\ ~r.success /\ was_place
            /\ ForgetOrder(p, r.cid)
         \/ /\ IF r.success THEN r.order_no = None ELSE ~was_place
            /\ UNCHANGED orderVars

OnOrderResponse(r) ==
  /\ Pumping
  /\ ReplyUnknown(r) \/ CancelReply(r) \/ PlaceReply(r)
  /\ UNCHANGED <<last_cid, placed, position, marketVars, controlVars>>

-----------------------------------------------------------------------------
(* The other feed messages.                                                *)

\* on_listener_status; the subscriptions it renews belong to the link.
OnListenerStatus(connected) ==
  /\ Pumping
  /\ listener_connected' = connected
  /\ UNCHANGED <<last_cid, pending, placed, position, orderVars, waitVars,
                 tick_known, two_sided, controlVars>>

OnPosition(p, balance) ==
  /\ Pumping
  /\ position' = [position EXCEPT ![p] = balance]
  /\ UNCHANGED <<last_cid, pending, placed, orderVars, waitVars, marketVars, controlVars>>

OnProductInfo(p) ==
  /\ Pumping
  /\ tick_known' = [tick_known EXCEPT ![p] = TRUE]
  /\ UNCHANGED <<last_cid, pending, placed, position, orderVars, waitVars,
                 listener_connected, two_sided, controlVars>>

OnOrderbook(p, both_sides) ==
  /\ Pumping
  /\ two_sided' = [two_sided EXCEPT ![p] = both_sides]
  /\ UNCHANGED <<last_cid, pending, placed, position, orderVars, waitVars,
                 listener_connected, tick_known, controlVars>>

-----------------------------------------------------------------------------
(* update_orders: one decision for one product, from the timer tick while  *)
(* running and from flatten_positions while liquidating.  A tick that      *)
(* arrives once shutdown has begun does nothing.                           *)

\* Mutant: a decision tick still on the queue quotes during shutdown.
MayDecideWhileStopping(p) ==
  /\ phase # "done"
  /\ listener_connected
  /\ HasTickFunc \/ tick_known[p]
  /\ Waiting(p) = {} \/ waiting_since[p] = "expired"

\* Mutant: a wait is never given up.
MayDecideOnceAnswered(p) ==
  /\ phase = "run" \/ (phase = "flatten" /\ ~AllFlat)
  /\ listener_connected
  /\ HasTickFunc \/ tick_known[p]
  /\ Waiting(p) = {}

MayDecide(p) ==
  /\ phase = "run" \/ (phase = "flatten" /\ ~AllFlat)
  /\ listener_connected
  /\ HasTickFunc \/ tick_known[p]
  /\ Waiting(p) = {} \/ waiting_since[p] = "expired"

\* A timed-out wait is closed out (rows written, sets cleared) before the
\* prices are looked at, so it is cleared also when there is no book to quote.
ClearTimedOutWait(p) ==
  /\ MayDecide(p)
  /\ Waiting(p) # {} /\ ~two_sided[p]
  /\ EraseWaiting(p, place_waiting[p], cancel_waiting[p])
  /\ pending' = [c \in Cid |-> IF c \in Waiting(p) THEN None ELSE pending[c]]
  /\ UNCHANGED <<last_cid, placed, position, orderVars, marketVars, controlVars>>

\* submit_cancel for each order to pull whose number is known, then
\* submit_place for each order wanted: `lots` maps the new cids to their
\* sizes, those only that are still positive on the product's grid.
UpdateOrders(p, cancels, lots) ==
  LET sent == {c \in cancels : cid_to_order_no[p][c] # None}
      new == DOMAIN lots
  IN  /\ MayDecide(p)
      /\ two_sided[p]
      /\ cancels \subseteq Outstanding(p)
      /\ last_cid' = last_cid + Cardinality(new)
      /\ new = (last_cid + 1)..last_cid'
      /\ cid_to_product' = [c \in Cid |-> IF c \in new THEN p ELSE cid_to_product[c]]
      /\ placed' = [c \in Cid |-> IF c \in new THEN p ELSE placed[c]]
      /\ outstanding' = [outstanding EXCEPT ![p] =
           [c \in Cid |-> IF c \in new THEN lots[c] ELSE outstanding[p][c]]]
      /\ place_waiting' = [place_waiting EXCEPT ![p] = new]
      /\ cancel_waiting' = [cancel_waiting EXCEPT ![p] = sent]
      /\ waiting_since' = [waiting_since EXCEPT ![p] =
           IF new \cup sent = {} THEN "idle" ELSE "fresh"]
      /\ pending' = [c \in Cid |->
           CASE c \in new -> "place"
             [] c \in sent -> "cancel"
             [] c \in Waiting(p) \ sent -> None
             [] OTHER -> pending[c]]
      /\ UNCHANGED <<position, cid_to_order_no, order_no_to_cid, order_no_to_product,
                     marketVars, controlVars>>

\* The sizes one decision may place: at most MaxPlaces orders, while ids last.
Placements ==
  UNION {[(last_cid + 1)..(last_cid + n) -> Qty] :
           n \in {m \in 0..MaxPlaces : last_cid + m <= MaxCid}}

\* order_response_timeout passes while a request is unanswered.
TimePasses(p) ==
  /\ phase # "done"
  /\ waiting_since[p] = "fresh"
  /\ waiting_since' = [waiting_since EXCEPT ![p] = "expired"]
  /\ UNCHANGED <<last_cid, pending, placed, position, orderVars,
                 place_waiting, cancel_waiting, marketVars, controlVars>>

-----------------------------------------------------------------------------
(* shutdown().                                                             *)

GoTo(ph) ==
  /\ phase' = ph
  /\ UNCHANGED <<last_cid, pending, placed, position, orderVars, waitVars, marketVars>>

BeginShutdown == phase = "run" /\ GoTo("cancel") /\ UNCHANGED crossing

\* One round of cancel_all_orders: whatever has become cancellable.
CancelRound ==
  /\ phase \in CancelPhases /\ AnyCancellable
  /\ cancel_waiting' = [p \in Product |-> cancel_waiting[p] \cup Cancellable(p)]
  /\ waiting_since' = [p \in Product |->
       IF Cancellable(p) # {} /\ Waiting(p) = {} THEN "fresh" ELSE waiting_since[p]]
  /\ pending' = [c \in Cid |->
       IF \E p \in Product : c \in Cancellable(p) THEN "cancel" ELSE pending[c]]
  /\ UNCHANGED <<last_cid, placed, position, orderVars, place_waiting,
                 marketVars, controlVars>>

\* Where shutdown() goes once flatten_positions has returned.
AfterFlatten == IF NoOrdersOutstanding THEN "done" ELSE "final"

Unflat == {p \in Product : position[p] # 0}

\* Where it goes once a cancel_all_orders has returned.
AfterCancel ==
  CASE phase = "cancel" /\ ~FlattenOnShutdown -> "done"
    [] phase = "cancel" /\ FlattenOnShutdown /\ AllFlat -> AfterFlatten
    [] phase = "cancel" /\ FlattenOnShutdown /\ ~AllFlat -> "flatten"
    [] phase = "cross_cancel" -> "cross_send"
    [] phase = "final" -> "done"

LeaveCancel ==
  /\ GoTo(AfterCancel)
  /\ crossing' = IF phase = "cross_cancel" THEN Unflat ELSE crossing

\* "all orders cancelled"
AllOrdersCancelled == phase \in CancelPhases /\ NoOrdersOutstanding /\ LeaveCancel

\* "gave up cancelling": shutdown_cancel_timeout passed
GaveUpCancelling == phase \in CancelPhases /\ ~NoOrdersOutstanding /\ LeaveCancel

\* The passive stage ends flat, or shutdown_flatten_timeout passes.
EndPassiveFlatten ==
  /\ phase = "flatten"
  /\ GoTo(IF ~AllFlat /\ MarketFlatten THEN "cross_cancel" ELSE AfterFlatten)
  /\ UNCHANGED crossing

\* A market order is not recorded as outstanding; its cid is.
SubmitMarketFlatten(p) ==
  LET c == last_cid + 1
  IN  /\ phase = "cross_send" /\ p \in crossing
      /\ c \in Cid
      /\ crossing' = crossing \ {p}
      /\ last_cid' = c
      /\ cid_to_product' = [cid_to_product EXCEPT ![c] = p]
      /\ placed' = [placed EXCEPT ![c] = p]
      /\ place_waiting' = [place_waiting EXCEPT ![p] = @ \cup {c}]
      /\ waiting_since' = [waiting_since EXCEPT ![p] = IF Waiting(p) = {} THEN "fresh" ELSE @]
      /\ pending' = [pending EXCEPT ![c] = "place"]
      /\ UNCHANGED <<position, outstanding, cid_to_order_no, order_no_to_cid,
                     order_no_to_product, cancel_waiting, marketVars, phase>>

\* The position rounds to nothing on the product's grid.
SkipMarketFlatten(p) ==
  /\ phase = "cross_send" /\ p \in crossing
  /\ crossing' = crossing \ {p}
  /\ UNCHANGED <<last_cid, pending, placed, position, orderVars, waitVars, marketVars, phase>>

MarketFlattenSent == phase = "cross_send" /\ crossing = {} /\ GoTo("cross_wait") /\ UNCHANGED crossing

\* Flat, or shutdown_flatten_timeout passes once more.
EndMarketFlatten == phase = "cross_wait" /\ GoTo(AfterFlatten) /\ UNCHANGED crossing

Shutdown ==
  \/ BeginShutdown \/ CancelRound \/ AllOrdersCancelled \/ GaveUpCancelling
  \/ EndPassiveFlatten \/ MarketFlattenSent \/ EndMarketFlatten
  \/ \E p \in Product : SubmitMarketFlatten(p) \/ SkipMarketFlatten(p)

-----------------------------------------------------------------------------
(* The open environment.                                                   *)

Execution(p, o, c, kind, qty, is_bid) ==
  [product |-> p, order_no |-> o, client_order_id |-> c,
   kind |-> kind, qty |-> qty, is_bid |-> is_bid]

\* About an order handed to the gateway, once or more, in any order.
OwnExecution ==
  \E c \in Cid, qty \in 0..MaxQty, is_bid \in BOOLEAN,
     kind \in {"rejected", "canceled", "new", "fill"} :
    /\ placed[c] # None
    /\ OnExecution(Execution(placed[c], VenueNo[c], IF EchoesCid THEN c ELSE None,
                             kind, qty, is_bid))

\* About an order that is not this session's.
ForeignExecution ==
  \E o \in Foreign, qty \in 0..MaxQty, is_bid \in BOOLEAN,
     kind \in {"canceled", "new", "fill"} :
    OnExecution(Execution(ForeignProduct[o], o, None, kind, qty, is_bid))

\* The number a reply about cid c can carry: the venue's for an order we
\* placed, the one the cancel was sent with for an order we adopted.
ReplyNo(c) ==
  IF placed[c] # None THEN VenueNo[c]
  ELSE IF cid_to_product[c] # None THEN cid_to_order_no[cid_to_product[c]][c] ELSE None

SomeReply ==
  \E c \in Cid, success, gone, numbered \in BOOLEAN :
    /\ c <= last_cid
    /\ success => ~gone
    /\ OnOrderResponse([cid |-> c, success |-> success, order_gone |-> gone,
                        order_no |-> IF numbered THEN ReplyNo(c) ELSE None])

Feed ==
  \/ \E connected \in BOOLEAN : OnListenerStatus(connected)
  \/ \E p \in Product, balance \in Position : OnPosition(p, balance)
  \/ \E p \in Product : OnProductInfo(p)
  \/ \E p \in Product, both_sides \in BOOLEAN : OnOrderbook(p, both_sides)

Decision ==
  \E p \in Product :
    \/ ClearTimedOutWait(p)
    \/ \E cancels \in SUBSET Outstanding(p), lots \in Placements : UpdateOrders(p, cancels, lots)

Next ==
  \/ OwnExecution \/ ForeignExecution \/ SomeReply
  \/ Feed \/ Decision \/ Shutdown
  \/ \E p \in Product : TimePasses(p)

Spec == Init /\ [][Next]_vars
-----------------------------------------------------------------------------
(* Properties.                                                             *)

\* The timeout that un-stalls a product is armed exactly while a request is
\* unanswered.  update_orders refuses to decide while something is waiting and
\* gives up the wait only if response_waiting_since_ns > 0, so a waiting set
\* left behind with the clock at 0 would stop the product for good.
WaitIsTimed ==
  \A p \in Product : (waiting_since[p] # "idle") <=> (Waiting(p) # {})

\* What on_execution and on_order_response route by is consistent: whatever is
\* resting or bound for a product is registered to that product, and an order
\* number leads to a cid that is bound to that very number.
RoutingConsistent ==
  /\ \A p \in Product, c \in Cid :
       outstanding[p][c] # None \/ cid_to_order_no[p][c] # None => cid_to_product[c] = p
  /\ \A p \in Product, o \in OrderNo :
       order_no_to_cid[p][o] # None => cid_to_order_no[p][order_no_to_cid[p][o]] = o

\* With a feed that echoes the cid the two maps are inverse to each other and
\* order_no_to_product_ knows exactly the bound numbers: no order is entered
\* under two cids, however the place reply, the NEW report, its late duplicate
\* and the openOrders snapshot interleave.
IndexesInverse ==
  EchoesCid => \A p \in Product, c \in Cid, o \in OrderNo :
    /\ cid_to_order_no[p][c] = o <=> order_no_to_cid[p][o] = c
    /\ (order_no_to_product[o] = p) <=> (order_no_to_cid[p][o] # None)

\* on_order_response tells a cancel's reply from a place's by the set the cid
\* is in.  A cancel is only ever waited for on an order that is still known and
\* numbered, and never while that order's place is unanswered.
CancelWaitIsForKnownOrder ==
  \A p \in Product, c \in Cid :
    /\ c \in cancel_waiting[p] => cid_to_product[c] = p /\ cid_to_order_no[p][c] # None
    /\ c \in place_waiting[p] => cid_to_order_no[p][c] = None

\* Every request still waited for can be written to the order record with the
\* kind it was sent as, unless the order was forgotten underneath it.
WaitHasRecord ==
  \A p \in Product, c \in Cid :
    /\ c \in cancel_waiting[p] => pending[c] = "cancel"
    /\ c \in place_waiting[p] /\ cid_to_product[c] = p => pending[c] = "place"

\* The fill branch of on_execution clears both waits because a forgotten cid
\* "stalls every decision for this product until order_response_timeout": no
\* wait may outlive its order.
NoWaitOutlivesItsOrder ==
  \A p \in Product : \A c \in Waiting(p) : cid_to_product[c] = p
=============================================================================
