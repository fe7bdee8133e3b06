------------------------ MODULE TradingSystem_proofs ------------------------
(***************************************************************************)
(* Machine-checked proofs about OrderHandler, for any products, any number *)
(* of orders and any environment, and about TradingSystem, where gateway,  *)
(* venue and execution feed are that environment.                          *)
(***************************************************************************)
EXTENDS TradingSystem, FiniteSetTheorems, SequenceTheorems, TLAPS

ExecutionMsg ==
  [product : Product, order_no : OrderNo, client_order_id : Cid \cup {None},
   kind : {"rejected", "canceled", "new", "fill"}, qty : Nat, is_bid : BOOLEAN]

\* A report on an order handed to the gateway, or on one of another client.
Genuine(e) ==
  /\ e \in ExecutionMsg
  /\ \/ \E c \in Cid :
          /\ placed[c] = e.product /\ e.order_no = VenueNo[c]
          /\ e.client_order_id = IF EchoesCid THEN c ELSE None
     \/ /\ e.order_no \in Foreign /\ e.product = ForeignProduct[e.order_no]
        /\ e.client_order_id = None

ReplyMsg ==
  [cid : Cid, success : BOOLEAN, order_gone : BOOLEAN, order_no : OrderNo \cup {None}]

-----------------------------------------------------------------------------
(* Type correctness.                                                       *)

\* on_execution resolves every report to a traded product and to a cid or none.
LEMMA TargetType ==
  ASSUME TypeOK, NEW e \in ExecutionMsg
  PROVE  TargetProduct(e) \in Product /\ TargetCid(e) \in Cid \cup {None}
<1>1. TargetProduct(e) \in Product
  BY NoneAssumption DEF TypeOK, ExecutionMsg, TargetProduct, HaveCid
<1>2. TargetCid(e) \in Cid \cup {None}
  BY <1>1 DEF TypeOK, ExecutionMsg, TargetCid, HaveCid
<1> QED BY <1>1, <1>2

IndexTypes ==
  /\ cid_to_product \in [Cid -> Product \cup {None}]
  /\ order_no_to_product \in [OrderNo -> Product \cup {None}]
  /\ outstanding \in [Product -> [Cid -> Nat \cup {None}]]
  /\ cid_to_order_no \in [Product -> [Cid -> OrderNo \cup {None}]]
  /\ order_no_to_cid \in [Product -> [OrderNo -> Cid \cup {None}]]

WaitTypes ==
  /\ place_waiting \in [Product -> SUBSET Cid]
  /\ cancel_waiting \in [Product -> SUBSET Cid]
  /\ waiting_since \in [Product -> {"idle", "fresh", "expired"}]

RestTypes ==
  /\ last_cid \in 0..MaxCid
  /\ pending \in [Cid -> {"place", "cancel", None}]
  /\ listener_connected \in BOOLEAN
  /\ phase \in Phases
  /\ crossing \in SUBSET Product
  /\ position \in [Product -> Position]
  /\ tick_known \in [Product -> BOOLEAN]
  /\ two_sided \in [Product -> BOOLEAN]
  /\ placed \in [Cid -> Product \cup {None}]

\* The type invariant in three parts: indexes, waiting sets, everything else.
LEMMA TypeParts == TypeOK <=> IndexTypes /\ WaitTypes /\ RestTypes
  BY DEF TypeOK, IndexTypes, WaitTypes, RestTypes

\* Binding a number to a cid keeps the types of the indexes.
LEMMA BindType ==
  ASSUME IndexTypes, NEW p \in Product, NEW c \in Cid, NEW o \in OrderNo,
         BindOrderNo(p, c, o), UNCHANGED <<outstanding, cid_to_product>>
  PROVE  IndexTypes'
  BY DEF IndexTypes, BindOrderNo

\* Forgetting an order keeps the types of the indexes.
LEMMA ForgetType ==
  ASSUME IndexTypes, NEW p \in Product, NEW c \in Cid, ForgetOrder(p, c)
  PROVE  IndexTypes'
  BY DEF IndexTypes, ForgetOrder

\* Answering requests keeps the types of the waiting sets.
LEMMA EraseType ==
  ASSUME WaitTypes, NEW p \in Product, NEW S, NEW T, EraseWaiting(p, S, T)
  PROVE  WaitTypes'
  BY DEF WaitTypes, EraseWaiting

\* The handler of execution reports keeps every type.
LEMMA ExecutionType ==
  ASSUME TypeOK, NEW e \in ExecutionMsg, OnExecution(e)
  PROVE  TypeOK'
<1> DEFINE p == TargetProduct(e)
           c == TargetCid(e)
<1>0. p \in Product /\ c \in Cid \cup {None} /\ e.order_no \in OrderNo /\ e.qty \in Nat
  BY TargetType DEF ExecutionMsg
<1>t. IndexTypes /\ WaitTypes /\ RestTypes
  BY TypeParts
<1> SUFFICES IndexTypes' /\ WaitTypes' /\ RestTypes'
  BY TypeParts DEF TypeOK, IndexTypes, WaitTypes, RestTypes
<1>u. UNCHANGED <<listener_connected, tick_known, two_sided, phase, crossing>>
  BY DEF OnExecution, marketVars, controlVars
<1> HIDE DEF p, c
<1>1. CASE ExecRejected(e)
  <2>1. c \in Cid /\ EraseWaiting(p, {c}, {c}) /\ ForgetOrder(p, c)
    BY <1>0, <1>1 DEF ExecRejected, p, c
  <2>2. RestTypes'
    BY <1>t, <1>u, <1>1 DEF ExecRejected, RestTypes
  <2> QED BY <1>0, <1>t, <2>1, <2>2, EraseType, ForgetType
<1>2. CASE ExecCanceled(e)
  <2>1. c \in Cid /\ EraseWaiting(p, {}, {c}) /\ ForgetOrder(p, c)
    BY <1>0, <1>2 DEF ExecCanceled, p, c
  <2>2. RestTypes'
    BY <1>t, <1>u, <1>2 DEF ExecCanceled, RestTypes
  <2> QED BY <1>0, <1>t, <2>1, <2>2, EraseType, ForgetType
<1>3. CASE ExecNew(e)
  <2>1. /\ c \in Cid /\ EraseWaiting(p, {c}, {}) /\ BindOrderNo(p, c, e.order_no)
        /\ UNCHANGED <<outstanding, cid_to_product>>
    BY <1>0, <1>3 DEF ExecNew, p, c
  <2>2. RestTypes'
    BY <1>t, <1>u, <1>3 DEF ExecNew, RestTypes
  <2> QED BY <1>0, <1>t, <2>1, <2>2, EraseType, BindType
<1>4. CASE ExecAdopt(e)
  <2>1. /\ last_cid + 1 \in Cid /\ last_cid' = last_cid + 1
        /\ BindOrderNo(p, last_cid + 1, e.order_no)
        /\ cid_to_product' = [cid_to_product EXCEPT ![last_cid + 1] = p]
        /\ outstanding' = [outstanding EXCEPT ![p][last_cid + 1] = e.qty]
    BY <1>4 DEF ExecAdopt, p
  <2>2. IndexTypes'
    BY <1>0, <1>t, <2>1 DEF IndexTypes, BindOrderNo
  <2>3. WaitTypes'
    BY <1>t, <1>4 DEF ExecAdopt, WaitTypes, waitVars
  <2>4. last_cid' \in 0..MaxCid
    BY <2>1, BoundsAssumption DEF Cid
  <2>5. RestTypes'
    BY <1>t, <1>u, <1>4, <2>4 DEF ExecAdopt, RestTypes
  <2> QED BY <2>2, <2>3, <2>5
<1>5. CASE ExecFill(e)
  <2>1. position' \in [Product -> Position]
    BY <1>0, <1>t, <1>5 DEF ExecFill, RestTypes, p
  <2>2. RestTypes'
    BY <1>t, <1>u, <1>5, <2>1 DEF ExecFill, RestTypes
  <2>3. CASE c = None
    <3>1. UNCHANGED <<orderVars, waitVars>>
      BY <1>5, <2>3 DEF ExecFill, c
    <3> QED BY <1>t, <2>2, <3>1 DEF IndexTypes, WaitTypes, orderVars, waitVars
  <2>4. CASE c # None
    <3>1. c \in Cid /\ FillOrder(p, c, e)
      BY <1>0, <1>5, <2>4 DEF ExecFill, p, c
    <3>2. CASE LotsLeft(p, c, e) <= 0
      <4>1. EraseWaiting(p, {c}, {c}) /\ ForgetOrder(p, c)
        BY <3>1, <3>2 DEF FillOrder
      <4> QED BY <1>0, <1>t, <2>2, <3>1, <4>1, EraseType, ForgetType
    <3>3. CASE ~(LotsLeft(p, c, e) <= 0)
      <4>1. LotsLeft(p, c, e) \in Nat
        BY <1>0, <1>t, <3>1, <3>3 DEF LotsLeft, IndexTypes
      <4>2. /\ outstanding' = [outstanding EXCEPT ![p][c] = LotsLeft(p, c, e)]
            /\ UNCHANGED <<cid_to_order_no, order_no_to_cid, cid_to_product,
                           order_no_to_product, waitVars>>
        BY <3>1, <3>3 DEF FillOrder
      <4>3. IndexTypes'
        BY <1>0, <1>t, <3>1, <4>1, <4>2 DEF IndexTypes
      <4>4. WaitTypes'
        BY <1>t, <4>2 DEF WaitTypes, waitVars
      <4> QED BY <2>2, <4>3, <4>4
    <3> QED BY <3>2, <3>3
  <2> QED BY <2>3, <2>4
<1>6. CASE ExecIgnored(e)
  BY <1>t, <1>u, <1>6
  DEF ExecIgnored, IndexTypes, WaitTypes, RestTypes, orderVars, waitVars
<1> QED BY <1>1, <1>2, <1>3, <1>4, <1>5, <1>6 DEF OnExecution

\* The handler of gateway replies keeps every type.
LEMMA ReplyType ==
  ASSUME TypeOK, NEW r \in ReplyMsg, OnOrderResponse(r)
  PROVE  TypeOK'
<1> DEFINE p == cid_to_product[r.cid]
<1>0. r.cid \in Cid /\ p \in Product \cup {None} /\ r.order_no \in OrderNo \cup {None}
  BY DEF ReplyMsg, TypeOK
<1>t. IndexTypes /\ WaitTypes /\ RestTypes
  BY TypeParts
<1> SUFFICES IndexTypes' /\ WaitTypes' /\ RestTypes'
  BY TypeParts DEF TypeOK, IndexTypes, WaitTypes, RestTypes
<1>u. UNCHANGED <<last_cid, placed, position, listener_connected, tick_known, two_sided,
                  phase, crossing>>
  BY DEF OnOrderResponse, marketVars, controlVars
<1>d. ASSUME DropRecord(r.cid) PROVE RestTypes'
  BY <1>0, <1>t, <1>u, <1>d DEF DropRecord, RestTypes
<1> HIDE DEF p
<1>1. CASE ReplyUnknown(r)
  BY <1>t, <1>1, <1>d DEF ReplyUnknown, IndexTypes, WaitTypes, orderVars, waitVars
<1>2. CASE CancelReply(r)
  <2>1. /\ p \in Product /\ EraseWaiting(p, {r.cid}, {r.cid}) /\ DropRecord(r.cid)
        /\ ForgetOrder(p, r.cid) \/ UNCHANGED orderVars
    BY <1>0, <1>2 DEF CancelReply, p
  <2>2. IndexTypes'
    BY <1>0, <1>t, <2>1, ForgetType DEF IndexTypes, orderVars
  <2> QED BY <1>t, <1>d, <2>1, <2>2, EraseType
<1>3. CASE PlaceReply(r)
  <2>1. /\ p \in Product /\ EraseWaiting(p, {r.cid}, {r.cid}) /\ DropRecord(r.cid)
        /\ \/ /\ r.order_no # None /\ BindOrderNo(p, r.cid, r.order_no)
              /\ UNCHANGED <<outstanding, cid_to_product>>
           \/ ForgetOrder(p, r.cid)
           \/ UNCHANGED orderVars
    BY <1>0, <1>3 DEF PlaceReply, p
  <2>2. IndexTypes'
    BY <1>0, <1>t, <2>1, ForgetType, BindType DEF IndexTypes, orderVars
  <2> QED BY <1>t, <1>d, <2>1, <2>2, EraseType
<1> QED BY <1>1, <1>2, <1>3 DEF OnOrderResponse

\* The ids a decision takes are the ones that follow last_cid.
LEMMA PlacementIds ==
  ASSUME last_cid \in 0..MaxCid, NEW lots \in Placements,
         last_cid' = last_cid + Cardinality(DOMAIN lots)
  PROVE  /\ last_cid' \in 0..MaxCid /\ last_cid <= last_cid'
         /\ DOMAIN lots = (last_cid + 1)..last_cid'
         /\ DOMAIN lots \subseteq Cid
         /\ \A c \in DOMAIN lots : lots[c] \in Nat
<1>1. PICK n \in {m \in 0..MaxPlaces : last_cid + m <= MaxCid} :
        lots \in [(last_cid + 1)..(last_cid + n) -> Qty]
  BY DEF Placements
<1>2. n \in Nat /\ last_cid \in Nat /\ last_cid + n <= MaxCid
  BY <1>1, BoundsAssumption
<1>3. DOMAIN lots = (last_cid + 1)..(last_cid + n)
  BY <1>1
<1>4. Cardinality(DOMAIN lots) = n
  BY <1>2, <1>3, FS_Interval
<1>5. last_cid' = last_cid + n
  BY <1>4
<1> QED BY <1>1, <1>2, <1>3, <1>5, BoundsAssumption DEF Cid, Qty

\* A decision keeps every type.
LEMMA UpdateType ==
  ASSUME TypeOK, NEW p \in Product, NEW cancels \in SUBSET Outstanding(p),
         NEW lots \in Placements, UpdateOrders(p, cancels, lots)
  PROVE  TypeOK'
<1> DEFINE new == DOMAIN lots
           sent == {c \in cancels : cid_to_order_no[p][c] # None}
<1>1. last_cid \in 0..MaxCid /\ last_cid' = last_cid + Cardinality(new)
  BY DEF TypeOK, UpdateOrders
<1>2. /\ last_cid' \in 0..MaxCid /\ new \subseteq Cid
      /\ \A c \in new : lots[c] \in Nat
  BY <1>1, PlacementIds
<1>3. sent \subseteq Cid
  BY DEF Outstanding
<1> HIDE DEF new, sent
<1>4. /\ cid_to_product' = [c \in Cid |-> IF c \in new THEN p ELSE cid_to_product[c]]
      /\ placed' = [c \in Cid |-> IF c \in new THEN p ELSE placed[c]]
      /\ outstanding' = [outstanding EXCEPT ![p] =
           [c \in Cid |-> IF c \in new THEN lots[c] ELSE outstanding[p][c]]]
      /\ place_waiting' = [place_waiting EXCEPT ![p] = new]
      /\ cancel_waiting' = [cancel_waiting EXCEPT ![p] = sent]
      /\ waiting_since' = [waiting_since EXCEPT ![p] =
           IF new \cup sent = {} THEN "idle" ELSE "fresh"]
      /\ pending' = [c \in Cid |->
           CASE c \in new -> "place"
             [] c \in sent -> "cancel"
             [] c \in Waiting(p) \ sent -> None
             [] OTHER -> pending[c]]
      /\ UNCHANGED <<position, cid_to_order_no, order_no_to_cid, order_no_to_product,
                     listener_connected, tick_known, two_sided, phase, crossing>>
  BY DEF UpdateOrders, new, sent, marketVars, controlVars
<1>5. IndexTypes'
  BY <1>2, <1>4 DEF TypeOK, IndexTypes
<1>6. WaitTypes'
  BY <1>2, <1>3, <1>4 DEF TypeOK, WaitTypes
<1>7. pending' \in [Cid -> {"place", "cancel", None}]
  BY <1>4 DEF TypeOK
<1>8. RestTypes'
  BY <1>2, <1>4, <1>7 DEF TypeOK, RestTypes
<1> QED BY <1>5, <1>6, <1>8 DEF TypeOK, IndexTypes, WaitTypes, RestTypes

\* So does closing out a wait that has timed out.
LEMMA ClearType ==
  ASSUME TypeOK, NEW p \in Product, ClearTimedOutWait(p)
  PROVE  TypeOK'
<1>1. WaitTypes'
  BY TypeParts, EraseType DEF ClearTimedOutWait
<1>2. IndexTypes' /\ RestTypes'
  BY DEF ClearTimedOutWait, TypeOK, IndexTypes, RestTypes, orderVars, marketVars, controlVars
<1> QED BY <1>1, <1>2 DEF TypeOK, IndexTypes, WaitTypes, RestTypes

\* And every step of shutdown().
LEMMA ShutdownType ==
  ASSUME TypeOK, Shutdown
  PROVE  TypeOK'
<1>g. ASSUME NEW ph \in Phases, GoTo(ph), crossing' \in SUBSET Product
      PROVE  TypeOK'
  BY <1>g DEF GoTo, TypeOK, orderVars, waitVars, marketVars
<1>a. AfterFlatten \in Phases
  BY DEF AfterFlatten, Phases, CancelPhases
<1>1. CASE BeginShutdown
  BY <1>1, <1>g DEF BeginShutdown, TypeOK, Phases, CancelPhases
<1>2. CASE CancelRound
  BY <1>2 DEF CancelRound, Cancellable, Outstanding, TypeOK, orderVars, marketVars, controlVars
<1>3. CASE LeaveCancel /\ phase \in CancelPhases
  <2>1. AfterCancel \in Phases
    BY <1>3, <1>a DEF AfterCancel, Phases, CancelPhases
  <2>2. crossing' \in SUBSET Product
    BY <1>3 DEF LeaveCancel, Unflat, TypeOK
  <2> QED BY <1>3, <1>g, <2>1, <2>2 DEF LeaveCancel
<1>4. CASE EndPassiveFlatten
  BY <1>4, <1>a, <1>g DEF EndPassiveFlatten, TypeOK, Phases, CancelPhases
<1>5. CASE MarketFlattenSent
  BY <1>5, <1>g DEF MarketFlattenSent, TypeOK, Phases, CancelPhases
<1>6. CASE EndMarketFlatten
  BY <1>6, <1>a, <1>g DEF EndMarketFlatten, TypeOK
<1>7. ASSUME NEW p \in Product, SubmitMarketFlatten(p)
      PROVE  TypeOK'
  <2>1. last_cid' \in 0..MaxCid
    BY <1>7, BoundsAssumption DEF SubmitMarketFlatten, Cid
  <2> QED BY <1>7, <2>1 DEF SubmitMarketFlatten, TypeOK, marketVars
<1>8. ASSUME NEW p \in Product, SkipMarketFlatten(p)
      PROVE  TypeOK'
  BY <1>8 DEF SkipMarketFlatten, TypeOK, orderVars, waitVars, marketVars
<1> QED BY <1>1, <1>2, <1>3, <1>4, <1>5, <1>6, <1>7, <1>8
        DEF Shutdown, AllOrdersCancelled, GaveUpCancelling

-----------------------------------------------------------------------------
(* The steps of the open environment, one by one.                          *)

\* Every execution report of the open environment is Genuine.
LEMMA ReportIsGenuine ==
  ASSUME TypeOK, OwnExecution \/ ForeignExecution
  PROVE  \E e : Genuine(e) /\ OnExecution(e)
<1>1. CASE OwnExecution
  <2>1. PICK c \in Cid, qty \in 0..MaxQty, is_bid \in BOOLEAN,
             kind \in {"rejected", "canceled", "new", "fill"} :
          /\ placed[c] # None
          /\ OnExecution(Execution(placed[c], VenueNo[c], IF EchoesCid THEN c ELSE None,
                                   kind, qty, is_bid))
    BY <1>1 DEF OwnExecution
  <2> DEFINE e == Execution(placed[c], VenueNo[c], IF EchoesCid THEN c ELSE None,
                            kind, qty, is_bid)
  <2>2. placed[c] \in Product /\ VenueNo[c] \in OrderNo /\ qty \in Nat
    BY <2>1, VenueAssumption, BoundsAssumption DEF TypeOK
  <2>3. e \in ExecutionMsg
    BY <2>2 DEF Execution, ExecutionMsg
  <2>4. Genuine(e)
    BY <2>3 DEF Genuine, Execution
  <2> QED BY <2>1, <2>4
<1>2. CASE ForeignExecution
  <2>1. PICK o \in Foreign, qty \in 0..MaxQty, is_bid \in BOOLEAN,
             kind \in {"canceled", "new", "fill"} :
          OnExecution(Execution(ForeignProduct[o], o, None, kind, qty, is_bid))
    BY <1>2 DEF ForeignExecution
  <2> DEFINE e == Execution(ForeignProduct[o], o, None, kind, qty, is_bid)
  <2>2. o \in OrderNo /\ ForeignProduct[o] \in Product /\ qty \in Nat
    BY VenueAssumption, BoundsAssumption DEF Foreign
  <2>3. e \in ExecutionMsg
    BY <2>2 DEF Execution, ExecutionMsg
  <2>4. Genuine(e)
    BY <2>3 DEF Genuine, Execution
  <2> QED BY <2>1, <2>4
<1> QED BY <1>1, <1>2

\* Every reply bears no number, or the one the order has.
LEMMA ReplyIsGenuine ==
  ASSUME TypeOK, SomeReply
  PROVE  \E r \in ReplyMsg : r.order_no \in {None, ReplyNo(r.cid)} /\ OnOrderResponse(r)
<1>1. PICK c \in Cid, success \in BOOLEAN, gone \in BOOLEAN, numbered \in BOOLEAN :
        OnOrderResponse([cid |-> c, success |-> success, order_gone |-> gone,
                         order_no |-> IF numbered THEN ReplyNo(c) ELSE None])
  BY DEF SomeReply
<1> DEFINE r == [cid |-> c, success |-> success, order_gone |-> gone,
                 order_no |-> IF numbered THEN ReplyNo(c) ELSE None]
<1>2. ReplyNo(c) \in OrderNo \cup {None}
  BY VenueAssumption DEF ReplyNo, TypeOK
<1>3. r \in ReplyMsg /\ r.order_no \in {None, ReplyNo(r.cid)}
  BY <1>2 DEF ReplyMsg
<1> QED BY <1>1, <1>3

\* The handler starts well typed.
LEMMA TypeInit == Init => TypeOK
<1>1. 0 \in Position /\ 0 \in 0..MaxCid
  BY BoundsAssumption DEF Position
<1>2. Init => RestTypes
  <2> SUFFICES ASSUME Init PROVE RestTypes
    OBVIOUS
  <2>1. /\ position \in [Product -> Position] /\ last_cid \in 0..MaxCid
        /\ crossing \in SUBSET Product /\ phase \in Phases
    BY <1>1 DEF Init, Phases
  <2>2. /\ pending \in [Cid -> {"place", "cancel", None}]
        /\ placed \in [Cid -> Product \cup {None}]
    BY DEF Init
  <2>3. /\ listener_connected \in BOOLEAN
        /\ tick_known \in [Product -> BOOLEAN] /\ two_sided \in [Product -> BOOLEAN]
    BY DEF Init
  <2> QED BY <2>1, <2>2, <2>3 DEF RestTypes
<1>3. Init => IndexTypes /\ WaitTypes
  BY DEF Init, IndexTypes, WaitTypes
<1> QED BY <1>2, <1>3, TypeParts

\* Type correctness: every handler of OrderHandler, fed with any reports and
\* replies, keeps its maps, sets and counters within their types; in particular
\* no outstanding order ever has a negative number of lots left.
THEOREM TypeCorrect == Spec => []TypeOK
<1>1. Init => TypeOK
  BY TypeInit
<1>2. TypeOK /\ [Next]_vars => TypeOK'
  <2> SUFFICES ASSUME TypeOK, [Next]_vars PROVE TypeOK'
    OBVIOUS
  <2>1. CASE OwnExecution \/ ForeignExecution
    BY <2>1, ReportIsGenuine, ExecutionType DEF Genuine
  <2>2. CASE SomeReply
    BY <2>2, ReplyIsGenuine, ReplyType
  <2>3. CASE Feed
    BY <2>3 DEF Feed, OnListenerStatus, OnPosition, OnProductInfo, OnOrderbook, TypeOK,
                orderVars, waitVars, marketVars, controlVars
  <2>4. CASE Decision
    BY <2>4, ClearType, UpdateType DEF Decision
  <2>5. CASE Shutdown
    BY <2>5, ShutdownType
  <2>6. CASE \E p \in Product : TimePasses(p)
    BY <2>6 DEF TimePasses, TypeOK, orderVars, marketVars, controlVars
  <2>7. CASE UNCHANGED vars
    BY <2>7 DEF vars, TypeOK, orderVars, waitVars, marketVars, controlVars
  <2> QED BY <2>1, <2>2, <2>3, <2>4, <2>5, <2>6, <2>7 DEF Next
<1> QED BY <1>1, <1>2, PTL DEF Spec

-----------------------------------------------------------------------------
(* The timeout is armed.                                                   *)

\* Answering requests stops the clock exactly when none is left.
LEMMA EraseTimed ==
  ASSUME WaitTypes, WaitIsTimed, NEW p \in Product, NEW S, NEW T, EraseWaiting(p, S, T)
  PROVE  WaitIsTimed'
  BY DEF WaitTypes, WaitIsTimed, Waiting, EraseWaiting

\* The handlers of reports and replies only ever answer requests.
LEMMA HandlerTimed ==
  ASSUME TypeOK, WaitIsTimed,
         \/ \E e \in ExecutionMsg : OnExecution(e)
         \/ \E r \in ReplyMsg : OnOrderResponse(r)
  PROVE  WaitIsTimed'
<1>1. \/ UNCHANGED waitVars
      \/ \E p \in Product, S, T \in SUBSET Cid : EraseWaiting(p, S, T)
  <2>1. ASSUME NEW e \in ExecutionMsg, OnExecution(e)
        PROVE  \/ UNCHANGED waitVars
               \/ \E p \in Product, S, T \in SUBSET Cid : EraseWaiting(p, S, T)
    <3>1. TargetProduct(e) \in Product /\ TargetCid(e) \in Cid \cup {None}
      BY TargetType
    <3>2. CASE TargetCid(e) = None
      BY <2>1, <3>2
      DEF OnExecution, ExecRejected, ExecCanceled, ExecNew, ExecAdopt, ExecFill, ExecIgnored
    <3>3. CASE TargetCid(e) # None
      <4>1. TargetCid(e) \in Cid /\ {TargetCid(e)} \in SUBSET Cid /\ {} \in SUBSET Cid
        BY <3>1, <3>3
      <4> QED BY <2>1, <3>1, <3>3, <4>1
              DEF OnExecution, ExecRejected, ExecCanceled, ExecNew, ExecAdopt, ExecFill,
                  FillOrder, ExecIgnored
    <3> QED BY <3>2, <3>3
  <2>2. ASSUME NEW r \in ReplyMsg, OnOrderResponse(r)
        PROVE  \/ UNCHANGED waitVars
               \/ \E p \in Product, S, T \in SUBSET Cid : EraseWaiting(p, S, T)
    <3>1. {r.cid} \in SUBSET Cid /\ cid_to_product[r.cid] \in Product \cup {None}
      BY DEF ReplyMsg, TypeOK
    <3> QED BY <2>2, <3>1 DEF OnOrderResponse, ReplyUnknown, CancelReply, PlaceReply
  <2> QED BY <2>1, <2>2
<1>2. CASE UNCHANGED waitVars
  BY <1>2 DEF waitVars, WaitIsTimed, Waiting
<1>3. ASSUME NEW p \in Product, NEW S \in SUBSET Cid, NEW T \in SUBSET Cid, EraseWaiting(p, S, T)
      PROVE  WaitIsTimed'
  BY <1>3, TypeParts, EraseTimed
<1> QED BY <1>1, <1>2, <1>3

\* The timeout that un-stalls a product is armed exactly while something is
\* waited for, whatever answers come, in whatever order: no product can be left
\* waiting with response_waiting_since_ns at 0.
THEOREM TimeoutIsArmed == Spec => []WaitIsTimed
<1>1. Init => WaitIsTimed
  BY DEF Init, WaitIsTimed, Waiting
<1>2. TypeOK /\ WaitIsTimed /\ [Next]_vars => WaitIsTimed'
  <2> SUFFICES ASSUME TypeOK, WaitIsTimed, [Next]_vars PROVE WaitIsTimed'
    OBVIOUS
  <2>t. WaitTypes
    BY TypeParts
  <2>u. ASSUME UNCHANGED waitVars PROVE WaitIsTimed'
    BY <2>u DEF waitVars, WaitIsTimed, Waiting
  <2>1. CASE OwnExecution \/ ForeignExecution
    BY <2>1, ReportIsGenuine, HandlerTimed DEF Genuine
  <2>2. CASE SomeReply
    BY <2>2, ReplyIsGenuine, HandlerTimed
  <2>3. CASE Feed
    BY <2>3, <2>u DEF Feed, OnListenerStatus, OnPosition, OnProductInfo, OnOrderbook
  <2>4. CASE Decision
    <3>1. ASSUME NEW p \in Product, ClearTimedOutWait(p) PROVE WaitIsTimed'
      BY <2>t, <3>1, EraseTimed DEF ClearTimedOutWait
    <3>2. ASSUME NEW p \in Product, NEW cancels, NEW lots, UpdateOrders(p, cancels, lots)
          PROVE  WaitIsTimed'
      BY <2>t, <3>2 DEF UpdateOrders, WaitIsTimed, Waiting, WaitTypes
    <3> QED BY <2>4, <3>1, <3>2 DEF Decision
  <2>5. CASE Shutdown
    <3>1. CASE CancelRound
      BY <2>t, <3>1 DEF CancelRound, WaitIsTimed, Waiting, WaitTypes
    <3>2. ASSUME NEW p \in Product, SubmitMarketFlatten(p) PROVE WaitIsTimed'
      BY <2>t, <3>2 DEF SubmitMarketFlatten, WaitIsTimed, Waiting, WaitTypes
    <3>3. ASSUME NEW ph, GoTo(ph) PROVE WaitIsTimed'
      BY <2>u, <3>3 DEF GoTo
    <3>4. ASSUME NEW p \in Product, SkipMarketFlatten(p) PROVE WaitIsTimed'
      BY <2>u, <3>4 DEF SkipMarketFlatten
    <3> QED BY <2>5, <3>1, <3>2, <3>3, <3>4
            DEF Shutdown, BeginShutdown, AllOrdersCancelled, GaveUpCancelling, LeaveCancel,
                EndPassiveFlatten, MarketFlattenSent, EndMarketFlatten
  <2>6. CASE \E p \in Product : TimePasses(p)
    BY <2>t, <2>6 DEF TimePasses, WaitIsTimed, Waiting, WaitTypes
  <2>7. CASE UNCHANGED vars
    BY <2>7, <2>u DEF vars
  <2> QED BY <2>1, <2>2, <2>3, <2>4, <2>5, <2>6, <2>7 DEF Next
<1> QED BY <1>1, <1>2, TypeCorrect, PTL DEF Spec

-----------------------------------------------------------------------------
(***************************************************************************)
(* The indexes of OrderHandler stay consistent: the inductive invariant    *)
(* behind RoutingConsistent, IndexesInverse, CancelWaitIsForKnownOrder and *)
(* WaitHasRecord, and its proof.                                           *)
(*                                                                         *)
(* None of the four is inductive by itself.  That a number leads back to   *)
(* the cid bound to it survives a re-binding only because a cid has but    *)
(* one number in its life (OwnNumber) and a number but one product         *)
(* (NumbersAtHome); that no number is entered under two cids, only because *)
(* a second cid is conjured for an order once the first is forgotten for   *)
(* good (OneCidPerNumber); and both rest on ids being handed out once      *)
(* (Fresh).                                                                *)
(***************************************************************************)

\* reserve_cid has handed out the ids up to last_cid_ and no others.
Fresh ==
  \A c \in Cid : c > last_cid =>
    /\ placed[c] = None /\ cid_to_product[c] = None
    /\ \A p \in Product : outstanding[p][c] = None /\ cid_to_order_no[p][c] = None

\* An order we placed is known under its product, if at all, and by its own number.
OwnNumber ==
  \A c \in Cid : placed[c] # None =>
    /\ cid_to_product[c] \in {placed[c], None}
    /\ \A p \in Product : cid_to_order_no[p][c] \in {VenueNo[c], None}

\* The product a number belongs to.
Home(o, p) ==
  /\ \A d \in Cid : VenueNo[d] = o => placed[d] = p
  /\ o \in Foreign => ForeignProduct[o] = p

NumbersAtHome ==
  \A p \in Product, o \in OrderNo :
    /\ order_no_to_product[o] = p => Home(o, p)
    /\ \A c \in Cid : cid_to_order_no[p][c] = o => Home(o, p)

\* With an echoing feed, another cid bears the number of order d only once d is
\* forgotten.
OneCidPerNumber ==
  EchoesCid => \A p \in Product, c, d \in Cid :
    c # d /\ cid_to_order_no[p][c] = VenueNo[d] => cid_to_product[d] = None

IndexInv ==
  /\ Fresh /\ OwnNumber /\ NumbersAtHome /\ OneCidPerNumber
  /\ RoutingConsistent /\ IndexesInverse

\* A wait belongs to an id handed out, a place wait to an order of that product.
WaitsOwned ==
  \A p \in Product, c \in Cid :
    /\ c \in Waiting(p) => c <= last_cid
    /\ c \in place_waiting[p] => placed[c] = p

WaitInv == WaitsOwned /\ CancelWaitIsForKnownOrder /\ WaitHasRecord

-----------------------------------------------------------------------------
(* What a report resolves to.                                              *)

\* A number has one home.
LEMMA OneHome ==
  ASSUME NEW o \in OrderNo, NEW p, NEW q, Home(o, p), Home(o, q)
  PROVE  p = q
<1>1. CASE o \in Foreign
  BY <1>1 DEF Home
<1>2. CASE o \notin Foreign
  <2>1. PICK d \in Cid : VenueNo[d] = o
    BY <1>2 DEF Foreign, Ours
  <2> QED BY <2>1 DEF Home
<1> QED BY <1>1, <1>2

\* The product on_execution works on is the number's own.
LEMMA ReportAtHome ==
  ASSUME TypeOK, IndexInv, NEW e, Genuine(e)
  PROVE  Home(e.order_no, TargetProduct(e))
<1>1. Home(e.order_no, e.product)
  BY VenueAssumption DEF Genuine, ExecutionMsg, Home, Foreign, Ours
<1>2. CASE HaveCid(e)
  <2>1. PICK c \in Cid : /\ placed[c] = e.product /\ e.order_no = VenueNo[c]
                         /\ e.client_order_id = IF EchoesCid THEN c ELSE None
    BY <1>2 DEF Genuine, HaveCid
  <2>2. e.client_order_id = c
    BY <1>2, <2>1 DEF HaveCid
  <2>3. e.product # None
    BY NoneAssumption DEF Genuine, ExecutionMsg
  <2>4. cid_to_product[c] = e.product
    BY <1>2, <2>1, <2>2, <2>3 DEF HaveCid, IndexInv, OwnNumber
  <2> QED BY <1>1, <1>2, <2>2, <2>4 DEF TargetProduct
<1>3. CASE ~HaveCid(e) /\ order_no_to_product[e.order_no] # None
  BY <1>3 DEF IndexInv, NumbersAtHome, TargetProduct, TypeOK, Genuine, ExecutionMsg
<1>4. CASE ~HaveCid(e) /\ order_no_to_product[e.order_no] = None
  BY <1>1, <1>4 DEF TargetProduct
<1> QED BY <1>2, <1>3, <1>4

\* The cid it works on is registered to that product, and is either bound to the
\* number already or the one the order was placed under.
LEMMA ReportKnown ==
  ASSUME TypeOK, IndexInv, NEW e, Genuine(e), TargetCid(e) # None
  PROVE  /\ TargetCid(e) \in Cid
         /\ cid_to_product[TargetCid(e)] = TargetProduct(e)
         /\ \/ cid_to_order_no[TargetProduct(e)][TargetCid(e)] = e.order_no
            \/ /\ EchoesCid
               /\ placed[TargetCid(e)] = TargetProduct(e)
               /\ e.order_no = VenueNo[TargetCid(e)]
<1>0. e \in ExecutionMsg /\ TargetProduct(e) \in Product /\ TargetCid(e) \in Cid \cup {None}
  BY TargetType DEF Genuine
<1>1. CASE HaveCid(e)
  <2>1. TargetCid(e) = e.client_order_id /\ TargetProduct(e) = cid_to_product[TargetCid(e)]
    BY <1>1 DEF TargetCid, TargetProduct
  <2>2. PICK c \in Cid : /\ placed[c] = e.product /\ e.order_no = VenueNo[c]
                         /\ e.client_order_id = IF EchoesCid THEN c ELSE None
    BY <1>1 DEF Genuine, HaveCid
  <2>3. EchoesCid /\ TargetCid(e) = c
    BY <1>1, <2>1, <2>2 DEF HaveCid
  <2>4. placed[c] # None
    BY <1>0, <2>2, NoneAssumption DEF ExecutionMsg
  <2> QED BY <1>0, <1>1, <2>1, <2>2, <2>3, <2>4 DEF HaveCid, IndexInv, OwnNumber
<1>2. CASE ~HaveCid(e)
  <2> DEFINE p == TargetProduct(e)
             c == TargetCid(e)
  <2>1. c = order_no_to_cid[p][e.order_no]
    BY <1>2 DEF TargetCid
  <2>2. c \in Cid /\ e.order_no \in OrderNo /\ e.order_no # None
    BY <1>0, NoneAssumption DEF ExecutionMsg
  <2>3. cid_to_order_no[p][c] = e.order_no
    BY <1>0, <2>1, <2>2 DEF IndexInv, RoutingConsistent
  <2>4. cid_to_product[c] = p
    BY <1>0, <2>2, <2>3 DEF IndexInv, RoutingConsistent
  <2> QED BY <2>2, <2>3, <2>4
<1> QED BY <1>1, <1>2

-----------------------------------------------------------------------------
(* What each way of changing the indexes preserves.                        *)

\* Binding: the number is the cid's already, or the one the venue gave it.
LEMMA BindKeeps ==
  ASSUME TypeOK, IndexInv, NEW p \in Product, NEW c \in Cid, NEW o \in OrderNo,
         cid_to_product[c] = p, Home(o, p),
         cid_to_order_no[p][c] = o \/ (placed[c] = p /\ o = VenueNo[c]),
         BindOrderNo(p, c, o),
         UNCHANGED <<outstanding, cid_to_product, last_cid, placed>>
  PROVE  IndexInv'
<1>0. None \notin Product /\ None \notin OrderNo /\ None \notin Cid
  BY NoneAssumption DEF Cid
<1>1. c <= last_cid /\ last_cid \in Int /\ c \in Int
  BY <1>0, BoundsAssumption DEF IndexInv, Fresh, TypeOK, Cid
<1>2. /\ cid_to_order_no' = [cid_to_order_no EXCEPT ![p][c] = o]
      /\ order_no_to_cid' = [order_no_to_cid EXCEPT ![p][o] = c]
      /\ order_no_to_product' = [order_no_to_product EXCEPT ![o] = p]
  BY DEF BindOrderNo
<1>3. cid_to_order_no[p][c] \in {o, None}
  BY <1>0 DEF IndexInv, OwnNumber
<1>4. Fresh'
  BY <1>1, <1>2 DEF IndexInv, Fresh, TypeOK
<1>5. OwnNumber'
  BY <1>0, <1>2, <1>3 DEF IndexInv, OwnNumber, TypeOK
<1>6. NumbersAtHome'
  BY <1>0, <1>2 DEF IndexInv, NumbersAtHome, Home, TypeOK
<1>7. OneCidPerNumber'
  <2> SUFFICES ASSUME EchoesCid, NEW q \in Product, NEW a \in Cid, NEW d \in Cid,
                      a # d, cid_to_order_no'[q][a] = VenueNo[d]
               PROVE  cid_to_product[d] = None
    BY DEF OneCidPerNumber
  <2>1. CASE q = p /\ a = c
    <3>1. o = VenueNo[d]
      BY <1>2, <2>1 DEF TypeOK
    <3>2. cid_to_order_no[p][c] = o
      BY <2>1, <3>1, VenueAssumption
    <3> QED BY <2>1, <3>1, <3>2 DEF IndexInv, OneCidPerNumber
  <2>2. CASE ~(q = p /\ a = c)
    BY <1>2, <2>2 DEF IndexInv, OneCidPerNumber, TypeOK
  <2> QED BY <2>1, <2>2
<1>8. RoutingConsistent'
  BY <1>0, <1>2, <1>3 DEF IndexInv, RoutingConsistent, TypeOK
<1>9. IndexesInverse'
  <2> SUFFICES ASSUME EchoesCid, NEW q \in Product, NEW a \in Cid, NEW n \in OrderNo
               PROVE  /\ cid_to_order_no'[q][a] = n <=> order_no_to_cid'[q][n] = a
                      /\ (order_no_to_product'[n] = q) <=> (order_no_to_cid'[q][n] # None)
    BY DEF IndexesInverse
  <2>i. /\ cid_to_order_no[q][a] = n <=> order_no_to_cid[q][n] = a
        /\ (order_no_to_product[n] = q) <=> (order_no_to_cid[q][n] # None)
    BY DEF IndexInv, IndexesInverse
  <2>1. CASE q # p
    <3>1. n = o => order_no_to_cid[q][o] = None
      <4> SUFFICES ASSUME order_no_to_cid[q][o] # None PROVE FALSE
        OBVIOUS
      <4>1. PICK b \in Cid : cid_to_order_no[q][b] = o
        BY DEF IndexInv, RoutingConsistent, TypeOK
      <4>2. Home(o, q)
        BY <4>1 DEF IndexInv, NumbersAtHome
      <4> QED BY <2>1, <4>2, OneHome
    <3> QED BY <1>0, <1>2, <2>1, <2>i, <3>1 DEF TypeOK
  <2>2. CASE q = p /\ n # o
    BY <1>0, <1>2, <1>3, <2>2, <2>i DEF TypeOK
  <2>3. CASE q = p /\ n = o
    <3>1. a # c => cid_to_order_no[p][a] # o
      <4>1. CASE cid_to_order_no[p][c] = o
        BY <4>1 DEF IndexInv, IndexesInverse
      <4>2. CASE placed[c] = p /\ o = VenueNo[c]
        BY <1>0, <4>2 DEF IndexInv, OneCidPerNumber
      <4> QED BY <4>1, <4>2
    <3> QED BY <1>0, <1>2, <2>3, <2>i, <3>1 DEF TypeOK
  <2> QED BY <2>1, <2>2, <2>3
<1> QED BY <1>4, <1>5, <1>6, <1>7, <1>8, <1>9 DEF IndexInv

\* Forgetting: whatever knew the cid knew it under this product.
LEMMA ForgetKeeps ==
  ASSUME TypeOK, IndexInv, NEW p \in Product, NEW c \in Cid, cid_to_product[c] = p,
         ForgetOrder(p, c), UNCHANGED <<last_cid, placed>>
  PROVE  IndexInv'
<1>0. None \notin Product /\ None \notin OrderNo /\ None \notin Cid
  BY NoneAssumption DEF Cid
<1> DEFINE n == cid_to_order_no[p][c]
<1>1. /\ order_no_to_product' = [o \in OrderNo |-> IF o = n THEN None ELSE order_no_to_product[o]]
      /\ order_no_to_cid' = [order_no_to_cid EXCEPT ![p] =
           [o \in OrderNo |-> IF o = n THEN None ELSE order_no_to_cid[p][o]]]
      /\ cid_to_order_no' = [cid_to_order_no EXCEPT ![p][c] = None]
      /\ outstanding' = [outstanding EXCEPT ![p][c] = None]
      /\ cid_to_product' = [cid_to_product EXCEPT ![c] = None]
  BY DEF ForgetOrder
<1>4. Fresh'
  BY <1>1 DEF IndexInv, Fresh, TypeOK
<1>5. OwnNumber'
  BY <1>1 DEF IndexInv, OwnNumber, TypeOK
<1>6. NumbersAtHome'
  BY <1>0, <1>1 DEF IndexInv, NumbersAtHome, Home, TypeOK
<1>7. OneCidPerNumber'
  <2> SUFFICES ASSUME EchoesCid, NEW q \in Product, NEW a \in Cid, NEW d \in Cid,
                      a # d, cid_to_order_no'[q][a] = VenueNo[d]
               PROVE  cid_to_product'[d] = None
    BY DEF OneCidPerNumber
  <2>1. cid_to_order_no[q][a] = VenueNo[d]
    <3>1. VenueNo[d] \in OrderNo /\ VenueNo[d] # None
      BY <1>0, VenueAssumption
    <3>2. cid_to_order_no'[q][a] = IF q = p /\ a = c THEN None ELSE cid_to_order_no[q][a]
      BY <1>1 DEF TypeOK
    <3> QED BY <3>1, <3>2
  <2>2. cid_to_product[d] = None
    BY <2>1 DEF IndexInv, OneCidPerNumber
  <2> QED BY <1>1, <2>2 DEF TypeOK
<1>8. RoutingConsistent'
  BY <1>0, <1>1 DEF IndexInv, RoutingConsistent, TypeOK
<1>9. IndexesInverse'
  <2> SUFFICES ASSUME EchoesCid, NEW q \in Product, NEW a \in Cid, NEW o \in OrderNo
               PROVE  /\ cid_to_order_no'[q][a] = o <=> order_no_to_cid'[q][o] = a
                      /\ (order_no_to_product'[o] = q) <=> (order_no_to_cid'[q][o] # None)
    BY DEF IndexesInverse
  <2>i. \A b \in Cid :
          /\ cid_to_order_no[q][b] = o <=> order_no_to_cid[q][o] = b
          /\ (order_no_to_product[o] = q) <=> (order_no_to_cid[q][o] # None)
    BY DEF IndexInv, IndexesInverse
  <2>1. CASE q # p
    <3>1. cid_to_order_no[q][c] = None
      BY <2>1 DEF IndexInv, RoutingConsistent
    <3>2. o = n => order_no_to_product[o] = p
      BY <1>0 DEF IndexInv, IndexesInverse
    <3> QED BY <1>0, <1>1, <2>1, <2>i, <3>1, <3>2 DEF TypeOK
  <2>2. CASE q = p
    BY <1>0, <1>1, <2>2, <2>i DEF TypeOK
  <2> QED BY <2>1, <2>2
<1> QED BY <1>4, <1>5, <1>6, <1>7, <1>8, <1>9 DEF IndexInv

\* Adopting: a new id for a number nobody holds.
LEMMA AdoptKeeps ==
  ASSUME TypeOK, IndexInv, NEW e, Genuine(e), ExecAdopt(e)
  PROVE  IndexInv'
<1> DEFINE p == TargetProduct(e)
           c == last_cid + 1
           o == e.order_no
<1>0. None \notin Product /\ None \notin OrderNo /\ None \notin Cid
  BY NoneAssumption DEF Cid
<1>1. /\ p \in Product /\ o \in OrderNo /\ c \in Cid /\ Home(o, p)
      /\ last_cid \in Int /\ c > last_cid
  <2>1. p \in Product /\ Home(o, p)
    BY TargetType, ReportAtHome DEF Genuine
  <2>2. o \in OrderNo
    BY DEF Genuine, ExecutionMsg
  <2>3. c \in Cid
    BY DEF ExecAdopt
  <2>4. last_cid \in Int /\ c > last_cid
    BY DEF TypeOK
  <2> QED BY <2>1, <2>2, <2>3, <2>4
<1>2. /\ cid_to_order_no' = [cid_to_order_no EXCEPT ![p][c] = o]
      /\ order_no_to_cid' = [order_no_to_cid EXCEPT ![p][o] = c]
      /\ order_no_to_product' = [order_no_to_product EXCEPT ![o] = p]
      /\ cid_to_product' = [cid_to_product EXCEPT ![c] = p]
      /\ outstanding' = [outstanding EXCEPT ![p][c] = e.qty]
      /\ last_cid' = c /\ placed' = placed
  BY DEF ExecAdopt, BindOrderNo
<1>3. ~HaveCid(e) /\ order_no_to_cid[p][o] = None
  <2>1. TargetCid(e) = None
    BY DEF ExecAdopt
  <2>2. ~HaveCid(e)
    BY <1>0, <2>1 DEF HaveCid, TargetCid
  <2> QED BY <2>1, <2>2 DEF TargetCid
<1>f. /\ placed[c] = None /\ cid_to_product[c] = None
      /\ \A q \in Product : outstanding[q][c] = None /\ cid_to_order_no[q][c] = None
  BY <1>1 DEF IndexInv, Fresh
<1> HIDE DEF p, c, o
<1>4. Fresh'
  <2>1. \A a \in Cid : a > c => a # c /\ a > last_cid
    BY <1>1, BoundsAssumption DEF Cid, c
  <2> QED BY <1>1, <1>2, <2>1 DEF IndexInv, Fresh, TypeOK
<1>5. OwnNumber'
  BY <1>1, <1>2, <1>f DEF IndexInv, OwnNumber, TypeOK
<1>6. NumbersAtHome'
  BY <1>0, <1>1, <1>2 DEF IndexInv, NumbersAtHome, Home, TypeOK
<1>7. OneCidPerNumber'
  <2> SUFFICES ASSUME EchoesCid, NEW q \in Product, NEW a \in Cid, NEW d \in Cid,
                      a # d, cid_to_order_no'[q][a] = VenueNo[d]
               PROVE  cid_to_product'[d] = None
    BY DEF OneCidPerNumber
  <2>1. VenueNo[d] \in OrderNo
    BY VenueAssumption
  <2>2. cid_to_order_no'[q][a] = IF q = p /\ a = c THEN o ELSE cid_to_order_no[q][a]
    BY <1>1, <1>2 DEF TypeOK
  <2>3. d # c
    <3>1. Home(VenueNo[d], q)
      BY <1>1, <2>1, <2>2 DEF IndexInv, NumbersAtHome
    <3>2. placed[d] = q
      BY <3>1 DEF Home
    <3> QED BY <1>0, <1>f, <3>2
  <2>4. cid_to_product'[d] = cid_to_product[d]
    BY <1>1, <1>2, <2>3 DEF TypeOK
  <2>5. CASE q = p /\ a = c
    <3>1. o = VenueNo[d]
      BY <2>2, <2>5
    <3>2. e.client_order_id = d
      <4>1. o \notin Foreign
        BY <3>1 DEF Foreign, Ours
      <4>2. PICK b \in Cid : e.order_no = VenueNo[b]
                             /\ e.client_order_id = IF EchoesCid THEN b ELSE None
        BY <4>1 DEF Genuine, o
      <4> QED BY <3>1, <4>2, VenueAssumption DEF o
    <3> QED BY <1>0, <1>3, <2>4, <3>2 DEF HaveCid
  <2>6. CASE ~(q = p /\ a = c)
    BY <2>2, <2>4, <2>6 DEF IndexInv, OneCidPerNumber
  <2> QED BY <2>5, <2>6
<1>8. RoutingConsistent'
  <2>1. \A q \in Product, a \in Cid :
          outstanding'[q][a] # None \/ cid_to_order_no'[q][a] # None => cid_to_product'[a] = q
    BY <1>1, <1>2, <1>f DEF IndexInv, RoutingConsistent, TypeOK
  <2>2. \A q \in Product, n \in OrderNo :
          order_no_to_cid'[q][n] # None => cid_to_order_no'[q][order_no_to_cid'[q][n]] = n
    BY <1>0, <1>1, <1>2, <1>f DEF IndexInv, RoutingConsistent, TypeOK
  <2> QED BY <2>1, <2>2 DEF RoutingConsistent
<1>9. IndexesInverse'
  <2> SUFFICES ASSUME EchoesCid, NEW q \in Product, NEW a \in Cid, NEW n \in OrderNo
               PROVE  /\ cid_to_order_no'[q][a] = n <=> order_no_to_cid'[q][n] = a
                      /\ (order_no_to_product'[n] = q) <=> (order_no_to_cid'[q][n] # None)
    BY DEF IndexesInverse
  <2>i. \A b \in Cid :
          /\ cid_to_order_no[q][b] = n <=> order_no_to_cid[q][n] = b
          /\ (order_no_to_product[n] = q) <=> (order_no_to_cid[q][n] # None)
    BY DEF IndexInv, IndexesInverse
  <2>1. n = o => order_no_to_cid[q][n] = None
    <3> SUFFICES ASSUME n = o, q # p, order_no_to_cid[q][o] # None PROVE FALSE
      BY <1>3 DEF p, o
    <3>1. PICK b \in Cid : cid_to_order_no[q][b] = o
      BY <1>1 DEF IndexInv, RoutingConsistent, TypeOK
    <3>2. Home(o, q)
      BY <1>1, <3>1 DEF IndexInv, NumbersAtHome
    <3> QED BY <1>1, <3>2, OneHome
  <2> QED BY <1>0, <1>1, <1>2, <1>f, <2>i, <2>1 DEF TypeOK
<1> QED BY <1>4, <1>5, <1>6, <1>7, <1>8, <1>9 DEF IndexInv

\* Placing: new ids, registered and perhaps resting, still without a number.
LEMMA PlaceKeeps ==
  ASSUME TypeOK, IndexInv, NEW p \in Product, NEW new \in SUBSET Cid,
         last_cid' \in Int, last_cid <= last_cid',
         \A c \in new : c > last_cid /\ c <= last_cid',
         cid_to_product' = [c \in Cid |-> IF c \in new THEN p ELSE cid_to_product[c]],
         placed' = [c \in Cid |-> IF c \in new THEN p ELSE placed[c]],
         outstanding' \in [Product -> [Cid -> Nat \cup {None}]],
         \A q \in Product, c \in Cid :
           q # p \/ c \notin new => outstanding'[q][c] = outstanding[q][c],
         UNCHANGED <<cid_to_order_no, order_no_to_cid, order_no_to_product>>
  PROVE  IndexInv'
<1>0. None \notin Product /\ None \notin OrderNo /\ None \notin Cid
  BY NoneAssumption DEF Cid
<1>f. \A c \in new :
        /\ placed[c] = None /\ cid_to_product[c] = None
        /\ \A q \in Product : outstanding[q][c] = None /\ cid_to_order_no[q][c] = None
  BY DEF IndexInv, Fresh
<1>h. ASSUME NEW o \in OrderNo, NEW q \in Product, Home(o, q)
      PROVE  Home(o, q)'
  BY <1>0, <1>f, <1>h DEF Home
<1>4. Fresh'
  <2>1. \A a \in Cid : a > last_cid' => a \notin new /\ a > last_cid
    BY BoundsAssumption DEF Cid, TypeOK
  <2> QED BY <2>1 DEF IndexInv, Fresh
<1>5. OwnNumber'
  BY <1>f DEF IndexInv, OwnNumber
<1>6. NumbersAtHome'
  BY <1>h DEF IndexInv, NumbersAtHome
<1>7. OneCidPerNumber'
  <2> SUFFICES ASSUME EchoesCid, NEW q \in Product, NEW a \in Cid, NEW d \in Cid,
                      a # d, cid_to_order_no[q][a] = VenueNo[d]
               PROVE  cid_to_product'[d] = None
    BY DEF OneCidPerNumber
  <2>1. VenueNo[d] \in OrderNo
    BY VenueAssumption
  <2>2. placed[d] = q
    BY <2>1 DEF IndexInv, NumbersAtHome, Home
  <2>3. d \notin new
    BY <1>0, <1>f, <2>2
  <2> QED BY <2>3 DEF IndexInv, OneCidPerNumber
<1>8. RoutingConsistent'
  <2>1. \A q \in Product, a \in Cid :
          outstanding'[q][a] # None \/ cid_to_order_no[q][a] # None => cid_to_product'[a] = q
    BY <1>f DEF IndexInv, RoutingConsistent
  <2> QED BY <2>1 DEF IndexInv, RoutingConsistent
<1>9. IndexesInverse'
  BY DEF IndexInv, IndexesInverse
<1> QED BY <1>4, <1>5, <1>6, <1>7, <1>8, <1>9 DEF IndexInv

-----------------------------------------------------------------------------
(* Every step preserves the invariant of the indexes.                      *)

\* A step that leaves the maps and the ids alone keeps the index invariant.
LEMMA IndexUnchanged ==
  ASSUME IndexInv, UNCHANGED <<last_cid, placed, orderVars>>
  PROVE  IndexInv'
  BY DEF IndexInv, Fresh, OwnNumber, NumbersAtHome, Home, OneCidPerNumber,
         RoutingConsistent, IndexesInverse, orderVars

\* on_execution keeps it, in each of its branches.
LEMMA ExecutionKeepsIndex ==
  ASSUME TypeOK, IndexInv, NEW e, Genuine(e), OnExecution(e)
  PROVE  IndexInv'
<1> DEFINE p == TargetProduct(e)
           c == TargetCid(e)
<1>0. p \in Product /\ e.order_no \in OrderNo /\ e.qty \in Nat /\ Home(e.order_no, p)
  BY TargetType, ReportAtHome DEF Genuine, ExecutionMsg
<1>k. ASSUME c # None
      PROVE  /\ c \in Cid /\ cid_to_product[c] = p
             /\ cid_to_order_no[p][c] = e.order_no \/ (placed[c] = p /\ e.order_no = VenueNo[c])
  BY <1>k, ReportKnown
<1> HIDE DEF p, c
<1>1. CASE ExecRejected(e) \/ ExecCanceled(e)
  <2>1. c # None /\ ForgetOrder(p, c) /\ UNCHANGED <<last_cid, placed>>
    BY <1>1 DEF ExecRejected, ExecCanceled, p, c
  <2> QED BY <1>0, <1>k, <2>1, ForgetKeeps
<1>2. CASE ExecNew(e)
  <2>1. /\ c # None /\ BindOrderNo(p, c, e.order_no)
        /\ UNCHANGED <<outstanding, cid_to_product, last_cid, placed>>
    BY <1>2 DEF ExecNew, p, c
  <2> QED BY <1>0, <1>k, <2>1, BindKeeps
<1>3. CASE ExecAdopt(e)
  BY <1>3, AdoptKeeps
<1>4. CASE ExecFill(e)
  <2>0. UNCHANGED <<last_cid, placed>>
    BY <1>4 DEF ExecFill
  <2>1. CASE c = None
    <3>1. UNCHANGED orderVars
      BY <1>4, <2>1 DEF ExecFill, c
    <3> QED BY <2>0, <3>1, IndexUnchanged
  <2>2. CASE c # None
    <3>1. FillOrder(p, c, e)
      BY <1>4, <2>2 DEF ExecFill, p, c
    <3>2. CASE LotsLeft(p, c, e) <= 0
      <4>1. ForgetOrder(p, c)
        BY <3>1, <3>2 DEF FillOrder
      <4> QED BY <1>0, <1>k, <2>0, <2>2, <4>1, ForgetKeeps
    <3>3. CASE ~(LotsLeft(p, c, e) <= 0)
      <4>1. /\ outstanding' = [outstanding EXCEPT ![p][c] = LotsLeft(p, c, e)]
            /\ UNCHANGED <<cid_to_order_no, order_no_to_cid, cid_to_product, order_no_to_product>>
        BY <3>1, <3>3 DEF FillOrder
      <4>2. c \in Cid /\ cid_to_product[c] = p /\ p # None
        BY <1>0, <1>k, <2>2, NoneAssumption
      <4>3. Fresh'
        <5>1. ~(c > last_cid)
          BY <4>2 DEF IndexInv, Fresh
        <5> QED BY <1>0, <2>0, <4>1, <4>2, <5>1 DEF IndexInv, Fresh, TypeOK
      <4>4. RoutingConsistent'
        BY <1>0, <4>1, <4>2 DEF IndexInv, RoutingConsistent, TypeOK
      <4>5. OwnNumber' /\ NumbersAtHome' /\ OneCidPerNumber' /\ IndexesInverse'
        BY <2>0, <4>1
        DEF IndexInv, OwnNumber, NumbersAtHome, Home, OneCidPerNumber, IndexesInverse
      <4> QED BY <4>3, <4>4, <4>5 DEF IndexInv
    <3> QED BY <3>2, <3>3
  <2> QED BY <2>1, <2>2
<1>5. CASE ExecIgnored(e)
  BY <1>5, IndexUnchanged DEF ExecIgnored
<1> QED BY <1>1, <1>2, <1>3, <1>4, <1>5 DEF OnExecution

\* on_order_response keeps it: it binds, forgets, or leaves the maps alone.
LEMMA ReplyKeepsIndex ==
  ASSUME TypeOK, IndexInv, NEW r \in ReplyMsg, r.order_no \in {None, ReplyNo(r.cid)},
         OnOrderResponse(r)
  PROVE  IndexInv'
<1> DEFINE p == cid_to_product[r.cid]
           c == r.cid
<1>0. c \in Cid /\ p \in Product \cup {None} /\ UNCHANGED <<last_cid, placed>>
  BY DEF ReplyMsg, TypeOK, OnOrderResponse
<1>1. CASE UNCHANGED orderVars
  BY <1>0, <1>1, IndexUnchanged
<1>2. CASE p # None /\ ForgetOrder(p, c)
  BY <1>0, <1>2, ForgetKeeps
<1>3. CASE /\ p # None /\ r.order_no # None
           /\ BindOrderNo(p, c, r.order_no) /\ UNCHANGED <<outstanding, cid_to_product>>
  <2>1. p \in Product /\ r.order_no = ReplyNo(c)
    BY <1>0, <1>3
  <2>2. CASE placed[c] # None
    <3>1. r.order_no = VenueNo[c] /\ placed[c] = p /\ VenueNo[c] \in OrderNo
      BY <1>0, <2>1, <2>2, <1>3, VenueAssumption DEF ReplyNo, IndexInv, OwnNumber
    <3>2. Home(r.order_no, p)
      BY <1>0, <3>1, VenueAssumption DEF Home, Foreign, Ours
    <3> QED BY <1>0, <1>3, <2>1, <3>1, <3>2, BindKeeps
  <2>3. CASE placed[c] = None
    <3>1. r.order_no = cid_to_order_no[p][c]
      BY <1>3, <2>1, <2>3 DEF ReplyNo
    <3>2. r.order_no \in OrderNo
      BY <1>3 DEF ReplyMsg
    <3>3. Home(r.order_no, p)
      BY <1>0, <2>1, <3>1, <3>2 DEF IndexInv, NumbersAtHome
    <3> QED BY <1>0, <1>3, <2>1, <3>1, <3>2, <3>3, BindKeeps
  <2> QED BY <2>2, <2>3
<1> QED BY <1>1, <1>2, <1>3 DEF OnOrderResponse, ReplyUnknown, CancelReply, PlaceReply

\* update_orders keeps it: it only registers new ids.
LEMMA DecisionKeepsIndex ==
  ASSUME TypeOK, IndexInv, NEW p \in Product, NEW cancels \in SUBSET Outstanding(p),
         NEW lots \in Placements, UpdateOrders(p, cancels, lots)
  PROVE  IndexInv'
<1> DEFINE new == DOMAIN lots
<1>1. last_cid \in 0..MaxCid /\ last_cid' = last_cid + Cardinality(new)
  BY DEF TypeOK, UpdateOrders
<1>2. /\ last_cid' \in 0..MaxCid /\ last_cid <= last_cid'
      /\ new = (last_cid + 1)..last_cid' /\ new \in SUBSET Cid
  BY <1>1, PlacementIds
<1> HIDE DEF new
<1>3. /\ last_cid' \in Int /\ last_cid <= last_cid'
      /\ \A c \in new : c > last_cid /\ c <= last_cid'
  <2>1. last_cid \in Int /\ last_cid' \in Int
    BY <1>1, <1>2, BoundsAssumption
  <2> QED BY <1>2, <2>1
<1>s. new \in SUBSET Cid
  BY <1>2
<1>4. /\ cid_to_product' = [c \in Cid |-> IF c \in new THEN p ELSE cid_to_product[c]]
      /\ placed' = [c \in Cid |-> IF c \in new THEN p ELSE placed[c]]
      /\ outstanding' = [outstanding EXCEPT ![p] =
           [c \in Cid |-> IF c \in new THEN lots[c] ELSE outstanding[p][c]]]
      /\ UNCHANGED <<cid_to_order_no, order_no_to_cid, order_no_to_product>>
  BY DEF UpdateOrders, new
<1>5. outstanding' \in [Product -> [Cid -> Nat \cup {None}]]
  BY UpdateType DEF TypeOK
<1>6. \A q \in Product, c \in Cid :
        q # p \/ c \notin new => outstanding'[q][c] = outstanding[q][c]
  BY <1>4 DEF TypeOK
<1>7. UNCHANGED <<cid_to_order_no, order_no_to_cid, order_no_to_product>>
  BY <1>4
<1>8. /\ cid_to_product' = [c \in Cid |-> IF c \in new THEN p ELSE cid_to_product[c]]
      /\ placed' = [c \in Cid |-> IF c \in new THEN p ELSE placed[c]]
  BY <1>4
<1> QED BY <1>s, <1>3, <1>5, <1>6, <1>7, <1>8, PlaceKeeps

\* submit_market_flatten keeps it: its id is registered but rests nowhere.
LEMMA CrossingKeepsIndex ==
  ASSUME TypeOK, IndexInv, NEW p \in Product, SubmitMarketFlatten(p)
  PROVE  IndexInv'
<1> DEFINE c == last_cid + 1
<1>1. /\ c \in Cid /\ last_cid' = c /\ last_cid \in Int
      /\ cid_to_product' = [cid_to_product EXCEPT ![c] = p]
      /\ placed' = [placed EXCEPT ![c] = p]
      /\ UNCHANGED <<outstanding, cid_to_order_no, order_no_to_cid, order_no_to_product>>
  <2>1. last_cid \in Int
    BY DEF TypeOK
  <2> QED BY <2>1 DEF SubmitMarketFlatten
<1>2. /\ cid_to_product' = [d \in Cid |-> IF d \in {c} THEN p ELSE cid_to_product[d]]
      /\ placed' = [d \in Cid |-> IF d \in {c} THEN p ELSE placed[d]]
  BY <1>1 DEF TypeOK
<1>3. outstanding' \in [Product -> [Cid -> Nat \cup {None}]]
  BY <1>1 DEF TypeOK
<1>4. last_cid' \in Int /\ last_cid <= last_cid'
      /\ \A d \in {c} : d > last_cid /\ d <= last_cid'
  BY <1>1
<1>s. {c} \subseteq Cid
  BY <1>1
<1>5. \A q \in Product, d \in Cid :
        q # p \/ d \notin {c} => outstanding'[q][d] = outstanding[q][d]
  BY <1>1
<1>6. UNCHANGED <<cid_to_order_no, order_no_to_cid, order_no_to_product>>
  BY <1>1
<1> DEFINE new == {c}
<1>7. new \in SUBSET Cid
  BY <1>s
<1> HIDE DEF c, new
<1> QED BY <1>2, <1>3, <1>4, <1>5, <1>6, <1>7, PlaceKeeps DEF new

\* The indexes start empty.
LEMMA IndexInit == Init => IndexInv
<1> SUFFICES ASSUME Init PROVE IndexInv
  OBVIOUS
<1>0. None \notin Product /\ None \notin OrderNo /\ None \notin Cid
  BY NoneAssumption DEF Cid
<1>1. Fresh /\ OwnNumber /\ RoutingConsistent
  BY DEF Init, Fresh, OwnNumber, RoutingConsistent
<1>2. NumbersAtHome /\ IndexesInverse
  BY <1>0 DEF Init, NumbersAtHome, IndexesInverse
<1>3. OneCidPerNumber
  BY DEF Init, OneCidPerNumber
<1> QED BY <1>1, <1>2, <1>3 DEF IndexInv

\* The inductive invariant of the indexes.
THEOREM IndexInvariant == Spec => []IndexInv
<1>1. Init => IndexInv
  BY IndexInit
<1>2. TypeOK /\ IndexInv /\ [Next]_vars => IndexInv'
  <2> SUFFICES ASSUME TypeOK, IndexInv, [Next]_vars PROVE IndexInv'
    OBVIOUS
  <2>1. CASE OwnExecution \/ ForeignExecution
    BY <2>1, ReportIsGenuine, ExecutionKeepsIndex
  <2>2. CASE SomeReply
    BY <2>2, ReplyIsGenuine, ReplyKeepsIndex
  <2>3. CASE Feed
    BY <2>3, IndexUnchanged DEF Feed, OnListenerStatus, OnPosition, OnProductInfo, OnOrderbook
  <2>4. CASE Decision
    <3>1. ASSUME NEW p \in Product, ClearTimedOutWait(p) PROVE IndexInv'
      BY <3>1, IndexUnchanged DEF ClearTimedOutWait
    <3> QED BY <2>4, <3>1, DecisionKeepsIndex DEF Decision
  <2>5. CASE Shutdown
    <3>1. ASSUME NEW ph, GoTo(ph) PROVE IndexInv'
      BY <3>1, IndexUnchanged DEF GoTo
    <3>2. CASE CancelRound
      BY <3>2, IndexUnchanged DEF CancelRound
    <3>3. ASSUME NEW p \in Product, SkipMarketFlatten(p) PROVE IndexInv'
      BY <3>3, IndexUnchanged DEF SkipMarketFlatten
    <3> QED BY <2>5, <3>1, <3>2, <3>3, CrossingKeepsIndex
            DEF Shutdown, BeginShutdown, AllOrdersCancelled, GaveUpCancelling, LeaveCancel,
                EndPassiveFlatten, MarketFlattenSent, EndMarketFlatten
  <2>6. CASE \E p \in Product : TimePasses(p)
    BY <2>6, IndexUnchanged DEF TimePasses
  <2>7. CASE UNCHANGED vars
    BY <2>7, IndexUnchanged DEF vars
  <2> QED BY <2>1, <2>2, <2>3, <2>4, <2>5, <2>6, <2>7 DEF Next
<1> QED BY <1>1, <1>2, TypeCorrect, PTL DEF Spec

\* Routing: whatever reports and replies arrive, in whatever order, an order
\* number on_execution looks up leads to a cid that bears that number, and a
\* resting or numbered order is registered to the product whose state holds it.
THEOREM RoutingStaysConsistent == Spec => []RoutingConsistent
<1>1. IndexInv => RoutingConsistent
  BY DEF IndexInv
<1> QED BY <1>1, IndexInvariant, PTL

\* With a feed that echoes the cid, cid_to_order_no and order_no_to_cid stay
\* inverse and order_no_to_product_ knows exactly the bound numbers: no order is
\* ever tracked under two cids.
THEOREM OneEntryPerOrder == Spec => []IndexesInverse
<1>1. IndexInv => IndexesInverse
  BY DEF IndexInv
<1> QED BY <1>1, IndexInvariant, PTL

-----------------------------------------------------------------------------
(* The waits.                                                              *)

\* An answer about order c: some waits of its product end, its record may be
\* written, and the order stays as it is, is numbered, or is forgotten.
LEMMA AnswerKeepsWaits ==
  ASSUME TypeOK, IndexInv, WaitInv, NEW p \in Product, NEW c \in Cid, cid_to_product[c] = p,
         NEW S, NEW T, EraseWaiting(p, S, T),
         pending' = pending \/ (c \in S /\ c \in T /\ DropRecord(c)),
         UNCHANGED <<last_cid, placed>>,
         \/ UNCHANGED <<cid_to_order_no, cid_to_product>>
         \/ c \in T /\ ForgetOrder(p, c)
         \/ c \in S /\ UNCHANGED cid_to_product /\ \E o \in OrderNo : BindOrderNo(p, c, o)
  PROVE  WaitInv'
<1>0. None \notin Product /\ None \notin OrderNo /\ None \notin Cid
  BY NoneAssumption DEF Cid
<1>w. /\ place_waiting' = [place_waiting EXCEPT ![p] = @ \ S]
      /\ cancel_waiting' = [cancel_waiting EXCEPT ![p] = @ \ T]
  BY DEF EraseWaiting
<1>s. \A q \in Product : /\ place_waiting'[q] \subseteq place_waiting[q]
                         /\ cancel_waiting'[q] \subseteq cancel_waiting[q]
  BY <1>w DEF TypeOK
<1>o. \A q \in Product : c \in cancel_waiting[q] => q = p
  BY DEF WaitInv, CancelWaitIsForKnownOrder
<1>1. WaitsOwned'
  BY <1>s DEF WaitInv, WaitsOwned, Waiting
<1>2. CancelWaitIsForKnownOrder'
  <2>1. CASE UNCHANGED <<cid_to_order_no, cid_to_product>>
    BY <1>s, <2>1 DEF WaitInv, CancelWaitIsForKnownOrder
  <2>2. CASE c \in T /\ ForgetOrder(p, c)
    <3>1. \A q \in Product : c \notin cancel_waiting'[q]
      BY <1>w, <1>s, <1>o, <2>2 DEF TypeOK
    <3>2. \A q \in Product, a \in Cid :
            /\ a # c => cid_to_order_no'[q][a] = cid_to_order_no[q][a]
            /\ a # c => cid_to_product'[a] = cid_to_product[a]
            /\ cid_to_order_no[q][a] = None => cid_to_order_no'[q][a] = None
      BY <2>2 DEF ForgetOrder, TypeOK
    <3> QED BY <1>s, <3>1, <3>2 DEF WaitInv, CancelWaitIsForKnownOrder
  <2>3. CASE c \in S /\ UNCHANGED cid_to_product /\ \E o \in OrderNo : BindOrderNo(p, c, o)
    <3>1. c \notin place_waiting'[p]
      BY <1>w, <2>3 DEF TypeOK
    <3>2. \A q \in Product, a \in Cid :
            /\ ~(q = p /\ a = c) => cid_to_order_no'[q][a] = cid_to_order_no[q][a]
            /\ cid_to_order_no[q][a] # None => cid_to_order_no'[q][a] # None
      BY <1>0, <2>3 DEF BindOrderNo, TypeOK
    <3> QED BY <1>s, <2>3, <3>1, <3>2 DEF WaitInv, CancelWaitIsForKnownOrder
  <2> QED BY <2>1, <2>2, <2>3
<1>3. WaitHasRecord'
  <2>1. \A a \in Cid : cid_to_product'[a] \in {cid_to_product[a], None}
    BY DEF ForgetOrder, TypeOK
  <2>2. CASE pending' = pending
    BY <1>0, <1>s, <2>1, <2>2 DEF WaitInv, WaitHasRecord
  <2>3. CASE c \in S /\ c \in T /\ DropRecord(c)
    <3>1. \A a \in Cid : a # c => pending'[a] = pending[a]
      BY <2>3 DEF DropRecord, TypeOK
    <3>2. c \notin place_waiting'[p] /\ c \notin cancel_waiting'[p]
      BY <1>w, <2>3 DEF TypeOK
    <3> QED BY <1>0, <1>s, <1>o, <2>1, <3>1, <3>2 DEF WaitInv, WaitHasRecord
  <2> QED BY <2>2, <2>3
<1> QED BY <1>1, <1>2, <1>3 DEF WaitInv

\* A step that leaves waits, records and maps alone keeps the wait invariant.
LEMMA WaitsUnchanged ==
  ASSUME WaitInv,
         UNCHANGED <<last_cid, placed, pending, cid_to_order_no, cid_to_product,
                     place_waiting, cancel_waiting>>
  PROVE  WaitInv'
  BY DEF WaitInv, WaitsOwned, Waiting, CancelWaitIsForKnownOrder, WaitHasRecord

\* on_execution keeps it: a wait ends no later than what it refers to.
LEMMA ExecutionKeepsWaits ==
  ASSUME TypeOK, IndexInv, WaitInv, NEW e, Genuine(e), OnExecution(e)
  PROVE  WaitInv'
<1> DEFINE p == TargetProduct(e)
           c == TargetCid(e)
<1>0. p \in Product /\ e.order_no \in OrderNo
  BY TargetType DEF Genuine, ExecutionMsg
<1>k. ASSUME c # None PROVE c \in Cid /\ cid_to_product[c] = p
  BY <1>k, ReportKnown
<1> HIDE DEF p, c
<1>1. CASE ExecRejected(e)
  <2>1. /\ c # None /\ EraseWaiting(p, {c}, {c}) /\ ForgetOrder(p, c) /\ c \in {c}
        /\ UNCHANGED <<last_cid, placed>> /\ pending' = pending
    BY <1>1 DEF ExecRejected, p, c
  <2> QED BY <1>0, <1>k, <2>1, AnswerKeepsWaits
<1>2. CASE ExecCanceled(e)
  <2>1. /\ c # None /\ EraseWaiting(p, {}, {c}) /\ ForgetOrder(p, c) /\ c \in {c}
        /\ UNCHANGED <<last_cid, placed>> /\ pending' = pending
    BY <1>2 DEF ExecCanceled, p, c
  <2> QED BY <1>0, <1>k, <2>1, AnswerKeepsWaits
<1>3. CASE ExecNew(e)
  <2>1. /\ c # None /\ EraseWaiting(p, {c}, {}) /\ BindOrderNo(p, c, e.order_no) /\ c \in {c}
        /\ UNCHANGED <<last_cid, placed, cid_to_product>> /\ pending' = pending
    BY <1>3 DEF ExecNew, p, c
  <2> QED BY <1>0, <1>k, <2>1, AnswerKeepsWaits
<1>4. CASE ExecAdopt(e)
  <2> DEFINE d == last_cid + 1
  <2>1. /\ d \in Cid /\ last_cid' = d /\ UNCHANGED <<placed, pending, place_waiting, cancel_waiting>>
        /\ cid_to_product' = [cid_to_product EXCEPT ![d] = p]
        /\ cid_to_order_no' = [cid_to_order_no EXCEPT ![p][d] = e.order_no]
    BY <1>4 DEF ExecAdopt, BindOrderNo, waitVars, p
  <2>2. last_cid \in Int /\ \A a \in Cid : a \in Int
    BY BoundsAssumption DEF TypeOK, Cid
  <2>3. \A q \in Product : d \notin Waiting(q)
    BY <2>1, <2>2 DEF WaitInv, WaitsOwned
  <2>4. \A a \in Cid : a <= last_cid => a <= last_cid'
    BY <2>1, <2>2
  <2> HIDE DEF d
  <2>5. \A q \in Product, a \in Cid : a \in Waiting(q) =>
          /\ cid_to_product'[a] = cid_to_product[a]
          /\ cid_to_order_no'[q][a] = cid_to_order_no[q][a]
    BY <1>0, <2>1, <2>3 DEF TypeOK
  <2>6. WaitsOwned'
    BY <2>1, <2>4 DEF WaitInv, WaitsOwned, Waiting
  <2>7. CancelWaitIsForKnownOrder' /\ WaitHasRecord'
    BY <2>1, <2>5 DEF WaitInv, Waiting, CancelWaitIsForKnownOrder, WaitHasRecord
  <2> QED BY <2>6, <2>7 DEF WaitInv
<1>5. CASE ExecFill(e)
  <2>0. UNCHANGED <<last_cid, placed>> /\ pending' = pending
    BY <1>5 DEF ExecFill
  <2>1. CASE c = None
    BY <1>5, <2>0, <2>1, WaitsUnchanged DEF ExecFill, c, orderVars, waitVars
  <2>2. CASE c # None
    <3>1. FillOrder(p, c, e)
      BY <1>5, <2>2 DEF ExecFill, p, c
    <3>2. CASE LotsLeft(p, c, e) <= 0
      <4>1. EraseWaiting(p, {c}, {c}) /\ ForgetOrder(p, c) /\ c \in {c}
        BY <3>1, <3>2 DEF FillOrder
      <4> QED BY <1>0, <1>k, <2>0, <2>2, <4>1, AnswerKeepsWaits
    <3>3. CASE ~(LotsLeft(p, c, e) <= 0)
      BY <2>0, <3>1, <3>3, WaitsUnchanged DEF FillOrder, waitVars
    <3> QED BY <3>2, <3>3
  <2> QED BY <2>1, <2>2
<1>6. CASE ExecIgnored(e)
  BY <1>6, WaitsUnchanged DEF ExecIgnored, orderVars, waitVars
<1> QED BY <1>1, <1>2, <1>3, <1>4, <1>5, <1>6 DEF OnExecution

\* on_order_response keeps it, whichever kind it takes the reply for.
LEMMA ReplyKeepsWaits ==
  ASSUME TypeOK, IndexInv, WaitInv, NEW r \in ReplyMsg, OnOrderResponse(r)
  PROVE  WaitInv'
<1> DEFINE c == r.cid
           p == cid_to_product[c]
<1>0. /\ c \in Cid /\ p \in Product \cup {None} /\ r.order_no \in OrderNo \cup {None}
      /\ UNCHANGED <<last_cid, placed>>
  BY DEF ReplyMsg, TypeOK, OnOrderResponse
<1>1. CASE ReplyUnknown(r)
  <2>1. /\ p = None /\ DropRecord(c)
        /\ UNCHANGED <<cid_to_order_no, cid_to_product, place_waiting, cancel_waiting>>
    BY <1>1 DEF ReplyUnknown, orderVars, waitVars
  <2>2. \A a \in Cid : a # c => pending'[a] = pending[a]
    BY <2>1 DEF DropRecord, TypeOK
  <2>3. \A q \in Product : q # p
    BY <2>1, NoneAssumption
  <2>4. WaitsOwned' /\ CancelWaitIsForKnownOrder'
    BY <1>0, <2>1 DEF WaitInv, WaitsOwned, Waiting, CancelWaitIsForKnownOrder
  <2>5. WaitHasRecord'
    BY <2>1, <2>2, <2>3 DEF WaitInv, CancelWaitIsForKnownOrder, WaitHasRecord
  <2> QED BY <2>4, <2>5 DEF WaitInv
<1>2. CASE CancelReply(r)
  <2>1. /\ p \in Product /\ EraseWaiting(p, {c}, {c}) /\ DropRecord(c) /\ c \in {c}
        /\ ForgetOrder(p, c) \/ UNCHANGED <<cid_to_order_no, cid_to_product>>
    BY <1>0, <1>2 DEF CancelReply, orderVars
  <2> HIDE DEF c, p
  <2> QED BY <1>0, <2>1, AnswerKeepsWaits DEF p
<1>3. CASE PlaceReply(r)
  <2>1. /\ p \in Product /\ EraseWaiting(p, {c}, {c}) /\ DropRecord(c) /\ c \in {c}
        /\ \/ ForgetOrder(p, c)
           \/ UNCHANGED <<cid_to_order_no, cid_to_product>>
           \/ /\ r.order_no # None /\ BindOrderNo(p, c, r.order_no)
              /\ UNCHANGED cid_to_product
    BY <1>0, <1>3 DEF PlaceReply, orderVars
  <2>2. r.order_no # None => r.order_no \in OrderNo
    BY <1>0
  <2> HIDE DEF c, p
  <2> QED BY <1>0, <2>1, <2>2, AnswerKeepsWaits DEF p
<1> QED BY <1>1, <1>2, <1>3 DEF OnOrderResponse

\* A place wait whose order is gone, and any wait of another product, keeps its
\* record when the waits of product p are closed out or replaced.
LEMMA OtherProductsWaits ==
  ASSUME TypeOK, IndexInv, WaitInv, NEW p \in Product, NEW q \in Product, q # p,
         NEW a \in Cid, a \in Waiting(q), cid_to_product[a] = q
  PROVE  a \notin Waiting(p)
<1>0. None \notin Product
  BY NoneAssumption
<1>1. a \notin cancel_waiting[p]
  BY DEF WaitInv, CancelWaitIsForKnownOrder
<1>2. ASSUME a \in place_waiting[p] PROVE FALSE
  <2>1. placed[a] = p
    BY <1>2 DEF WaitInv, WaitsOwned
  <2>2. cid_to_product[a] \in {p, None}
    BY <1>0, <2>1 DEF IndexInv, OwnNumber
  <2> QED BY <1>0, <2>2
<1> QED BY <1>1, <1>2 DEF Waiting

\* Closing out a wait that has timed out keeps it.
LEMMA ClearKeepsWaits ==
  ASSUME TypeOK, IndexInv, WaitInv, NEW p \in Product, ClearTimedOutWait(p)
  PROVE  WaitInv'
<1>1. /\ place_waiting' = [place_waiting EXCEPT ![p] = {}]
      /\ cancel_waiting' = [cancel_waiting EXCEPT ![p] = {}]
      /\ pending' = [c \in Cid |-> IF c \in Waiting(p) THEN None ELSE pending[c]]
      /\ UNCHANGED <<last_cid, placed, cid_to_order_no, cid_to_product>>
  BY DEF ClearTimedOutWait, EraseWaiting, orderVars
<1>2. \A q \in Product :
        /\ q # p => place_waiting'[q] = place_waiting[q] /\ cancel_waiting'[q] = cancel_waiting[q]
        /\ place_waiting'[p] = {} /\ cancel_waiting'[p] = {}
  BY <1>1 DEF TypeOK
<1>3. WaitsOwned' /\ CancelWaitIsForKnownOrder'
  BY <1>1, <1>2 DEF WaitInv, WaitsOwned, Waiting, CancelWaitIsForKnownOrder
<1>4. WaitHasRecord'
  <2> SUFFICES ASSUME NEW q \in Product, NEW a \in Cid
               PROVE  /\ a \in cancel_waiting'[q] => pending'[a] = "cancel"
                      /\ a \in place_waiting'[q] /\ cid_to_product'[a] = q => pending'[a] = "place"
    BY DEF WaitHasRecord
  <2>1. CASE q = p
    BY <1>2, <2>1
  <2>2. CASE q # p
    <3>1. a \in cancel_waiting[q] => cid_to_product[a] = q
      BY DEF WaitInv, CancelWaitIsForKnownOrder
    <3>2. a \in Waiting(q) /\ cid_to_product[a] = q => a \notin Waiting(p)
      BY <2>2, OtherProductsWaits
    <3> QED BY <1>1, <1>2, <2>2, <3>1, <3>2 DEF WaitInv, WaitHasRecord, Waiting
  <2> QED BY <2>1, <2>2
<1> QED BY <1>3, <1>4 DEF WaitInv

\* update_orders keeps it: the new waits are for numbered orders and new ids.
LEMMA DecisionKeepsWaits ==
  ASSUME TypeOK, IndexInv, WaitInv, NEW p \in Product, NEW cancels \in SUBSET Outstanding(p),
         NEW lots \in Placements, UpdateOrders(p, cancels, lots)
  PROVE  WaitInv'
<1> DEFINE new == DOMAIN lots
           sent == {c \in cancels : cid_to_order_no[p][c] # None}
<1>0. last_cid \in 0..MaxCid /\ last_cid' = last_cid + Cardinality(new)
  BY DEF TypeOK, UpdateOrders
<1>1. /\ last_cid' \in 0..MaxCid /\ last_cid <= last_cid'
      /\ new = (last_cid + 1)..last_cid' /\ new \subseteq Cid
  BY <1>0, PlacementIds
<1>2. /\ last_cid \in Int /\ last_cid' \in Int
      /\ \A a \in Cid : a \in Int
  BY <1>0, <1>1, BoundsAssumption DEF Cid
<1> HIDE DEF new
<1>3. \A a \in Cid : /\ a \in new => a > last_cid /\ a <= last_cid'
                     /\ a <= last_cid => a \notin new /\ a <= last_cid'
  BY <1>1, <1>2
<1>f. \A a \in new : /\ cid_to_product[a] = None
                     /\ \A q \in Product : outstanding[q][a] = None /\ cid_to_order_no[q][a] = None
  BY <1>1, <1>3 DEF IndexInv, Fresh
<1>4. \A a \in sent : /\ a \in Cid /\ a <= last_cid /\ a \notin new
                      /\ cid_to_product[a] = p /\ cid_to_order_no[p][a] # None
  <2> SUFFICES ASSUME NEW a \in sent
               PROVE  /\ a \in Cid /\ a <= last_cid /\ a \notin new
                      /\ cid_to_product[a] = p /\ cid_to_order_no[p][a] # None
    OBVIOUS
  <2>1. a \in Cid /\ cid_to_order_no[p][a] # None
    BY DEF Outstanding
  <2>2. cid_to_product[a] = p
    BY <2>1 DEF IndexInv, RoutingConsistent
  <2>3. a <= last_cid
    BY <1>2, <2>1 DEF IndexInv, Fresh
  <2> QED BY <1>3, <2>1, <2>2, <2>3
<1> HIDE DEF sent
<1>5. /\ cid_to_product' = [c \in Cid |-> IF c \in new THEN p ELSE cid_to_product[c]]
      /\ placed' = [c \in Cid |-> IF c \in new THEN p ELSE placed[c]]
      /\ place_waiting' = [place_waiting EXCEPT ![p] = new]
      /\ cancel_waiting' = [cancel_waiting EXCEPT ![p] = sent]
      /\ pending' = [c \in Cid |->
           CASE c \in new -> "place"
             [] c \in sent -> "cancel"
             [] c \in Waiting(p) \ sent -> None
             [] OTHER -> pending[c]]
      /\ UNCHANGED cid_to_order_no
  BY DEF UpdateOrders, new, sent
<1>6. /\ place_waiting'[p] = new /\ cancel_waiting'[p] = sent
      /\ \A q \in Product \ {p} :
           place_waiting'[q] = place_waiting[q] /\ cancel_waiting'[q] = cancel_waiting[q]
  BY <1>5 DEF TypeOK
<1>7. \A q \in Product, a \in Cid : a \in Waiting(q) => a \notin new
  BY <1>3 DEF WaitInv, WaitsOwned
<1>8. WaitsOwned'
  BY <1>3, <1>4, <1>5, <1>6, <1>7 DEF WaitInv, WaitsOwned, Waiting
<1>9. CancelWaitIsForKnownOrder'
  BY <1>4, <1>5, <1>6, <1>7, <1>f DEF WaitInv, CancelWaitIsForKnownOrder, Waiting
<1>10. WaitHasRecord'
  <2> SUFFICES ASSUME NEW q \in Product, NEW a \in Cid
               PROVE  /\ a \in cancel_waiting'[q] => pending'[a] = "cancel"
                      /\ a \in place_waiting'[q] /\ cid_to_product'[a] = q => pending'[a] = "place"
    BY DEF WaitHasRecord
  <2>1. CASE q = p
    <3>1. ASSUME a \in new PROVE pending'[a] = "place"
      <4>1. a \notin sent /\ a \notin Waiting(p)
        BY <1>4, <1>7, <3>1
      <4> QED BY <1>5, <3>1, <4>1
    <3>2. ASSUME a \in sent PROVE pending'[a] = "cancel"
      <4>1. a \notin new
        BY <1>4, <3>2
      <4> QED BY <1>5, <3>2, <4>1
    <3> QED BY <1>6, <2>1, <3>1, <3>2
  <2>2. CASE q # p
    <3>1. ASSUME a \in Waiting(q), cid_to_product[a] = q
          PROVE  pending'[a] = pending[a]
      <4>1. a \notin Waiting(p)
        BY <2>2, <3>1, OtherProductsWaits
      <4>2. a \notin new /\ a \notin sent
        BY <1>4, <1>7, <2>2, <3>1
      <4> QED BY <1>5, <4>1, <4>2
    <3>2. a \in cancel_waiting[q] => cid_to_product[a] = q
      BY DEF WaitInv, CancelWaitIsForKnownOrder
    <3>3. a \in Waiting(q) => cid_to_product'[a] = cid_to_product[a]
      BY <1>5, <1>7
    <3> QED BY <1>6, <2>2, <3>1, <3>2, <3>3 DEF WaitInv, WaitHasRecord, Waiting
  <2> QED BY <2>1, <2>2
<1> QED BY <1>8, <1>9, <1>10 DEF WaitInv

\* A round of cancel_all_orders keeps it.
LEMMA CancelRoundKeepsWaits ==
  ASSUME TypeOK, IndexInv, WaitInv, CancelRound
  PROVE  WaitInv'
<1>0. None \notin Product
  BY NoneAssumption
<1>1. /\ cancel_waiting' = [p \in Product |-> cancel_waiting[p] \cup Cancellable(p)]
      /\ pending' = [c \in Cid |->
           IF \E p \in Product : c \in Cancellable(p) THEN "cancel" ELSE pending[c]]
      /\ UNCHANGED <<last_cid, placed, cid_to_order_no, cid_to_product, place_waiting>>
  BY DEF CancelRound, orderVars
<1>2. \A p \in Product : \A c \in Cancellable(p) :
        /\ c \in Cid /\ cid_to_product[c] = p /\ cid_to_order_no[p][c] # None /\ c <= last_cid
  <2> SUFFICES ASSUME NEW p \in Product, NEW c \in Cancellable(p)
               PROVE  /\ c \in Cid /\ cid_to_product[c] = p /\ cid_to_order_no[p][c] # None
                      /\ c <= last_cid
    OBVIOUS
  <2>1. c \in Cid /\ cid_to_order_no[p][c] # None
    BY DEF Cancellable, Outstanding
  <2>2. cid_to_product[c] = p
    BY <2>1 DEF IndexInv, RoutingConsistent
  <2>3. last_cid \in Int /\ c \in Int
    BY <2>1, BoundsAssumption DEF TypeOK, Cid
  <2>4. c <= last_cid
    BY <2>1, <2>3 DEF IndexInv, Fresh
  <2> QED BY <2>1, <2>2, <2>4
<1>3. WaitsOwned' /\ CancelWaitIsForKnownOrder'
  BY <1>1, <1>2 DEF WaitInv, WaitsOwned, Waiting, CancelWaitIsForKnownOrder
<1>4. WaitHasRecord'
  <2> SUFFICES ASSUME NEW q \in Product, NEW a \in Cid
               PROVE  /\ a \in cancel_waiting'[q] => pending'[a] = "cancel"
                      /\ a \in place_waiting[q] /\ cid_to_product[a] = q => pending'[a] = "place"
    BY <1>1 DEF WaitHasRecord
  <2>1. a \in cancel_waiting'[q] => pending'[a] = "cancel"
    BY <1>1 DEF WaitInv, WaitHasRecord
  <2>2. ASSUME a \in place_waiting[q], cid_to_product[a] = q
        PROVE  pending'[a] = "place"
    <3>1. \A p \in Product : a \notin Cancellable(p)
      BY <1>2, <2>2 DEF WaitInv, CancelWaitIsForKnownOrder
    <3> QED BY <1>1, <2>2, <3>1 DEF WaitInv, WaitHasRecord
  <2> QED BY <2>1, <2>2
<1> QED BY <1>3, <1>4 DEF WaitInv

\* submit_market_flatten keeps it: its one new wait is for a new id.
LEMMA CrossingKeepsWaits ==
  ASSUME TypeOK, IndexInv, WaitInv, NEW p \in Product, SubmitMarketFlatten(p)
  PROVE  WaitInv'
<1> DEFINE c == last_cid + 1
<1>1. /\ c \in Cid /\ last_cid' = c
      /\ cid_to_product' = [cid_to_product EXCEPT ![c] = p]
      /\ placed' = [placed EXCEPT ![c] = p]
      /\ place_waiting' = [place_waiting EXCEPT ![p] = @ \cup {c}]
      /\ pending' = [pending EXCEPT ![c] = "place"]
      /\ UNCHANGED <<cid_to_order_no, cancel_waiting>>
  BY DEF SubmitMarketFlatten
<1>2. last_cid \in Int /\ \A a \in Cid : a \in Int
  BY BoundsAssumption DEF TypeOK, Cid
<1>3. /\ c > last_cid /\ \A a \in Cid : a <= last_cid => a # c /\ a <= last_cid'
  BY <1>1, <1>2
<1>4. \A q \in Product, a \in Cid : a \in Waiting(q) => a # c
  BY <1>3 DEF WaitInv, WaitsOwned
<1>f. \A q \in Product : cid_to_order_no[q][c] = None
  BY <1>1, <1>3 DEF IndexInv, Fresh
<1>s. c <= last_cid'
  BY <1>1, <1>2
<1> HIDE DEF c
<1>5. /\ \A a \in Cid : a # c => /\ cid_to_product'[a] = cid_to_product[a]
                                 /\ placed'[a] = placed[a] /\ pending'[a] = pending[a]
      /\ cid_to_product'[c] = p /\ placed'[c] = p /\ pending'[c] = "place"
      /\ \A q \in Product, a \in Cid :
           a \in place_waiting'[q] <=> a \in place_waiting[q] \/ (a = c /\ q = p)
  BY <1>1 DEF TypeOK
<1>6. WaitsOwned'
  BY <1>1, <1>3, <1>4, <1>5, <1>s DEF WaitInv, WaitsOwned, Waiting
<1>7. CancelWaitIsForKnownOrder' /\ WaitHasRecord'
  BY <1>1, <1>4, <1>5, <1>f
  DEF WaitInv, Waiting, CancelWaitIsForKnownOrder, WaitHasRecord
<1> QED BY <1>6, <1>7 DEF WaitInv

\* Nothing is waited for at the start.
LEMMA WaitInit == Init => WaitInv
  BY DEF Init, WaitInv, WaitsOwned, Waiting, CancelWaitIsForKnownOrder, WaitHasRecord

\* The inductive invariant of the waits.
THEOREM WaitInvariant == Spec => []WaitInv
<1>1. Init => WaitInv
  BY WaitInit
<1>2. TypeOK /\ IndexInv /\ WaitInv /\ [Next]_vars => WaitInv'
  <2> SUFFICES ASSUME TypeOK, IndexInv, WaitInv, [Next]_vars PROVE WaitInv'
    OBVIOUS
  <2>1. CASE OwnExecution \/ ForeignExecution
    BY <2>1, ReportIsGenuine, ExecutionKeepsWaits
  <2>2. CASE SomeReply
    BY <2>2, ReplyIsGenuine, ReplyKeepsWaits
  <2>3. CASE Feed
    BY <2>3, WaitsUnchanged
    DEF Feed, OnListenerStatus, OnPosition, OnProductInfo, OnOrderbook, orderVars, waitVars
  <2>4. CASE Decision
    BY <2>4, ClearKeepsWaits, DecisionKeepsWaits DEF Decision
  <2>5. CASE Shutdown
    <3>1. ASSUME NEW ph, GoTo(ph) PROVE WaitInv'
      BY <3>1, WaitsUnchanged DEF GoTo, orderVars, waitVars
    <3>2. ASSUME NEW p \in Product, SkipMarketFlatten(p) PROVE WaitInv'
      BY <3>2, WaitsUnchanged DEF SkipMarketFlatten, orderVars, waitVars
    <3> QED BY <2>5, <3>1, <3>2, CancelRoundKeepsWaits, CrossingKeepsWaits
            DEF Shutdown, BeginShutdown, AllOrdersCancelled, GaveUpCancelling, LeaveCancel,
                EndPassiveFlatten, MarketFlattenSent, EndMarketFlatten
  <2>6. CASE \E p \in Product : TimePasses(p)
    BY <2>6, WaitsUnchanged DEF TimePasses, orderVars
  <2>7. CASE UNCHANGED vars
    BY <2>7, WaitsUnchanged DEF vars, orderVars, waitVars
  <2> QED BY <2>1, <2>2, <2>3, <2>4, <2>5, <2>6, <2>7 DEF Next
<1> QED BY <1>1, <1>2, TypeCorrect, IndexInvariant, PTL DEF Spec

\* A reply is told apart by the set its cid waits in, and that is sound to do: a
\* cancel is waited for only on a known, numbered order, never on one whose
\* place is still unanswered.
THEOREM CancelsAreForKnownOrders == Spec => []CancelWaitIsForKnownOrder
<1>1. WaitInv => CancelWaitIsForKnownOrder
  BY DEF WaitInv
<1> QED BY <1>1, WaitInvariant, PTL

\* Every request waited for still has the record its order_record row is
\* written from, with the kind it was sent as.
THEOREM WaitsHaveRecords == Spec => []WaitHasRecord
<1>1. WaitInv => WaitHasRecord
  BY DEF WaitInv
<1> QED BY <1>1, WaitInvariant, PTL

-----------------------------------------------------------------------------
(* What the messages in flight say.                                        *)

RequestMsg ==
  [kind : {"place", "market", "cancel"}, product : Product, cid : Cid,
   order_no : OrderNo \cup {None}, lots : Nat, is_bid : BOOLEAN]

AnswerMsg ==
  [of : {"place", "market", "cancel"}, cid : Cid, success : BOOLEAN,
   order_gone : BOOLEAN, order_no : OrderNo \cup {None}]

FeedMsg ==
  [product : Product, order_no : OrderNo \cup {None}, client_order_id : Cid \cup {None},
   kind : {"position", "canceled", "new", "fill"}, qty : Int, is_bid : BOOLEAN]

SysTypes ==
  /\ world \in World /\ session \in BOOLEAN
  /\ requests \in Seq(RequestMsg) /\ replies \in SUBSET AnswerMsg /\ feed \in Seq(FeedMsg)
  /\ working \in [OrderNo -> Working \cup {None}]
  /\ holding \in [Product -> Position]

\* Number o is the one order c has: the venue's for an order we placed, the one it
\* was adopted under, while it is known, for another.
Bears(c, o) ==
  /\ c <= last_cid
  /\ placed[c] # None => o = VenueNo[c]
  /\ placed[c] = None /\ cid_to_product[c] # None => o = cid_to_order_no[cid_to_product[c]][c]

RequestGenuine(q) ==
  /\ q.kind # "cancel" => placed[q.cid] = q.product /\ q.lots > 0
  /\ q.kind = "cancel" => q.order_no \in OrderNo /\ Bears(q.cid, q.order_no)

ReplyGenuine(r) ==
  /\ r.cid <= last_cid
  /\ r.of # "cancel" => placed[r.cid] # None
  /\ r.success => r.order_no \in OrderNo /\ Bears(r.cid, r.order_no)
  /\ ~r.success => r.order_no = None

\* m is a report on order c, one we placed.
OnOrder(m, c) ==
  /\ placed[c] = m.product /\ m.order_no = VenueNo[c]
  /\ m.client_order_id = IF EchoesCid THEN c ELSE None

ReportGenuine(m) ==
  \/ m.kind = "position" /\ m.qty \in Position /\ m.order_no = None
  \/ /\ m.kind # "position" /\ m.qty \in Nat /\ \E c \in Cid : OnOrder(m, c)
     /\ m.kind = "new" => m.qty > 0

WorkingGenuine(o) ==
  working[o] # None =>
    /\ o = VenueNo[working[o].cid] /\ placed[working[o].cid] = working[o].product
    /\ working[o].lots > 0

MessagesGenuine ==
  /\ \A i \in 1..Len(requests) : RequestGenuine(requests[i])
  /\ \A r \in replies : ReplyGenuine(r)
  /\ \A i \in 1..Len(feed) : ReportGenuine(feed[i])
  /\ \A o \in OrderNo : WorkingGenuine(o)

\* No other client's order is adopted here.
OursOnly ==
  \A p \in Product, c \in Cid : cid_to_order_no[p][c] \in Ours \cup {None}

\* Nothing moves the position while the market orders are sent.
CrossingUnflat == phase = "cross_send" => \A p \in crossing : position[p] # 0

\* What holds whatever goes wrong.
BaseInv ==
  /\ TypeOK /\ IndexInv /\ WaitInv
  /\ SysTypes /\ MessagesGenuine /\ OursOnly /\ CrossingUnflat

-----------------------------------------------------------------------------
(* Waits.                                                                  *)

About(m, kind, c) == m.kind = kind /\ m.order_no = VenueNo[c]

\* The report that an order is new is ahead of any that it is over.
Announced(c) ==
  /\ working[VenueNo[c]] # None => \E j \in 1..Len(feed) : About(feed[j], "new", c)
  /\ \A i \in 1..Len(feed) : About(feed[i], "canceled", c) =>
       \E j \in 1..(i - 1) : About(feed[j], "new", c)

\* What holds unless the feed loses a report.
WaitsEnd ==
  /\ EchoesCid => \A p \in Product, c \in Cid : c \in place_waiting[p] => Announced(c)
  /\ NoWaitOutlivesItsOrder

-----------------------------------------------------------------------------
(* Orders.                                                                 *)

\* Requests are answered in time, cancels obeyed, and the session stays up.
Sound == ~world.lateReplies /\ ~world.cancelMayFail /\ ~world.sessionDrops

OnWire(c) == \E i \in 1..Len(requests) : requests[i].kind # "cancel" /\ requests[i].cid = c

CancelOnWire(o) ==
  \E i \in 1..Len(requests) : requests[i].kind = "cancel" /\ requests[i].order_no = o

Reported(c) == \E i \in 1..Len(feed) : feed[i].order_no = VenueNo[c]

InTime == session /\ \A p \in Product : waiting_since[p] # "expired"

\* No order is on the wire twice.
SentOnce ==
  \A i, j \in 1..Len(requests) :
    requests[i].kind # "cancel" /\ requests[j].kind # "cancel"
      /\ requests[i].cid = requests[j].cid => i = j

\* Nothing has been heard of an order that is still on the wire.
Unheard(c) ==
  /\ c \in place_waiting[placed[c]] /\ cid_to_product[c] = placed[c]
  /\ working[VenueNo[c]] = None /\ ~Reported(c) /\ \A r \in replies : r.cid # c

WireUnheard ==
  \A i \in 1..Len(requests) : requests[i].kind # "cancel" =>
    /\ Unheard(requests[i].cid)
    /\ outstanding[requests[i].product][requests[i].cid] =
         IF requests[i].kind = "place" THEN requests[i].lots ELSE None

\* A cancel is on the wire only once its order's place has been answered or reported.
CancelAfterPlace ==
  \A i \in 1..Len(requests), p \in Product :
    requests[i].kind = "cancel" => requests[i].cid \notin place_waiting[p]

\* What a reply says has failed does not work at the venue, now or later.
RefusalTrue == \A r \in replies : ~r.success => working[VenueNo[r.cid]] = None

CanceledTrue ==
  \A i \in 1..Len(feed) : feed[i].kind = "canceled" => working[feed[i].order_no] = None

\* A cancel that is waited for is on the wire, or the order is over.
CancelPending ==
  \A p \in Product, c \in Cid :
    c \in cancel_waiting[p] /\ working[VenueNo[c]] # None => CancelOnWire(VenueNo[c])

\* An outstanding order can be cancelled unless its place is unanswered.
NumberedUnlessWaiting ==
  \A p \in Product, c \in Cid :
    outstanding[p][c] # None /\ c \notin place_waiting[p] => cid_to_order_no[p][c] # None

FillLots(m, c) == IF About(m, "fill", c) THEN m.qty ELSE 0

\* How many of n lots are left after each of the reports f: never fewer than w.
Covers(f, w, c, n) ==
  \E left \in [0..Len(f) -> Nat] :
    /\ left[0] <= n
    /\ \A i \in 1..Len(f) : left[i] + FillLots(f[i], c) <= left[i - 1]
    /\ \A i \in 0..Len(f) : w <= left[i]

\* No working order is lost: it is being cancelled, or on the trader's book.
Covered ==
  \A c \in Cid : working[VenueNo[c]] # None =>
    \/ CancelOnWire(VenueNo[c])
    \/ /\ outstanding[placed[c]][c] # None
       /\ Covers(feed, working[VenueNo[c]].lots, c, outstanding[placed[c]][c])

DoneEmpty == phase = "done" => NoOrdersOutstanding

\* A strategy of one quote: what works is cancelled ahead of any place of its product.
OneQuote ==
  world.singleQuote =>
    /\ \A o, n \in OrderNo :
         working[o] # None /\ working[n] # None /\ working[o].product = working[n].product => o = n
    /\ \A j \in 1..Len(requests) : requests[j].kind = "place" =>
         /\ \A i \in 1..Len(requests) :
              requests[i].kind = "place" /\ requests[i].product = requests[j].product => i = j
         /\ \A o \in OrderNo : working[o] # None /\ working[o].product = requests[j].product =>
              \E i \in 1..(j - 1) : requests[i].kind = "cancel" /\ requests[i].order_no = o

SoundInv ==
  /\ InTime /\ SentOnce /\ WireUnheard /\ CancelAfterPlace /\ RefusalTrue /\ CanceledTrue
  /\ CancelPending /\ NumberedUnlessWaiting /\ Covered /\ DoneEmpty /\ OneQuote

-----------------------------------------------------------------------------
(* The books.                                                              *)

\* A place that is waited for is on the wire, or its reply is on its way.
PlaceAnswered ==
  \A p \in Product, c \in Cid : c \in place_waiting[p] =>
    OnWire(c) \/ \E r \in replies : r.cid = c /\ r.of # "cancel"

Refused(c) == \E r \in replies : r.cid = c /\ r.of # "cancel" /\ ~r.success

\* Of an order that is refused nothing else is told.
RefusedUnheard ==
  \A r \in replies : r.of # "cancel" /\ ~r.success =>
    /\ r.cid \in place_waiting[placed[r.cid]] /\ ~Reported(r.cid)
    /\ \A s \in replies : s.cid = r.cid => s = r

\* Once a cancel is answered its order's place has been.
PlacedBeforeCanceled ==
  \A r \in replies, p \in Product : r.of = "cancel" => r.cid \notin place_waiting[p]

\* Only outstanding orders are being cancelled.
CancelOutstanding ==
  \A p \in Product, c \in Cid : c \in cancel_waiting[p] => outstanding[p][c] # None

\* No order is kept with nothing left of it.
LotsLeftOver == \A p \in Product, c \in Cid : outstanding[p][c] # 0

\* The first report on an order says that it is new.
NewFirst ==
  \A i \in 1..Len(feed) : feed[i].kind = "new" =>
    \A j \in 1..(i - 1) : feed[j].order_no # feed[i].order_no

\* The trader has order c on its book, under its own id or an adopted one.
Tracks(p, x, c) ==
  outstanding[p][x] # None /\ (x = c \/ cid_to_order_no[p][x] = VenueNo[c])

Announces(f, c) == \E i \in 1..Len(f) : About(f[i], "new", c)

\* The venue has answered the place, and the trader has the order on its book or
\* is about to.
Due(c) ==
  /\ ~OnWire(c) /\ ~Refused(c)
  /\ \/ \E p \in Product, x \in Cid : Tracks(p, x, c)
     \/ cid_to_product[c] = None /\ Announces(feed, c)

\* left is what is left of the order after each of the reports f; w is the order at
\* the venue, None when it is over.
Accounts(f, w, c, left) ==
  /\ \A i \in 1..Len(f) : left[i] + FillLots(f[i], c) = left[i - 1]
  /\ \A i \in 1..Len(f) : About(f[i], "new", c) => left[i] = f[i].qty
  /\ w # None => left[Len(f)] = w.lots

Over(f, c, left) ==
  left[Len(f)] = 0 \/ \E i \in 1..Len(f) : About(f[i], "canceled", c)

Accounted(c) ==
  \E left \in [0..Len(feed) -> Nat] :
    /\ Accounts(feed, working[VenueNo[c]], c, left)
    /\ \A p \in Product, x \in Cid : Tracks(p, x, c) => outstanding[p][x] = left[0]
    /\ Due(c) => working[VenueNo[c]] # None \/ Over(feed, c, left)

OrdersAccounted == \A c \in Cid : placed[c] # None => Accounted(c)

BooksInv ==
  /\ PlaceAnswered /\ RefusedUnheard /\ PlacedBeforeCanceled /\ CancelOutstanding
  /\ LotsLeftOver /\ NewFirst /\ OrdersAccounted

-----------------------------------------------------------------------------
(* Sequences.                                                              *)

\* What is left when the head is taken.
LEMMA TailFacts ==
  ASSUME NEW S, NEW s \in Seq(S), s # <<>>
  PROVE  /\ Len(s) \in Nat /\ Len(s) >= 1 /\ Head(s) = s[1] /\ s[1] \in S
         /\ Tail(s) \in Seq(S) /\ Len(Tail(s)) = Len(s) - 1
         /\ \A i \in 1..(Len(s) - 1) : Tail(s)[i] = s[i + 1]
<1>1. Len(s) \in Nat \ {0}
  BY EmptySeq
<1>2. /\ Head(s) \in S /\ Tail(s) \in Seq(S) /\ Len(Tail(s)) = Len(s) - 1
      /\ \A i \in 1..Len(Tail(s)) : Tail(s)[i] = s[i + 1]
  BY HeadTailProperties
<1>3. Head(s) = s[1] /\ s[1] \in S
  <2>1. 1 \in 1..Len(s)
    BY <1>1
  <2>2. s[1] \in S
    BY <2>1, ElementOfSeq
  <2> QED BY <2>2
<1> QED BY <1>1, <1>2, <1>3

\* What there is when more is sent.
LEMMA ConcatFacts ==
  ASSUME NEW S, NEW s \in Seq(S), NEW t \in Seq(S)
  PROVE  /\ s \o t \in Seq(S) /\ Len(s) \in Nat /\ Len(t) \in Nat
         /\ Len(s \o t) = Len(s) + Len(t)
         /\ \A i \in 1..Len(s) : (s \o t)[i] = s[i]
         /\ \A i \in 1..Len(t) : (s \o t)[Len(s) + i] = t[i]
         /\ \A k \in 1..Len(s \o t) :
              \/ k \in 1..Len(s) /\ (s \o t)[k] = s[k]
              \/ \E i \in 1..Len(t) : k = Len(s) + i /\ (s \o t)[k] = t[i]
<1>1. Len(s) \in Nat /\ Len(t) \in Nat
  BY LenProperties
<1>2. /\ s \o t \in Seq(S)
      /\ Len(s \o t) = Len(s) + Len(t)
      /\ \A i \in 1 .. Len(s) + Len(t) : (s \o t)[i] =
                     IF i <= Len(s) THEN s[i] ELSE t[i - Len(s)]
  BY ConcatProperties
<1>3. \A i \in 1..Len(s) : (s \o t)[i] = s[i]
  BY <1>1, <1>2
<1>4. \A i \in 1..Len(t) : (s \o t)[Len(s) + i] = t[i]
  <2> SUFFICES ASSUME NEW i \in 1..Len(t) PROVE (s \o t)[Len(s) + i] = t[i]
    OBVIOUS
  <2>1. Len(s) + i \in 1..(Len(s) + Len(t)) /\ ~(Len(s) + i <= Len(s)) /\ (Len(s) + i) - Len(s) = i
    BY <1>1
  <2> QED BY <1>2, <2>1
<1>5. ASSUME NEW k \in 1..Len(s \o t), k \notin 1..Len(s)
      PROVE  \E i \in 1..Len(t) : k = Len(s) + i /\ (s \o t)[k] = t[i]
  <2>1. k - Len(s) \in 1..Len(t) /\ k = Len(s) + (k - Len(s))
    BY <1>1, <1>2, <1>5
  <2> QED BY <1>4, <2>1
<1> QED BY <1>1, <1>2, <1>3, <1>4, <1>5

\* One more at the end.
LEMMA AppendFacts ==
  ASSUME NEW S, NEW s \in Seq(S), NEW x \in S
  PROVE  /\ Append(s, x) \in Seq(S) /\ Len(s) \in Nat /\ Len(Append(s, x)) = Len(s) + 1
         /\ \A i \in 1..Len(s) : Append(s, x)[i] = s[i]
         /\ Append(s, x)[Len(s) + 1] = x
  BY AppendProperties, LenProperties

\* A sequence given element by element.
LEMMA SeqOfFun ==
  ASSUME NEW n \in Nat, NEW S, NEW f \in [1..n -> S]
  PROVE  f \in Seq(S) /\ Len(f) = n /\ DOMAIN f = 1..n
<1>1. \A i \in 1..n : f[i] \in S
  OBVIOUS
<1>2. f \in Seq(S)
  OBVIOUS
<1>3. DOMAIN f = 1..n
  OBVIOUS
<1>4. DOMAIN f = 1..Len(f) /\ Len(f) \in Nat
  BY <1>2, LenProperties
<1> QED BY <1>2, <1>3, <1>4

-----------------------------------------------------------------------------
(* What a handler does, order by order.                                    *)

\* No order but t, of product p, is touched.
Only(p, t) ==
  /\ \A q \in Product, a \in Cid : q # p \/ a # t =>
       /\ outstanding'[q][a] = outstanding[q][a]
       /\ cid_to_order_no'[q][a] = cid_to_order_no[q][a]
       /\ a \in place_waiting'[q] <=> a \in place_waiting[q]
       /\ a \in cancel_waiting'[q] <=> a \in cancel_waiting[q]
  /\ \A a \in Cid : a # t => cid_to_product'[a] = cid_to_product[a]

\* None is.
Untouched ==
  UNCHANGED <<outstanding, cid_to_order_no, cid_to_product, place_waiting, cancel_waiting>>

Forgotten(p, t) ==
  outstanding'[p][t] = None /\ cid_to_order_no'[p][t] = None /\ cid_to_product'[t] = None

Kept(p, t) ==
  /\ outstanding'[p][t] = outstanding[p][t] /\ cid_to_product'[t] = cid_to_product[t]
  /\ cid_to_order_no'[p][t] = cid_to_order_no[p][t]

Bound(p, t, o) ==
  /\ outstanding'[p][t] = outstanding[p][t] /\ cid_to_product'[t] = cid_to_product[t]
  /\ cid_to_order_no'[p][t] = o

\* Neither the order book nor the waits of another order are touched by forgetting one.
LEMMA ForgetEffect ==
  ASSUME TypeOK, NEW p \in Product, NEW t \in Cid, NEW S, NEW T,
         S \subseteq {t}, T \subseteq {t}, ForgetOrder(p, t), EraseWaiting(p, S, T)
  PROVE  /\ Only(p, t) /\ Forgotten(p, t)
         /\ t \in place_waiting'[p] <=> t \in place_waiting[p] /\ t \notin S
         /\ t \in cancel_waiting'[p] <=> t \in cancel_waiting[p] /\ t \notin T
  BY DEF TypeOK, ForgetOrder, EraseWaiting, Only, Forgotten

\* Nor by binding it to a number.
LEMMA BindEffect ==
  ASSUME TypeOK, NEW p \in Product, NEW t \in Cid, NEW S, NEW T, NEW o \in OrderNo,
         S \subseteq {t}, T \subseteq {t}, BindOrderNo(p, t, o), EraseWaiting(p, S, T),
         UNCHANGED <<outstanding, cid_to_product>>
  PROVE  /\ Only(p, t) /\ Bound(p, t, o)
         /\ t \in place_waiting'[p] <=> t \in place_waiting[p] /\ t \notin S
         /\ t \in cancel_waiting'[p] <=> t \in cancel_waiting[p] /\ t \notin T
  BY DEF TypeOK, BindOrderNo, EraseWaiting, Only, Bound

\* Nor by ending the wait for it.
LEMMA EraseEffect ==
  ASSUME TypeOK, NEW p \in Product, NEW t \in Cid, NEW S, NEW T,
         S \subseteq {t}, T \subseteq {t}, EraseWaiting(p, S, T),
         UNCHANGED orderVars
  PROVE  /\ Only(p, t) /\ Kept(p, t)
         /\ t \in place_waiting'[p] <=> t \in place_waiting[p] /\ t \notin S
         /\ t \in cancel_waiting'[p] <=> t \in cancel_waiting[p] /\ t \notin T
  BY DEF TypeOK, orderVars, EraseWaiting, Only, Kept

\* A clock that has not run out does not run out by ending a wait.
LEMMA EraseInTime ==
  ASSUME TypeOK, NEW p \in Product, NEW S, NEW T, EraseWaiting(p, S, T)
  PROVE  \A q \in Product : waiting_since'[q] = "expired" => waiting_since[q] = "expired"
  BY DEF TypeOK, EraseWaiting

\* What on_order_response does, whichever request it takes the reply for.
LEMMA ReplyEffect ==
  ASSUME TypeOK, NEW r \in AnswerMsg, OnOrderResponse(r), ~r.success => r.order_no = None,
         r.success => r.order_no \in OrderNo,
         NEW p, p = cid_to_product[r.cid], NEW c, c = r.cid
  PROVE  /\ c \in Cid /\ p \in Product \cup {None}
         /\ UNCHANGED <<last_cid, placed, position, phase, crossing>>
         /\ \A q \in Product : waiting_since'[q] = "expired" => waiting_since[q] = "expired"
         /\ \/ p = None /\ Untouched
            \/ /\ p \in Product /\ Only(p, c)
               /\ c \notin place_waiting'[p] /\ c \notin cancel_waiting'[p]
               /\ \/ c \in cancel_waiting[p] /\ (r.success \/ r.order_gone) /\ Forgotten(p, c)
                  \/ c \in cancel_waiting[p] /\ ~r.success /\ ~r.order_gone /\ Kept(p, c)
                  \/ c \notin cancel_waiting[p] /\ r.success /\ Bound(p, c, r.order_no)
                  \/ /\ c \notin cancel_waiting[p] /\ ~r.success /\ c \in place_waiting[p]
                     /\ Forgotten(p, c)
                  \/ /\ c \notin cancel_waiting[p] /\ ~r.success /\ c \notin place_waiting[p]
                     /\ Kept(p, c)
<1>0. c \in Cid /\ p \in Product \cup {None} /\ r.success \in BOOLEAN /\ {c} \subseteq {c}
  BY DEF AnswerMsg, TypeOK
<1>1. UNCHANGED <<last_cid, placed, position, phase, crossing>>
  BY DEF OnOrderResponse, controlVars
<1>2. CASE ReplyUnknown(r)
  BY <1>0, <1>1, <1>2 DEF ReplyUnknown, Untouched, orderVars, waitVars
<1>3. CASE CancelReply(r)
  <2>1. p \in Product /\ c \in cancel_waiting[p] /\ EraseWaiting(p, {c}, {c})
    BY <1>0, <1>3 DEF CancelReply
  <2>2. \A q \in Product : waiting_since'[q] = "expired" => waiting_since[q] = "expired"
    BY <2>1, EraseInTime
  <2>3. CASE r.success \/ r.order_gone
    <3>1. ForgetOrder(p, c)
      BY <1>3, <2>3 DEF CancelReply
    <3> QED BY <1>0, <1>1, <2>1, <2>2, <2>3, <3>1, ForgetEffect
  <2>4. CASE ~(r.success \/ r.order_gone)
    <3>1. UNCHANGED orderVars
      BY <1>3, <2>4 DEF CancelReply
    <3> QED BY <1>0, <1>1, <2>1, <2>2, <2>4, <3>1, EraseEffect
  <2> QED BY <2>3, <2>4
<1>4. CASE PlaceReply(r)
  <2>1. p \in Product /\ c \notin cancel_waiting[p] /\ EraseWaiting(p, {c}, {c})
    BY <1>0, <1>4 DEF PlaceReply
  <2>2. \A q \in Product : waiting_since'[q] = "expired" => waiting_since[q] = "expired"
    BY <2>1, EraseInTime
  <2>3. CASE r.success
    <3>1. r.order_no \in OrderNo /\ r.order_no # None
      BY <2>3, NoneAssumption
    <3>2. BindOrderNo(p, c, r.order_no) /\ UNCHANGED <<outstanding, cid_to_product>>
      BY <1>4, <2>3, <3>1 DEF PlaceReply
    <3> QED BY <1>0, <1>1, <2>1, <2>2, <2>3, <3>1, <3>2, BindEffect
  <2>4. CASE ~r.success /\ c \in place_waiting[p]
    <3>1. ForgetOrder(p, c)
      BY <1>4, <2>4 DEF PlaceReply
    <3> QED BY <1>0, <1>1, <2>1, <2>2, <2>4, <3>1, ForgetEffect
  <2>5. CASE ~r.success /\ c \notin place_waiting[p]
    <3>1. UNCHANGED orderVars
      BY <1>4, <2>5 DEF PlaceReply
    <3> QED BY <1>0, <1>1, <2>1, <2>2, <2>5, <3>1, EraseEffect
  <2> QED BY <2>3, <2>4, <2>5
<1> QED BY <1>2, <1>3, <1>4 DEF OnOrderResponse

\* A report on the feed is one that on_execution is proved for.
LEMMA OwnReportGenuine ==
  ASSUME TypeOK, NEW m \in FeedMsg, ReportGenuine(m), m.kind # "position"
  PROVE  Genuine(m) /\ m \in ExecutionMsg
<1>1. PICK c \in Cid : OnOrder(m, c)
  BY DEF ReportGenuine
<1>2. m.order_no \in OrderNo /\ m.qty \in Nat
  BY <1>1, VenueAssumption DEF OnOrder, ReportGenuine
<1>3. m \in ExecutionMsg
  BY <1>2 DEF FeedMsg, ExecutionMsg
<1> QED BY <1>1, <1>3 DEF Genuine, OnOrder

\* An order of another client's number, or one forgotten, is entered under a new cid.
Adopted(p, o, n) ==
  LET x == last_cid + 1
  IN  /\ x \in Cid /\ last_cid' = x
      /\ \A a \in Cid : cid_to_product'[a] = IF a = x THEN p ELSE cid_to_product[a]
      /\ \A q \in Product, a \in Cid :
           /\ outstanding'[q][a] = IF q = p /\ a = x THEN n ELSE outstanding[q][a]
           /\ cid_to_order_no'[q][a] = IF q = p /\ a = x THEN o ELSE cid_to_order_no[q][a]
      /\ UNCHANGED <<place_waiting, cancel_waiting>>

\* What on_execution does with a report on order c, which it takes to be on t.
LEMMA ReportEffect ==
  ASSUME TypeOK, IndexInv, NEW m \in FeedMsg, ReportGenuine(m), m.kind # "position",
         NEW c \in Cid, m.order_no = VenueNo[c], OnExecution(m),
         NEW t, t = TargetCid(m), NEW p, p = TargetProduct(m)
  PROVE  /\ p \in Product /\ t \in Cid \cup {None} /\ OnOrder(m, c)
         /\ UNCHANGED <<placed, phase, crossing>> /\ phase # "cross_send" /\ phase # "done"
         /\ \A q \in Product : waiting_since'[q] = "expired" => waiting_since[q] = "expired"
         /\ t # None => /\ cid_to_product[t] = p
                        /\ cid_to_order_no[p][t] = VenueNo[c] \/ (EchoesCid /\ t = c)
         /\ \/ /\ t # None /\ m.kind = "canceled" /\ last_cid' = last_cid
               /\ Only(p, t) /\ Forgotten(p, t)
               /\ t \notin cancel_waiting'[p] /\ (t \in place_waiting'[p] <=> t \in place_waiting[p])
            \/ /\ t # None /\ m.kind = "new" /\ last_cid' = last_cid
               /\ Only(p, t) /\ Bound(p, t, VenueNo[c])
               /\ t \notin place_waiting'[p] /\ (t \in cancel_waiting'[p] <=> t \in cancel_waiting[p])
            \/ t = None /\ m.kind = "new" /\ Adopted(p, VenueNo[c], m.qty)
            \/ /\ t # None /\ m.kind = "fill" /\ last_cid' = last_cid
               /\ LotsLeft(p, t, m) <= 0 /\ Only(p, t) /\ Forgotten(p, t)
               /\ t \notin cancel_waiting'[p] /\ t \notin place_waiting'[p]
            \/ /\ t # None /\ m.kind = "fill" /\ last_cid' = last_cid
               /\ outstanding[p][t] \in Nat /\ outstanding[p][t] > m.qty
               /\ \A q \in Product, a \in Cid : outstanding'[q][a] =
                    IF q = p /\ a = t THEN outstanding[p][t] - m.qty ELSE outstanding[q][a]
               /\ UNCHANGED <<cid_to_order_no, cid_to_product, place_waiting, cancel_waiting>>
            \/ t = None /\ m.kind \in {"fill", "canceled"} /\ Untouched /\ last_cid' = last_cid
<1>0. /\ p \in Product /\ t \in Cid \cup {None} /\ m.order_no \in OrderNo /\ m.qty \in Nat
      /\ Genuine(m) /\ m \in ExecutionMsg /\ None \notin Cid
      /\ m.kind \in {"canceled", "new", "fill"}
  BY OwnReportGenuine, TargetType, VenueAssumption, NoneAssumption DEF ReportGenuine, Cid, FeedMsg
<1>c. OnOrder(m, c)
  <2>1. PICK d \in Cid : OnOrder(m, d)
    BY DEF ReportGenuine
  <2> QED BY <2>1, VenueAssumption DEF OnOrder
<1>1. UNCHANGED <<placed, phase, crossing>> /\ phase # "cross_send" /\ phase # "done"
  <2>1. placed' = placed
    BY DEF OnExecution, ExecRejected, ExecCanceled, ExecNew, ExecAdopt, ExecFill, ExecIgnored
  <2>2. UNCHANGED <<phase, crossing>>
    BY DEF OnExecution, controlVars
  <2>3. phase # "cross_send" /\ phase # "done"
    BY DEF OnExecution, Pumping, CancelPhases
  <2> QED BY <2>1, <2>2, <2>3
<1>2. t # None => /\ cid_to_product[t] = p
                  /\ cid_to_order_no[p][t] = VenueNo[c] \/ (EchoesCid /\ t = c)
  <2> SUFFICES ASSUME t # None
               PROVE  /\ cid_to_product[t] = p
                      /\ cid_to_order_no[p][t] = VenueNo[c] \/ (EchoesCid /\ t = c)
    OBVIOUS
  <2>1. cid_to_product[t] = p
    BY <1>0, ReportKnown
  <2>2. CASE HaveCid(m)
    BY <1>c, <2>1, <2>2 DEF TargetCid, OnOrder, HaveCid
  <2>3. CASE ~HaveCid(m)
    <3>1. t = order_no_to_cid[p][m.order_no]
      BY <2>3 DEF TargetCid
    <3> QED BY <1>0, <2>1, <3>1 DEF IndexInv, RoutingConsistent
  <2> QED BY <2>2, <2>3
<1>3. CASE ExecCanceled(m)
  <2>1. t # None /\ t \in Cid /\ m.kind = "canceled" /\ EraseWaiting(p, {}, {t}) /\ ForgetOrder(p, t)
        /\ last_cid' = last_cid /\ {} \subseteq {t} /\ {t} \subseteq {t}
    BY <1>0, <1>3 DEF ExecCanceled
  <2> QED BY <1>0, <1>1, <1>2, <1>c, <2>1, ForgetEffect, EraseInTime
<1>4. CASE ExecNew(m)
  <2>1. t # None /\ t \in Cid /\ m.kind = "new" /\ EraseWaiting(p, {t}, {})
        /\ BindOrderNo(p, t, m.order_no) /\ UNCHANGED <<outstanding, cid_to_product>>
        /\ last_cid' = last_cid /\ {} \subseteq {t} /\ {t} \subseteq {t}
    BY <1>0, <1>4 DEF ExecNew
  <2> QED BY <1>0, <1>1, <1>2, <1>c, <2>1, BindEffect, EraseInTime
<1>5. CASE ExecAdopt(m)
  <2>1. t = None /\ m.kind = "new"
    BY <1>5 DEF ExecAdopt
  <2>2. Adopted(p, VenueNo[c], m.qty)
    BY <1>0, <1>5 DEF ExecAdopt, Adopted, BindOrderNo, waitVars, TypeOK
  <2>3. waiting_since' = waiting_since
    BY <1>5 DEF ExecAdopt, waitVars
  <2> QED BY <1>0, <1>1, <1>2, <1>c, <2>1, <2>2, <2>3
<1>6. CASE ExecFill(m)
  <2>0. m.kind = "fill" /\ last_cid' = last_cid
    BY <1>6 DEF ExecFill
  <2>1. CASE t = None
    <3>1. Untouched /\ waiting_since' = waiting_since
      BY <1>6, <2>1 DEF ExecFill, orderVars, waitVars, Untouched
    <3> QED BY <1>0, <1>1, <1>2, <1>c, <2>0, <2>1, <3>1
  <2>2. CASE t # None
    <3>1. t \in Cid /\ FillOrder(p, t, m) /\ {t} \subseteq {t}
      BY <1>0, <1>6, <2>2 DEF ExecFill
    <3>2. CASE LotsLeft(p, t, m) <= 0
      <4>1. EraseWaiting(p, {t}, {t}) /\ ForgetOrder(p, t)
        BY <3>1, <3>2 DEF FillOrder
      <4> QED BY <1>0, <1>1, <1>2, <1>c, <2>0, <2>2, <3>1, <3>2, <4>1, ForgetEffect, EraseInTime
    <3>3. CASE ~(LotsLeft(p, t, m) <= 0)
      <4>1. outstanding[p][t] \in Nat \cup {None}
        BY <1>0, <3>1 DEF TypeOK
      <4>2. outstanding[p][t] \in Nat /\ outstanding[p][t] > m.qty
            /\ LotsLeft(p, t, m) = outstanding[p][t] - m.qty
        BY <1>0, <3>3, <4>1, NoneAssumption DEF LotsLeft
      <4>3. /\ outstanding' = [outstanding EXCEPT ![p][t] = outstanding[p][t] - m.qty]
            /\ UNCHANGED <<cid_to_order_no, cid_to_product, place_waiting, cancel_waiting,
                           waiting_since>>
        BY <3>1, <3>3, <4>2 DEF FillOrder, waitVars
      <4>4. \A q \in Product, a \in Cid : outstanding'[q][a] =
                    IF q = p /\ a = t THEN outstanding[p][t] - m.qty ELSE outstanding[q][a]
        BY <1>0, <3>1, <4>3 DEF TypeOK
      <4> QED BY <1>0, <1>1, <1>2, <1>c, <2>0, <2>2, <4>2, <4>3, <4>4
    <3> QED BY <3>2, <3>3
  <2> QED BY <2>1, <2>2
<1>7. CASE ExecIgnored(m)
  <2>1. t = None /\ m.kind = "canceled" /\ Untouched /\ last_cid' = last_cid
        /\ waiting_since' = waiting_since
    BY <1>0, <1>7 DEF ExecIgnored, orderVars, waitVars, Untouched
  <2> QED BY <1>0, <1>1, <1>2, <1>c, <2>1
<1> QED BY <1>0, <1>3, <1>4, <1>5, <1>6, <1>7 DEF OnExecution, ExecRejected

-----------------------------------------------------------------------------
(* What is put on the wire.                                                *)

\* An enumeration of a finite set reaches every element.
LEMMA EnumerationFacts ==
  ASSUME NEW S, IsFiniteSet(S), NEW s \in SetToSeqs(S)
  PROVE  /\ Cardinality(S) \in Nat /\ s \in [1..Cardinality(S) -> S]
         /\ \A x \in S : \E i \in 1..Cardinality(S) : s[i] = x
         /\ \A i, j \in 1..Cardinality(S) : s[i] = s[j] => i = j
<1> DEFINE n == Cardinality(S)
           D == 1..n
<1>1. n \in Nat
  BY FS_CardinalityType
<1>2. s \in [D -> S] /\ \A i, j \in D : i # j => s[i] # s[j]
  BY DEF SetToSeqs
<1>3. IsFiniteSet(D) /\ Cardinality(D) = n
  BY <1>1, FS_Interval
<1>4. s \in Injection(D, S)
  BY <1>2 DEF Injection, IsInjective
<1> HIDE DEF n, D
<1>5. s \in Surjection(D, S)
  BY <1>3, <1>4, FS_Injection DEF n
<1> QED BY <1>1, <1>2, <1>5 DEF Surjection, D, n

\* There is one in ascending order of a set of ids: the id of rank i comes i-th.
LEMMA InOrderExists ==
  ASSUME NEW S, S \subseteq Cid
  PROVE  /\ IsFiniteSet(S)
         /\ \E ids \in SetToSeqs(S) : \A i, j \in DOMAIN ids : i < j => ids[i] < ids[j]
<1> DEFINE n == Cardinality(S)
           D == 1..n
           below(c) == {d \in S : d <= c}
           rank == [c \in S |-> Cardinality(below(c))]
<1>0. \A c \in S : c \in Int
  BY BoundsAssumption DEF Cid
<1>1. IsFiniteSet(S) /\ n \in Nat
  <2>1. IsFiniteSet(Cid)
    BY BoundsAssumption, FS_Interval DEF Cid
  <2> QED BY <2>1, FS_Subset, FS_CardinalityType
<1>2. IsFiniteSet(D) /\ Cardinality(D) = n
  BY <1>1, FS_Interval
<1>3. \A c \in S : IsFiniteSet(below(c)) /\ Cardinality(below(c)) \in D
  <2> SUFFICES ASSUME NEW c \in S PROVE IsFiniteSet(below(c)) /\ Cardinality(below(c)) \in D
    OBVIOUS
  <2>1. below(c) \in SUBSET S /\ c \in below(c)
    BY <1>0
  <2> HIDE DEF below
  <2>2. IsFiniteSet(below(c)) /\ Cardinality(below(c)) <= n
    BY <1>1, <2>1, FS_Subset
  <2>3. Cardinality(below(c)) \in Nat /\ Cardinality(below(c)) # 0
    BY <2>1, <2>2, FS_CardinalityType, FS_EmptySet
  <2> QED BY <1>1, <2>2, <2>3
<1>4. ASSUME NEW c \in S, NEW d \in S, c < d PROVE Cardinality(below(c)) < Cardinality(below(d))
  <2>1. below(c) \in SUBSET below(d) /\ below(c) # below(d)
    <3>1. d \in below(d) /\ d \notin below(c)
      BY <1>0, <1>4
    <3>2. below(c) \in SUBSET below(d)
      BY <1>0, <1>4
    <3> QED BY <3>1, <3>2
  <2>2. IsFiniteSet(below(d)) /\ Cardinality(below(d)) \in Nat /\ Cardinality(below(c)) \in Nat
    BY <1>1, <1>3
  <2> HIDE DEF below
  <2>3. Cardinality(below(c)) <= Cardinality(below(d)) /\ Cardinality(below(c)) # Cardinality(below(d))
    BY <2>1, <2>2, FS_Subset
  <2> QED BY <2>2, <2>3
<1>5. rank \in [S -> D] /\ \A c \in S : rank[c] = Cardinality(below(c))
  BY <1>3
<1> HIDE DEF below
<1>6. \A c, d \in S : c < d => rank[c] < rank[d]
  BY <1>4, <1>5
<1> HIDE DEF rank
<1>7. \A c, d \in S : rank[c] \in Int /\ rank[d] \in Int /\ (rank[c] = rank[d] => c = d)
  BY <1>0, <1>1, <1>5, <1>6
<1>8. rank \in Injection(S, D)
  BY <1>5, <1>7 DEF Injection, IsInjective
<1> HIDE DEF D, n
<1>9. rank \in Surjection(S, D)
  BY <1>1, <1>2, <1>8, FS_Injection DEF n
<1>10. \A i \in D : \E c \in S : rank[c] = i
  BY <1>9 DEF Surjection
<1> DEFINE ids == [i \in D |-> CHOOSE c \in S : rank[c] = i]
<1>11. ids \in [D -> S] /\ \A i \in D : rank[ids[i]] = i
  BY <1>10
<1> HIDE DEF ids
<1>12. ids \in SetToSeqs(S)
  <2>1. \A i, j \in D : i # j => ids[i] # ids[j]
    BY <1>11
  <2> QED BY <1>11, <2>1 DEF SetToSeqs, D, n
<1>13. \A i, j \in D : i < j => ids[i] < ids[j]
  <2> SUFFICES ASSUME NEW i \in D, NEW j \in D, i < j, ~(ids[i] < ids[j]) PROVE FALSE
    OBVIOUS
  <2>1. ids[i] \in S /\ ids[j] \in S /\ rank[ids[i]] = i /\ rank[ids[j]] = j /\ i \in Int /\ j \in Int
    BY <1>1, <1>11 DEF D
  <2>2. ids[j] < ids[i] \/ ids[j] = ids[i]
    BY <1>0, <2>1
  <2> QED BY <1>6, <2>1, <2>2
<1>14. DOMAIN ids = D
  BY <1>11
<1> QED BY <1>1, <1>12, <1>13, <1>14

\* A set of ids put in order has each of them, and nothing else.
LEMMA InOrderFacts ==
  ASSUME NEW S, S \subseteq Cid
  PROVE  /\ Cardinality(S) \in Nat /\ InOrder(S) \in [1..Cardinality(S) -> S]
         /\ \A x \in S : \E i \in 1..Cardinality(S) : InOrder(S)[i] = x
<1>1. IsFiniteSet(S) /\ InOrder(S) \in SetToSeqs(S)
  BY InOrderExists DEF InOrder
<1> QED BY <1>1, EnumerationFacts

\* A cancel names the product, the id and the number it is bound to.
LEMMA CancelRequestFacts ==
  ASSUME TypeOK, NEW p \in Product, NEW c \in Cid
  PROVE  /\ CancelRequest(p, c) \in RequestMsg
         /\ CancelRequest(p, c).kind = "cancel" /\ CancelRequest(p, c).cid = c
         /\ CancelRequest(p, c).product = p
         /\ CancelRequest(p, c).order_no = cid_to_order_no[p][c]
<1>1. cid_to_order_no[p][c] \in OrderNo \cup {None}
  BY DEF TypeOK
<1> QED BY <1>1 DEF CancelRequest, Request, RequestMsg

\* The cancels of a decision: one for each id, and no other.
LEMMA CancelRequestsFacts ==
  ASSUME TypeOK, NEW p \in Product, NEW cids, cids \subseteq Cid
  PROVE  /\ CancelRequests(p, cids) \in Seq(RequestMsg)
         /\ \A i \in 1..Len(CancelRequests(p, cids)) :
              \E c \in cids : CancelRequests(p, cids)[i] = CancelRequest(p, c)
         /\ \A c \in cids : \E i \in 1..Len(CancelRequests(p, cids)) :
              CancelRequests(p, cids)[i] = CancelRequest(p, c)
<1> DEFINE ids == InOrder(cids)
           n == Cardinality(cids)
           R == CancelRequests(p, cids)
<1>1. /\ n \in Nat /\ ids \in [1..n -> cids]
      /\ \A x \in cids : \E i \in 1..n : ids[i] = x
  BY InOrderFacts
<1>2. R = [i \in 1..n |-> CancelRequest(p, ids[i])]
  BY <1>1 DEF CancelRequests
<1> HIDE DEF ids, n, R
<1>3. R \in [1..n -> RequestMsg]
  BY <1>1, <1>2, CancelRequestFacts
<1>4. R \in Seq(RequestMsg) /\ Len(R) = n
  BY <1>1, <1>3, SeqOfFun
<1>5. \A i \in 1..n : R[i] = CancelRequest(p, ids[i]) /\ ids[i] \in cids
  BY <1>1, <1>2
<1> QED BY <1>1, <1>4, <1>5 DEF R

\* The places of a decision: one for each new id, and no other.
LEMMA PlaceRequestsFacts ==
  ASSUME TypeOK, NEW p \in Product, NEW lots \in Placements, NEW bids
  PROVE  LET R == PlaceRequests(p, lots, bids)
         IN  /\ R \in Seq(RequestMsg)
             /\ \A i \in 1..Len(R) :
                  /\ R[i].kind = "place" /\ R[i].product = p /\ R[i].cid = last_cid + i
                  /\ R[i].cid \in DOMAIN lots /\ R[i].lots = lots[R[i].cid] /\ R[i].lots > 0
             /\ \A c \in DOMAIN lots : \E i \in 1..Len(R) : R[i].cid = c
             /\ Len(R) = Cardinality(DOMAIN lots)
<1>1. PICK n \in {m \in 0..MaxPlaces : last_cid + m <= MaxCid} :
        lots \in [(last_cid + 1)..(last_cid + n) -> Qty]
  BY DEF Placements
<1>2. n \in Nat /\ last_cid \in Nat /\ last_cid + n <= MaxCid
  BY <1>1, BoundsAssumption DEF TypeOK
<1>3. DOMAIN lots = (last_cid + 1)..(last_cid + n)
  BY <1>1
<1>4. Cardinality(DOMAIN lots) = n
  BY <1>2, <1>3, FS_Interval
<1> DEFINE R == PlaceRequests(p, lots, bids)
           elem(i) == Request("place", p, last_cid + i, None, lots[last_cid + i], (last_cid + i) \in bids)
<1>5. R = [i \in 1..n |-> elem(i)]
  BY <1>4 DEF PlaceRequests
<1>6. \A i \in 1..n : /\ last_cid + i \in DOMAIN lots /\ last_cid + i \in Cid
                      /\ lots[last_cid + i] \in Nat /\ lots[last_cid + i] > 0
  BY <1>1, <1>2, <1>3, BoundsAssumption DEF Cid, Qty
<1>7. \A i \in 1..n : elem(i) \in RequestMsg
  BY <1>6 DEF Request, RequestMsg
<1>8. \A i \in 1..n : /\ elem(i).kind = "place" /\ elem(i).product = p /\ elem(i).cid = last_cid + i
                      /\ elem(i).lots = lots[last_cid + i]
  BY DEF Request
<1> HIDE DEF R, elem
<1>9. R \in [1..n -> RequestMsg]
  BY <1>5, <1>7
<1>10. R \in Seq(RequestMsg) /\ Len(R) = n
  BY <1>2, <1>9, SeqOfFun
<1>11. ASSUME NEW c \in DOMAIN lots PROVE \E i \in 1..n : R[i].cid = c
  <2>1. c - last_cid \in 1..n /\ last_cid + (c - last_cid) = c
    BY <1>2, <1>3
  <2> QED BY <1>5, <1>8, <2>1
<1>12. \A i \in 1..n :
         /\ R[i].kind = "place" /\ R[i].product = p /\ R[i].cid = last_cid + i
         /\ R[i].cid \in DOMAIN lots /\ R[i].lots = lots[R[i].cid] /\ R[i].lots > 0
  BY <1>5, <1>6, <1>8
<1> QED BY <1>4, <1>10, <1>11, <1>12 DEF R

\* What a decision puts on the wire: the cancels of the numbered orders it pulls,
\* and behind them its places.
IsDecision(R, p, sent, lots) ==
  /\ R \in Seq(RequestMsg)
  /\ \A i \in 1..Len(R) :
       \/ \E c \in sent : R[i] = CancelRequest(p, c)
       \/ /\ R[i].kind = "place" /\ R[i].product = p /\ R[i].cid \in DOMAIN lots
          /\ R[i].lots = lots[R[i].cid] /\ R[i].lots > 0
  /\ \A c \in sent : \E i \in 1..Len(R) : R[i] = CancelRequest(p, c)
  /\ \A c \in DOMAIN lots : \E i \in 1..Len(R) : R[i].kind = "place" /\ R[i].cid = c
  /\ \A i, j \in 1..Len(R) : R[i].kind = "place" /\ R[j].kind = "place" /\ R[i].cid = R[j].cid => i = j
  /\ \A i, j \in 1..Len(R) : R[i].kind = "cancel" /\ R[j].kind = "place" => i < j

\* The requests of a decision: a cancel per order pulled, then a place per new quote.
LEMMA DecisionFacts ==
  ASSUME TypeOK, NEW p \in Product, NEW cancels \in SUBSET Outstanding(p),
         NEW lots \in Placements, NEW bids
  PROVE  IsDecision(DecisionRequests(p, cancels, lots, bids), p,
                    {c \in cancels : cid_to_order_no[p][c] # None}, lots)
<1> DEFINE sent == {c \in cancels : cid_to_order_no[p][c] # None}
           A == CancelRequests(p, sent)
           B == PlaceRequests(p, lots, bids)
           R == DecisionRequests(p, cancels, lots, bids)
<1>0. sent \subseteq Cid /\ R = A \o B
  BY DEF Outstanding, DecisionRequests
<1>1. /\ A \in Seq(RequestMsg)
      /\ \A i \in 1..Len(A) : \E c \in sent : A[i] = CancelRequest(p, c)
      /\ \A c \in sent : \E i \in 1..Len(A) : A[i] = CancelRequest(p, c)
  BY <1>0, CancelRequestsFacts
<1>2. /\ B \in Seq(RequestMsg)
      /\ \A i \in 1..Len(B) :
           /\ B[i].kind = "place" /\ B[i].product = p /\ B[i].cid = last_cid + i
           /\ B[i].cid \in DOMAIN lots /\ B[i].lots = lots[B[i].cid] /\ B[i].lots > 0
      /\ \A c \in DOMAIN lots : \E i \in 1..Len(B) : B[i].cid = c
  BY PlaceRequestsFacts
<1> HIDE DEF A, B, R, sent
<1>3. /\ R \in Seq(RequestMsg) /\ Len(A) \in Nat /\ Len(B) \in Nat
      /\ Len(R) = Len(A) + Len(B)
      /\ \A i \in 1..Len(A) : R[i] = A[i]
      /\ \A i \in 1..Len(B) : R[Len(A) + i] = B[i]
      /\ \A k \in 1..Len(R) :
              \/ k \in 1..Len(A) /\ R[k] = A[k]
              \/ \E i \in 1..Len(B) : k = Len(A) + i /\ R[k] = B[i]
  BY <1>0, <1>1, <1>2, ConcatFacts
<1>4. \A c \in sent : CancelRequest(p, c).kind = "cancel"
  BY <1>0, CancelRequestFacts
<1>5. \A k \in 1..Len(R) : R[k].kind = "place" => \E i \in 1..Len(B) : k = Len(A) + i /\ R[k] = B[i]
  <2> SUFFICES ASSUME NEW k \in 1..Len(R), R[k].kind = "place", k \in 1..Len(A), R[k] = A[k]
               PROVE  FALSE
    BY <1>3
  <2>1. PICK c \in sent : A[k] = CancelRequest(p, c)
    BY <1>1
  <2> QED BY <1>4, <2>1
<1>6. \A k \in 1..Len(R) : R[k].kind = "cancel" => k \in 1..Len(A)
  BY <1>2, <1>3
<1>7. \A i \in 1..Len(A) : i \in 1..Len(R)
  BY <1>3
<1>8. \A i \in 1..Len(B) : Len(A) + i \in 1..Len(R)
  BY <1>3
<1>9. \A i \in 1..Len(R) :
       \/ \E c \in sent : R[i] = CancelRequest(p, c)
       \/ /\ R[i].kind = "place" /\ R[i].product = p /\ R[i].cid \in DOMAIN lots
          /\ R[i].lots = lots[R[i].cid] /\ R[i].lots > 0
  <2> TAKE k \in 1..Len(R)
  <2>1. CASE k \in 1..Len(A) /\ R[k] = A[k]
    BY <1>1, <2>1
  <2>2. ASSUME NEW i \in 1..Len(B), R[k] = B[i]
        PROVE  /\ R[k].kind = "place" /\ R[k].product = p /\ R[k].cid \in DOMAIN lots
               /\ R[k].lots = lots[R[k].cid] /\ R[k].lots > 0
    BY <1>2, <2>2
  <2> QED BY <1>3, <2>1, <2>2
<1>10. /\ \A c \in sent : \E i \in 1..Len(R) : R[i] = CancelRequest(p, c)
       /\ \A c \in DOMAIN lots : \E i \in 1..Len(R) : R[i].kind = "place" /\ R[i].cid = c
  <2>1. ASSUME NEW c \in sent PROVE \E i \in 1..Len(R) : R[i] = CancelRequest(p, c)
    <3>1. PICK i \in 1..Len(A) : A[i] = CancelRequest(p, c)
      BY <1>1
    <3> QED BY <1>3, <1>7, <3>1
  <2>2. ASSUME NEW c \in DOMAIN lots
        PROVE  \E i \in 1..Len(R) : R[i].kind = "place" /\ R[i].cid = c
    <3>1. PICK i \in 1..Len(B) : B[i].cid = c
      BY <1>2
    <3>2. B[i].kind = "place"
      BY <1>2
    <3>3. R[Len(A) + i] = B[i]
      BY <1>3
    <3>4. Len(A) + i \in 1..Len(R)
      BY <1>8
    <3> QED BY <3>1, <3>2, <3>3, <3>4
  <2> QED BY <2>1, <2>2
<1>11. \A i, j \in 1..Len(R) : R[i].kind = "place" /\ R[j].kind = "place" /\ R[i].cid = R[j].cid => i = j
  <2> SUFFICES ASSUME NEW i \in 1..Len(R), NEW j \in 1..Len(R), R[i].kind = "place",
                      R[j].kind = "place", R[i].cid = R[j].cid
               PROVE  i = j
    OBVIOUS
  <2>1. PICK a \in 1..Len(B) : i = Len(A) + a /\ R[i] = B[a]
    BY <1>5
  <2>2. PICK b \in 1..Len(B) : j = Len(A) + b /\ R[j] = B[b]
    BY <1>5
  <2>3. last_cid \in Int
    BY DEF TypeOK
  <2>4. last_cid + a = last_cid + b /\ a \in Int /\ b \in Int
    BY <1>2, <1>3, <2>1, <2>2
  <2> QED BY <1>3, <2>1, <2>2, <2>3, <2>4
<1>12. \A i, j \in 1..Len(R) : R[i].kind = "cancel" /\ R[j].kind = "place" => i < j
  <2> SUFFICES ASSUME NEW i \in 1..Len(R), NEW j \in 1..Len(R), R[i].kind = "cancel",
                      R[j].kind = "place"
               PROVE  i < j
    OBVIOUS
  <2>1. PICK b \in 1..Len(B) : j = Len(A) + b
    BY <1>5
  <2>2. i \in 1..Len(A)
    BY <1>6
  <2> QED BY <1>3, <2>1, <2>2
<1> QED BY <1>3, <1>9, <1>10, <1>11, <1>12 DEF IsDecision, R, sent

\* What a round of cancel_all_orders puts there: a cancel of every cancellable order.
IsCancelRound(R) ==
  /\ R \in Seq(RequestMsg)
  /\ \A i \in 1..Len(R) : \E p \in Product : \E c \in Cancellable(p) : R[i] = CancelRequest(p, c)
  /\ \A p \in Product : \A c \in Cancellable(p) : \E i \in 1..Len(R) : R[i] = CancelRequest(p, c)

\* A round of cancels has one for each order that can be cancelled, and nothing else.
LEMMA CancelRoundFacts ==
  ASSUME TypeOK, NEW todo \in SetToSeqs({pc \in Product \X Cid : pc[2] \in Cancellable(pc[1])})
  PROVE  IsCancelRound([i \in DOMAIN todo |-> CancelRequest(todo[i][1], todo[i][2])])
<1> DEFINE S == {pc \in Product \X Cid : pc[2] \in Cancellable(pc[1])}
           n == Cardinality(S)
           R == [i \in DOMAIN todo |-> CancelRequest(todo[i][1], todo[i][2])]
<1>1. IsFiniteSet(S)
  <2>1. IsFiniteSet(Cid) /\ IsFiniteSet(Product)
    BY BoundsAssumption, FS_Interval, SystemAssumption DEF Cid
  <2>2. IsFiniteSet(Product \X Cid) /\ S \in SUBSET (Product \X Cid)
    BY <2>1, FS_Product
  <2> QED BY <2>2, FS_Subset
<1>2. /\ n \in Nat /\ todo \in [1..n -> S]
      /\ \A x \in S : \E i \in 1..n : todo[i] = x
  <2>1. todo \in SetToSeqs(S)
    OBVIOUS
  <2> HIDE DEF S
  <2> QED BY <1>1, <2>1, EnumerationFacts
<1>3. \A x \in S : x[1] \in Product /\ x[2] \in Cid /\ x[2] \in Cancellable(x[1])
  OBVIOUS
<1>4. \A p \in Product : \A c \in Cancellable(p) : c \in Cid /\ <<p, c>> \in S
  BY DEF Cancellable, Outstanding
<1> HIDE DEF S, n
<1>5. R \in [1..n -> RequestMsg] /\ \A i \in 1..n : R[i] = CancelRequest(todo[i][1], todo[i][2])
  BY <1>2, <1>3, CancelRequestFacts
<1> HIDE DEF R
<1>6. R \in Seq(RequestMsg) /\ Len(R) = n
  BY <1>2, <1>5, SeqOfFun
<1>7. \A i \in 1..n : \E p \in Product : \E c \in Cancellable(p) : R[i] = CancelRequest(p, c)
  BY <1>2, <1>3, <1>5
<1>8. ASSUME NEW p \in Product, NEW c \in Cancellable(p)
      PROVE  \E i \in 1..n : R[i] = CancelRequest(p, c)
  <2>1. PICK i \in 1..n : todo[i] = <<p, c>>
    BY <1>2, <1>4
  <2>2. todo[i][1] = p /\ todo[i][2] = c
    BY <2>1
  <2> QED BY <1>5, <2>2
<1> QED BY <1>6, <1>7, <1>8 DEF IsCancelRound, R

-----------------------------------------------------------------------------
(* The steps that leave orders, waits and messages alone.                  *)

Idle ==
  /\ UNCHANGED <<last_cid, placed, pending, orderVars, place_waiting, cancel_waiting,
                 world, venueVars>>
  /\ session' \in {session, TRUE}
  /\ world.lateReplies \/ UNCHANGED waiting_since
  /\ phase' = "done" => phase = "done" \/ world.lateReplies \/ NoOrdersOutstanding

\* A step is one of those, or one of the handlers', the gateway's or the venue's.
LEMMA StepCases ==
  ASSUME BaseInv, [SysNext]_sysVars
  PROVE  \/ Idle /\ TypeOK' /\ CrossingUnflat'
         \/ TakeReply \/ TakeFeed \/ Decide \/ SendCancelRound
         \/ \E p \in Product : SendMarketFlatten(p)
         \/ VenueTakes \/ VenueFills \/ VenueExpires \/ SessionDown \/ FeedGap
<1> DEFINE Goal == Idle /\ TypeOK' /\ CrossingUnflat'
<1>t. TypeOK /\ CrossingUnflat
  BY DEF BaseInv
<1>v. ASSUME UNCHANGED <<vars, world, venueVars>>, session' \in {session, TRUE} PROVE Goal
  <2>1. UNCHANGED <<last_cid, placed, pending, orderVars, place_waiting, cancel_waiting,
                    waiting_since, phase, crossing, position, marketVars>>
    BY <1>v DEF vars, waitVars, controlVars
  <2>2. Idle
    BY <1>v, <2>1 DEF Idle
  <2>3. TypeOK'
    BY <1>t, <2>1 DEF TypeOK, orderVars, marketVars
  <2>4. CrossingUnflat'
    BY <1>t, <2>1 DEF CrossingUnflat
  <2> QED BY <2>2, <2>3, <2>4
<1>1. CASE StartUp
  <2>1. UNCHANGED <<last_cid, pending, placed, position, orderVars, waitVars, controlVars,
                    world, session, venueVars>>
    BY <1>1 DEF StartUp, OnListenerStatus, OnProductInfo, OnOrderbook
  <2>2. UNCHANGED <<waiting_since, place_waiting, cancel_waiting, phase, crossing>>
    BY <2>1 DEF waitVars, controlVars
  <2>3. Idle
    BY <2>1, <2>2 DEF Idle
  <2>4. CrossingUnflat'
    BY <1>t, <2>1, <2>2 DEF CrossingUnflat
  <2>5. TypeOK'
    BY <1>1, <1>t DEF StartUp, OnListenerStatus, OnProductInfo, OnOrderbook, TypeOK,
                      orderVars, waitVars, controlVars
  <2> QED BY <2>3, <2>4, <2>5
<1>2. CASE Stop \/ EndStage
  <2>1. Shutdown /\ UNCHANGED <<world, session, venueVars>>
    BY <1>2 DEF Stop, EndStage, Shutdown
  <2>2. TypeOK'
    BY <1>t, <2>1, ShutdownType
  <2>3. /\ UNCHANGED <<last_cid, pending, placed, position, orderVars, waitVars>>
        /\ phase' = "cross_send" => \/ phase = "cross_send" /\ crossing' \subseteq crossing
                                    \/ crossing' = Unflat
        /\ phase' = "done" => phase = "done" \/ world.lateReplies \/ NoOrdersOutstanding
    <3>1. CASE BeginShutdown
      BY <3>1 DEF BeginShutdown, GoTo
    <3>2. CASE AllOrdersCancelled \/ (GaveUpCancelling /\ world.lateReplies)
      <4>1. /\ GoTo(AfterCancel) /\ crossing' = (IF phase = "cross_cancel" THEN Unflat ELSE crossing)
            /\ phase \in CancelPhases /\ (NoOrdersOutstanding \/ world.lateReplies)
        BY <3>2 DEF AllOrdersCancelled, GaveUpCancelling, LeaveCancel
      <4>2. AfterCancel = "cross_send" => phase = "cross_cancel"
        BY <4>1 DEF AfterCancel, AfterFlatten, CancelPhases
      <4> QED BY <4>1, <4>2 DEF GoTo
    <3>3. CASE EndPassiveFlatten \/ MarketFlattenSent \/ EndMarketFlatten
      BY <3>3 DEF EndPassiveFlatten, MarketFlattenSent, EndMarketFlatten, GoTo, AfterFlatten
    <3>4. ASSUME NEW p \in Product, SkipMarketFlatten(p)
          PROVE  /\ UNCHANGED <<last_cid, pending, placed, position, orderVars, waitVars, phase>>
                 /\ phase = "cross_send" /\ crossing' \subseteq crossing
      BY <3>4 DEF SkipMarketFlatten
    <3> QED BY <1>2, <3>1, <3>2, <3>3, <3>4 DEF Stop, EndStage
  <2>4. Idle
    BY <2>1, <2>3 DEF Idle, waitVars
  <2>5. CrossingUnflat'
    BY <1>t, <2>3 DEF CrossingUnflat, Unflat
  <2> QED BY <2>2, <2>4, <2>5
<1>3. ASSUME NEW p \in Product, Clock(p) PROVE Goal
  <2>1. /\ world.lateReplies
        /\ UNCHANGED <<last_cid, pending, placed, position, orderVars, place_waiting,
                       cancel_waiting, marketVars, phase, crossing, world, session, venueVars>>
        /\ waiting_since' = [waiting_since EXCEPT ![p] = "expired"]
    BY <1>3 DEF Clock, TimePasses, controlVars
  <2>2. Idle
    BY <2>1 DEF Idle
  <2>3. CrossingUnflat'
    BY <1>t, <2>1 DEF CrossingUnflat
  <2>4. TypeOK'
    BY <1>t, <2>1 DEF TypeOK, orderVars, marketVars
  <2> QED BY <2>2, <2>3, <2>4
<1>4. CASE SessionUp \/ SignalStep \/ Finished \/ UNCHANGED sysVars
  <2>1. UNCHANGED <<vars, world, venueVars>> /\ session' \in {session, TRUE}
    BY <1>4 DEF SessionUp, SignalStep, FirstSignal, FirstStamped, GraceEnds, RepeatSignal,
                Finished, sysVars
  <2> QED BY <1>v, <2>1
<1> QED BY <1>1, <1>2, <1>3, <1>4 DEF SysNext, TraderStep, VenueStep

-----------------------------------------------------------------------------
(* The messages stay genuine.                                              *)

\* An order keeps its number while it is known.
NumbersKept ==
  /\ last_cid <= last_cid'
  /\ \A c \in Cid : c <= last_cid =>
       /\ placed'[c] = placed[c]
       /\ placed[c] = None /\ cid_to_product'[c] # None =>
            /\ cid_to_product'[c] = cid_to_product[c]
            /\ cid_to_order_no'[cid_to_product[c]][c] = cid_to_order_no[cid_to_product[c]][c]

\* So what has been said of it stays true.
LEMMA GenuineKept ==
  ASSUME BaseInv, TypeOK', NumbersKept
  PROVE  /\ \A q \in RequestMsg : RequestGenuine(q) => RequestGenuine(q)'
         /\ \A r \in AnswerMsg : ReplyGenuine(r) => ReplyGenuine(r)'
         /\ \A m \in FeedMsg : ReportGenuine(m) => ReportGenuine(m)'
         /\ \A o \in OrderNo : WorkingGenuine(o) /\ working'[o] = working[o] => WorkingGenuine(o)'
<1>0. /\ last_cid \in Int /\ last_cid' \in Int
      /\ \A c \in Cid : c \in Int
  BY BoundsAssumption DEF BaseInv, TypeOK, Cid
<1>1. \A c \in Cid : /\ c <= last_cid => c <= last_cid' /\ placed'[c] = placed[c]
                     /\ placed[c] # None => placed'[c] = placed[c] /\ c <= last_cid
  BY <1>0 DEF BaseInv, IndexInv, Fresh, NumbersKept
<1>2. \A c \in Cid : \A o : Bears(c, o) => Bears(c, o)'
  BY <1>1 DEF Bears, NumbersKept
<1>3. \A q \in RequestMsg : RequestGenuine(q) => RequestGenuine(q)'
  <2> SUFFICES ASSUME NEW q \in RequestMsg, RequestGenuine(q) PROVE RequestGenuine(q)'
    OBVIOUS
  <2>1. q.cid \in Cid /\ q.product \in Product /\ q.product # None
    BY NoneAssumption DEF RequestMsg
  <2> QED BY <1>1, <1>2, <2>1 DEF RequestGenuine
<1>4. \A r \in AnswerMsg : ReplyGenuine(r) => ReplyGenuine(r)'
  <2> SUFFICES ASSUME NEW r \in AnswerMsg, ReplyGenuine(r) PROVE ReplyGenuine(r)'
    OBVIOUS
  <2>1. r.cid \in Cid
    BY DEF AnswerMsg
  <2> QED BY <1>1, <1>2, <2>1 DEF ReplyGenuine
<1>5. \A m \in FeedMsg : ReportGenuine(m) => ReportGenuine(m)'
  <2> SUFFICES ASSUME NEW m \in FeedMsg, ReportGenuine(m) PROVE ReportGenuine(m)'
    OBVIOUS
  <2>1. m.product # None
    BY NoneAssumption DEF FeedMsg
  <2>2. \A c \in Cid : OnOrder(m, c) => OnOrder(m, c)'
    BY <1>1, <2>1 DEF OnOrder
  <2> QED BY <2>2 DEF ReportGenuine
<1>6. \A o \in OrderNo : WorkingGenuine(o) /\ working'[o] = working[o] => WorkingGenuine(o)'
  <2> SUFFICES ASSUME NEW o \in OrderNo, WorkingGenuine(o), working'[o] = working[o], working[o] # None
               PROVE  WorkingGenuine(o)'
    BY DEF WorkingGenuine
  <2>1. working[o].cid \in Cid /\ working[o].product \in Product /\ working[o].product # None
    BY NoneAssumption DEF BaseInv, SysTypes, Working
  <2> QED BY <1>1, <2>1 DEF WorkingGenuine
<1> QED BY <1>3, <1>4, <1>5, <1>6

\* A step keeps the base invariant when the handler keeps its own and every message
\* is an old one or a genuine one.
LEMMA BaseStep ==
  ASSUME BaseInv, TypeOK', IndexInv', WaitInv', SysTypes', OursOnly', CrossingUnflat', NumbersKept,
         \A i \in 1..Len(requests') :
           (\E j \in 1..Len(requests) : requests'[i] = requests[j]) \/ RequestGenuine(requests[i])',
         \A r \in replies' : r \in replies \/ ReplyGenuine(r)',
         \A i \in 1..Len(feed') :
           (\E j \in 1..Len(feed) : feed'[i] = feed[j]) \/ ReportGenuine(feed[i])',
         \A o \in OrderNo : working'[o] = working[o] \/ WorkingGenuine(o)'
  PROVE  BaseInv'
<1>0. SysTypes /\ MessagesGenuine
  BY DEF BaseInv
<1>1. ASSUME NEW i \in 1..Len(requests') PROVE RequestGenuine(requests[i])'
  <2> SUFFICES ASSUME NEW j \in 1..Len(requests), requests'[i] = requests[j]
               PROVE  RequestGenuine(requests[i])'
    OBVIOUS
  <2>1. requests[j] \in RequestMsg
    BY <1>0, ElementOfSeq DEF SysTypes
  <2>2. RequestGenuine(requests[j])
    BY <1>0 DEF MessagesGenuine
  <2> DEFINE q == requests[j]
  <2>3. PICK z : z = q
    OBVIOUS
  <2>4. RequestGenuine(z)'
    BY <2>1, <2>2, <2>3, GenuineKept
  <2> QED BY <2>3, <2>4 DEF RequestGenuine, Bears
<1>2. ASSUME NEW r \in replies' PROVE ReplyGenuine(r)'
  BY <1>0, GenuineKept DEF MessagesGenuine, SysTypes
<1>3. ASSUME NEW i \in 1..Len(feed') PROVE ReportGenuine(feed[i])'
  <2> SUFFICES ASSUME NEW j \in 1..Len(feed), feed'[i] = feed[j]
               PROVE  ReportGenuine(feed[i])'
    OBVIOUS
  <2>1. feed[j] \in FeedMsg
    BY <1>0, ElementOfSeq DEF SysTypes
  <2>2. ReportGenuine(feed[j])
    BY <1>0 DEF MessagesGenuine
  <2> DEFINE m == feed[j]
  <2>3. PICK z : z = m
    OBVIOUS
  <2>4. ReportGenuine(z)'
    BY <2>1, <2>2, <2>3, GenuineKept
  <2> QED BY <2>3, <2>4 DEF ReportGenuine, OnOrder
<1>4. ASSUME NEW o \in OrderNo PROVE WorkingGenuine(o)'
  BY <1>0, GenuineKept DEF MessagesGenuine
<1> QED BY <1>1, <1>2, <1>3, <1>4 DEF BaseInv, MessagesGenuine

-----------------------------------------------------------------------------
(* Each step keeps the base invariant.                                     *)

\* A step that leaves the orders alone leaves the handler's invariants alone.
LEMMA HandlerUnchanged ==
  ASSUME BaseInv, UNCHANGED <<last_cid, placed, pending, orderVars, place_waiting, cancel_waiting>>
  PROVE  IndexInv' /\ WaitInv' /\ OursOnly' /\ NumbersKept
<1>1. IndexInv'
  BY IndexUnchanged DEF BaseInv
<1>2. UNCHANGED <<cid_to_order_no, cid_to_product>>
  BY DEF orderVars
<1>3. WaitInv'
  BY <1>2, WaitsUnchanged DEF BaseInv
<1>4. OursOnly'
  BY <1>2 DEF BaseInv, OursOnly
<1>5. last_cid \in Int
  BY DEF BaseInv, TypeOK
<1> QED BY <1>1, <1>2, <1>3, <1>4, <1>5 DEF NumbersKept

\* What holds of the trader alone survives the steps of the others.
LEMMA VenueUnchanged ==
  ASSUME BaseInv, UNCHANGED vars
  PROVE  /\ TypeOK' /\ IndexInv' /\ WaitInv' /\ OursOnly' /\ NumbersKept /\ CrossingUnflat'
         /\ UNCHANGED <<last_cid, placed, pending, orderVars, place_waiting, cancel_waiting,
                        waiting_since, phase, crossing, position>>
<1>1. UNCHANGED <<last_cid, placed, pending, orderVars, place_waiting, cancel_waiting,
                  waiting_since, phase, crossing, position, marketVars>>
  BY DEF vars, waitVars, controlVars
<1>2. TypeOK'
  BY <1>1 DEF BaseInv, TypeOK, orderVars, marketVars
<1>3. CrossingUnflat'
  BY <1>1 DEF BaseInv, CrossingUnflat
<1> QED BY <1>1, <1>2, <1>3, HandlerUnchanged

\* Timers, status, prices and the stages of shutdown keep the base invariant.
LEMMA IdleKeepsBase ==
  ASSUME BaseInv, Idle, TypeOK', CrossingUnflat'
  PROVE  BaseInv'
<1>1. /\ UNCHANGED <<last_cid, placed, pending, orderVars, place_waiting, cancel_waiting>>
      /\ UNCHANGED <<world, requests, replies, feed, working, holding>>
      /\ session' \in {session, TRUE}
  BY DEF Idle, venueVars
<1>2. SysTypes'
  BY <1>1 DEF BaseInv, SysTypes
<1> QED BY <1>1, <1>2, HandlerUnchanged, BaseStep

\* An order pulled is one with a number, and the cancel names it.
LEMMA CancelGenuine ==
  ASSUME BaseInv, NEW p \in Product, NEW c \in Outstanding(p), cid_to_order_no[p][c] # None
  PROVE  /\ c \in Cid /\ c <= last_cid /\ cid_to_product[c] = p /\ cid_to_order_no[p][c] \in OrderNo
         /\ Bears(c, cid_to_order_no[p][c])
<1>0. TypeOK /\ IndexInv
  BY DEF BaseInv
<1>1. c \in Cid /\ outstanding[p][c] # None
  BY DEF Outstanding
<1>2. cid_to_product[c] = p /\ cid_to_order_no[p][c] \in OrderNo
  BY <1>0, <1>1 DEF IndexInv, RoutingConsistent, TypeOK
<1>3. c <= last_cid
  <2>1. c \in Int /\ last_cid \in Int
    BY <1>0, <1>1, BoundsAssumption DEF TypeOK, Cid
  <2> QED BY <1>0, <1>1, <2>1 DEF IndexInv, Fresh
<1>4. placed[c] # None => cid_to_order_no[p][c] = VenueNo[c]
  BY <1>0, <1>1 DEF IndexInv, OwnNumber
<1> QED BY <1>1, <1>2, <1>3, <1>4 DEF Bears

\* What is sent is on the wire behind the rest, or answered at once.
LEMMA DispatchBase ==
  ASSUME BaseInv, TypeOK', IndexInv', WaitInv', OursOnly', CrossingUnflat', NumbersKept,
         NEW R \in Seq(RequestMsg), Dispatch(R),
         UNCHANGED <<world, session, feed, working, holding>>,
         \A i \in 1..Len(R) : RequestGenuine(R[i])' /\ R[i].cid <= last_cid'
  PROVE  BaseInv'
<1>0. SysTypes
  BY DEF BaseInv
<1>1. DOMAIN R = 1..Len(R) /\ \A i \in 1..Len(R) : R[i] \in RequestMsg
  BY LenProperties, ElementOfSeq
<1>2. CASE session
  <2>1. requests' = requests \o R /\ replies' = replies
    BY <1>2 DEF Dispatch
  <2>2. /\ requests' \in Seq(RequestMsg)
        /\ \A k \in 1..Len(requests') :
             \/ k \in 1..Len(requests) /\ requests'[k] = requests[k]
             \/ \E i \in 1..Len(R) : requests'[k] = R[i]
    BY <1>0, <2>1, ConcatFacts DEF SysTypes
  <2>3. SysTypes'
    BY <1>0, <2>1, <2>2 DEF SysTypes
  <2>4. ASSUME NEW k \in 1..Len(requests')
        PROVE  (\E j \in 1..Len(requests) : requests'[k] = requests[j]) \/ RequestGenuine(requests[k])'
    <3> SUFFICES ASSUME NEW i \in 1..Len(R), requests'[k] = R[i] PROVE RequestGenuine(requests[k])'
      BY <2>2
    <3>1. RequestGenuine(R[i])'
      OBVIOUS
    <3> QED BY <3>1 DEF RequestGenuine, Bears
  <2> QED BY <2>1, <2>3, <2>4, BaseStep
<1>3. CASE ~session
  <2>1. /\ requests' = requests
        /\ replies' = replies \cup {Reply(R[i].kind, R[i].cid, FALSE, FALSE, None) : i \in DOMAIN R}
    BY <1>3 DEF Dispatch
  <2>2. ASSUME NEW i \in 1..Len(R)
        PROVE  /\ Reply(R[i].kind, R[i].cid, FALSE, FALSE, None) \in AnswerMsg
               /\ ReplyGenuine(Reply(R[i].kind, R[i].cid, FALSE, FALSE, None))'
    <3>1. R[i] \in RequestMsg /\ RequestGenuine(R[i])' /\ R[i].cid <= last_cid'
      BY <1>1
    <3>2. R[i].product # None
      BY <3>1, NoneAssumption DEF RequestMsg
    <3>3. R[i].kind \in {"place", "market", "cancel"} /\ R[i].cid \in Cid
      BY <3>1 DEF RequestMsg
    <3>4. R[i].kind # "cancel" => placed'[R[i].cid] # None
      BY <3>1, <3>2 DEF RequestGenuine
    <3> QED BY <3>1, <3>3, <3>4 DEF Reply, AnswerMsg, ReplyGenuine
  <2>3. replies' \subseteq AnswerMsg /\ \A r \in replies' : r \in replies \/ ReplyGenuine(r)'
    <3> SUFFICES ASSUME NEW r \in replies', r \notin replies PROVE r \in AnswerMsg /\ ReplyGenuine(r)'
      BY <1>0 DEF SysTypes
    <3>1. PICK i \in 1..Len(R) : r = Reply(R[i].kind, R[i].cid, FALSE, FALSE, None)
      BY <1>1, <2>1
    <3> QED BY <2>2, <3>1
  <2>4. SysTypes'
    BY <1>0, <2>1, <2>3 DEF SysTypes
  <2> QED BY <2>1, <2>3, <2>4, BaseStep
<1> QED BY <1>2, <1>3

\* Taking a reply keeps the base invariant.
LEMMA ReplyKeepsBase ==
  ASSUME BaseInv, TakeReply
  PROVE  BaseInv'
<1>0. TypeOK /\ IndexInv /\ WaitInv /\ SysTypes /\ OursOnly
  BY DEF BaseInv
<1>1. PICK r \in replies : /\ OnOrderResponse(r) /\ replies' = replies \ {r}
                           /\ UNCHANGED <<world, session, requests, feed, working, holding>>
  BY DEF TakeReply
<1> DEFINE s == [cid |-> r.cid, success |-> r.success, order_gone |-> r.order_gone,
                 order_no |-> r.order_no]
<1>2. r \in AnswerMsg /\ ReplyGenuine(r)
  BY <1>0 DEF BaseInv, SysTypes, MessagesGenuine
<1>3. s \in ReplyMsg /\ s.cid = r.cid /\ s.order_no = r.order_no
  BY <1>2 DEF AnswerMsg, ReplyMsg
<1>4. OnOrderResponse(s)
  BY <1>1 DEF OnOrderResponse, ReplyUnknown, CancelReply, PlaceReply
<1> HIDE DEF s
<1>5. TypeOK' /\ WaitInv'
  BY <1>0, <1>3, <1>4, ReplyType, ReplyKeepsWaits
<1> DEFINE c == r.cid
           p == cid_to_product[c]
<1>6. r.success => r.order_no \in OrderNo /\ Bears(c, r.order_no)
  BY <1>2 DEF ReplyGenuine
<1>7. ~r.success => r.order_no = None
  BY <1>2 DEF ReplyGenuine
<1>8. IndexInv'
  <2>1. CASE p = None
    <3>1. UNCHANGED <<last_cid, placed, orderVars>>
      BY <1>1, <2>1 DEF OnOrderResponse, ReplyUnknown, CancelReply, PlaceReply
    <3> QED BY <1>0, <3>1, IndexUnchanged
  <2>2. CASE p # None
    <3>1. r.order_no \in {None, ReplyNo(r.cid)}
      <4>1. r.success \in BOOLEAN
        BY <1>2 DEF AnswerMsg
      <4> QED BY <1>6, <1>7, <2>2, <4>1 DEF ReplyNo, Bears
    <3> QED BY <1>0, <1>3, <1>4, <3>1, ReplyKeepsIndex
  <2> QED BY <2>1, <2>2
<1>9. /\ c \in Cid /\ p \in Product \cup {None}
      /\ UNCHANGED <<last_cid, placed, position, phase, crossing>>
      /\ \/ p = None /\ Untouched
         \/ /\ p \in Product /\ Only(p, c)
            /\ Forgotten(p, c) \/ Kept(p, c) \/ (r.success /\ Bound(p, c, r.order_no))
  <2> HIDE DEF c, p
  <2>1. c = r.cid /\ p = cid_to_product[r.cid]
    BY DEF c, p
  <2> QED BY <1>0, <1>1, <1>2, <1>6, <1>7, <2>1, ReplyEffect
<1>o. p \in Product /\ r.success => /\ r.order_no \in Ours
                                    /\ placed[c] = None => r.order_no = cid_to_order_no[p][c]
  <2> SUFFICES ASSUME p \in Product, r.success
               PROVE  /\ r.order_no \in Ours
                      /\ placed[c] = None => r.order_no = cid_to_order_no[p][c]
    OBVIOUS
  <2>1. CASE placed[c] # None
    BY <1>6, <1>9, <2>1 DEF Bears, Ours
  <2>2. CASE placed[c] = None
    <3>1. r.order_no = cid_to_order_no[p][c] /\ r.order_no # None
      BY <1>6, <2>2, NoneAssumption DEF Bears
    <3> QED BY <1>0, <1>9, <3>1 DEF OursOnly
  <2> QED BY <2>1, <2>2
<1>x. None \notin Product
  BY NoneAssumption
<1> HIDE DEF c, p
<1>10. OursOnly'
  <2> SUFFICES ASSUME NEW q \in Product, NEW a \in Cid
               PROVE  cid_to_order_no'[q][a] \in Ours \cup {None}
    BY DEF OursOnly
  <2>1. cid_to_order_no[q][a] \in Ours \cup {None}
    BY <1>0 DEF OursOnly
  <2> QED BY <1>9, <1>o, <2>1 DEF Untouched, Only, Forgotten, Kept, Bound
<1>11. NumbersKept
  <2>1. last_cid <= last_cid'
    BY <1>0, <1>9 DEF TypeOK
  <2> SUFFICES ASSUME NEW a \in Cid, placed[a] = None, cid_to_product'[a] # None
               PROVE  /\ cid_to_product'[a] = cid_to_product[a]
                      /\ cid_to_order_no'[cid_to_product[a]][a] = cid_to_order_no[cid_to_product[a]][a]
    BY <1>9, <2>1 DEF NumbersKept
  <2>2. CASE p = None /\ Untouched
    BY <2>2 DEF Untouched
  <2>3. CASE p \in Product /\ Only(p, c) /\ a # c
    <3>1. cid_to_product'[a] = cid_to_product[a]
      BY <2>3 DEF Only
    <3>2. cid_to_product[a] \in Product
      BY <1>0, <3>1 DEF TypeOK
    <3> QED BY <2>3, <3>1, <3>2 DEF Only
  <2>4. CASE p \in Product /\ a = c
    BY <1>9, <1>o, <1>x, <2>4 DEF Forgotten, Kept, Bound, p
  <2> QED BY <1>9, <2>2, <2>3, <2>4
<1>12. CrossingUnflat'
  BY <1>9 DEF BaseInv, CrossingUnflat
<1>13. SysTypes'
  BY <1>0, <1>1 DEF SysTypes
<1> QED BY <1>1, <1>5, <1>8, <1>10, <1>11, <1>12, <1>13, BaseStep

\* The rest of the feed.
LEMMA FeedTail ==
  ASSUME SysTypes, feed # <<>>, feed' = Tail(feed)
  PROVE  /\ Len(feed) \in Nat /\ Len(feed) >= 1 /\ Head(feed) = feed[1] /\ feed[1] \in FeedMsg
         /\ feed' \in Seq(FeedMsg) /\ Len(feed') = Len(feed) - 1
         /\ \A i \in 1..Len(feed') : i + 1 \in 1..Len(feed) /\ feed'[i] = feed[i + 1]
<1>1. feed \in Seq(FeedMsg)
  BY DEF SysTypes
<1>2. /\ Len(feed) \in Nat /\ Len(feed) >= 1 /\ Head(feed) = feed[1] /\ feed[1] \in FeedMsg
      /\ feed' \in Seq(FeedMsg) /\ Len(feed') = Len(feed) - 1
      /\ \A i \in 1..(Len(feed) - 1) : feed'[i] = feed[i + 1]
  BY <1>1, TailFacts
<1> QED BY <1>2

\* Taking a report or a position off the feed keeps the base invariant.
LEMMA FeedKeepsBase ==
  ASSUME BaseInv, TakeFeed
  PROVE  BaseInv'
<1>0. TypeOK /\ IndexInv /\ WaitInv /\ SysTypes /\ OursOnly /\ MessagesGenuine
  BY DEF BaseInv
<1> DEFINE m == feed[1]
<1>1. /\ feed # <<>> /\ feed' = Tail(feed)
      /\ UNCHANGED <<world, session, requests, replies, working, holding>>
  BY DEF TakeFeed
<1>2. /\ Len(feed) \in Nat /\ Len(feed) >= 1 /\ Head(feed) = feed[1] /\ feed[1] \in FeedMsg
      /\ feed' \in Seq(FeedMsg) /\ Len(feed') = Len(feed) - 1
      /\ \A i \in 1..Len(feed') : i + 1 \in 1..Len(feed) /\ feed'[i] = feed[i + 1]
  BY <1>0, <1>1, FeedTail
<1>3. m \in FeedMsg /\ ReportGenuine(m)
  BY <1>0, <1>2 DEF MessagesGenuine
<1>4. IF m.kind = "position" THEN OnPosition(m.product, m.qty) ELSE OnExecution(m)
  BY <1>2 DEF TakeFeed
<1>5. \A i \in 1..Len(feed') : \E j \in 1..Len(feed) : feed'[i] = feed[j]
  BY <1>2
<1>6. SysTypes'
  BY <1>0, <1>1, <1>2 DEF SysTypes
<1> SUFFICES TypeOK' /\ IndexInv' /\ WaitInv' /\ OursOnly' /\ CrossingUnflat' /\ NumbersKept
  BY <1>1, <1>5, <1>6, BaseStep
<1> HIDE DEF m
<1>7. CASE m.kind = "position"
  <2>1. OnPosition(m.product, m.qty) /\ m.product \in Product /\ m.qty \in Position
    BY <1>3, <1>4, <1>7 DEF FeedMsg, ReportGenuine
  <2>2. UNCHANGED <<last_cid, placed, pending, orderVars, place_waiting, cancel_waiting,
                    waiting_since, phase, crossing>> /\ phase # "cross_send"
    BY <2>1 DEF OnPosition, waitVars, controlVars, Pumping, CancelPhases
  <2>3. TypeOK'
    BY <1>0, <2>1 DEF OnPosition, TypeOK, orderVars, waitVars, marketVars, controlVars
  <2>4. CrossingUnflat'
    BY <2>2 DEF CrossingUnflat
  <2> QED BY <2>2, <2>3, <2>4, HandlerUnchanged
<1>8. CASE m.kind # "position"
  <2>1. OnExecution(m) /\ Genuine(m) /\ m \in ExecutionMsg
    BY <1>0, <1>3, <1>4, <1>8, OwnReportGenuine
  <2>2. TypeOK' /\ IndexInv' /\ WaitInv'
    BY <1>0, <2>1, ExecutionType, ExecutionKeepsIndex, ExecutionKeepsWaits
  <2>3. PICK c \in Cid : OnOrder(m, c)
    BY <1>3, <1>8 DEF ReportGenuine
  <2>4. m.order_no = VenueNo[c] /\ placed[c] # None
    BY <1>3, <2>3, NoneAssumption DEF OnOrder, FeedMsg
  <2> DEFINE t == TargetCid(m)
             p == TargetProduct(m)
  <2> HIDE DEF t, p
  <2>5. /\ p \in Product /\ t \in Cid \cup {None}
        /\ UNCHANGED <<placed, phase, crossing>> /\ phase # "cross_send"
        /\ t # None => /\ cid_to_product[t] = p
                       /\ cid_to_order_no[p][t] = VenueNo[c] \/ (EchoesCid /\ t = c)
        /\ \/ /\ t # None /\ last_cid' = last_cid /\ Only(p, t)
              /\ Forgotten(p, t) \/ Bound(p, t, VenueNo[c])
           \/ Adopted(p, VenueNo[c], m.qty)
           \/ UNCHANGED <<last_cid, cid_to_order_no, cid_to_product>>
    <3>1. t = TargetCid(m) /\ p = TargetProduct(m)
      BY DEF t, p
    <3> QED BY <1>0, <1>3, <1>8, <2>1, <2>4, <3>1, ReportEffect DEF Untouched
  <2>6. CrossingUnflat'
    BY <2>5 DEF CrossingUnflat
  <2>7. VenueNo[c] \in Ours
    BY DEF Ours
  <2>8. OursOnly'
    <3> SUFFICES ASSUME NEW q \in Product, NEW a \in Cid
                 PROVE  cid_to_order_no'[q][a] \in Ours \cup {None}
      BY DEF OursOnly
    <3>1. cid_to_order_no[q][a] \in Ours \cup {None}
      BY <1>0 DEF OursOnly
    <3> QED BY <2>5, <2>7, <3>1 DEF Only, Forgotten, Bound, Adopted
  <2>9. NumbersKept
    <3>0. last_cid \in Int /\ \A a \in Cid : a \in Int
      BY <1>0, BoundsAssumption DEF TypeOK, Cid
    <3>1. last_cid <= last_cid'
      BY <2>5, <3>0 DEF Adopted
    <3> SUFFICES ASSUME NEW a \in Cid, a <= last_cid, placed[a] = None, cid_to_product'[a] # None
                 PROVE  /\ cid_to_product'[a] = cid_to_product[a]
                        /\ cid_to_order_no'[cid_to_product[a]][a] = cid_to_order_no[cid_to_product[a]][a]
      BY <2>5, <3>1 DEF NumbersKept
    <3>2. CASE UNCHANGED <<last_cid, cid_to_order_no, cid_to_product>>
      BY <3>2
    <3>3. CASE Adopted(p, VenueNo[c], m.qty)
      <4>1. a # last_cid + 1
        BY <3>0
      <4>2. cid_to_product'[a] = cid_to_product[a]
        BY <3>3, <4>1 DEF Adopted
      <4>3. cid_to_product[a] \in Product
        BY <1>0, <4>2 DEF TypeOK
      <4> QED BY <3>3, <4>1, <4>2, <4>3 DEF Adopted
    <3>4. CASE Only(p, t) /\ t # a
      <4>2. cid_to_product'[a] = cid_to_product[a]
        BY <3>4 DEF Only
      <4>3. cid_to_product[a] \in Product
        BY <1>0, <4>2 DEF TypeOK
      <4> QED BY <3>4, <4>2, <4>3 DEF Only
    <3>5. CASE t = a /\ t # None /\ (Forgotten(p, t) \/ Bound(p, t, VenueNo[c]))
      BY <2>4, <2>5, <3>5 DEF Forgotten, Bound
    <3> QED BY <2>5, <3>2, <3>3, <3>4, <3>5
  <2> QED BY <2>2, <2>6, <2>8, <2>9
<1> QED BY <1>7, <1>8

\* What a decision does to the book: the ids that follow last_cid_ are entered, the
\* waits of the product are the ones it sends.
Decided(p, sent, new, lots) ==
  /\ new \subseteq Cid /\ sent \subseteq Outstanding(p) /\ last_cid <= last_cid'
  /\ \A a \in sent : cid_to_order_no[p][a] # None
  /\ \A a \in Cid : a \in new <=> a > last_cid /\ a <= last_cid'
  /\ \A a \in new : /\ placed[a] = None /\ cid_to_product[a] = None
                    /\ lots[a] \in Nat /\ lots[a] > 0
                    /\ \A q \in Product : outstanding[q][a] = None /\ cid_to_order_no[q][a] = None
  /\ \A a \in Cid : /\ placed'[a] = IF a \in new THEN p ELSE placed[a]
                    /\ cid_to_product'[a] = IF a \in new THEN p ELSE cid_to_product[a]
  /\ \A q \in Product, a \in Cid :
       outstanding'[q][a] = IF q = p /\ a \in new THEN lots[a] ELSE outstanding[q][a]
  /\ \A q \in Product :
       /\ place_waiting'[q] = IF q = p THEN new ELSE place_waiting[q]
       /\ cancel_waiting'[q] = IF q = p THEN sent ELSE cancel_waiting[q]
       /\ waiting_since'[q] = "expired" => waiting_since[q] = "expired"
  /\ UNCHANGED <<cid_to_order_no, phase, crossing, position>>
  /\ phase # "done" /\ (Waiting(p) = {} \/ waiting_since[p] = "expired")

\* update_orders, order by order.
LEMMA DecisionEffect ==
  ASSUME TypeOK, IndexInv, NEW p \in Product, NEW cancels \in SUBSET Outstanding(p),
         NEW lots \in Placements, UpdateOrders(p, cancels, lots)
  PROVE  Decided(p, {c \in cancels : cid_to_order_no[p][c] # None}, DOMAIN lots, lots)
<1> DEFINE new == DOMAIN lots
           sent == {c \in cancels : cid_to_order_no[p][c] # None}
<1>0. sent \subseteq Outstanding(p) /\ \A a \in sent : cid_to_order_no[p][a] # None
  OBVIOUS
<1>1. last_cid \in 0..MaxCid /\ last_cid' = last_cid + Cardinality(new)
  BY DEF TypeOK, UpdateOrders
<1>2. /\ last_cid' \in 0..MaxCid /\ last_cid <= last_cid'
      /\ new = (last_cid + 1)..last_cid' /\ new \subseteq Cid
  BY <1>1, PlacementIds
<1> HIDE DEF new, sent
<1>3. last_cid \in Int /\ last_cid' \in Int /\ \A a \in Cid : a \in Int
  BY <1>1, <1>2, BoundsAssumption DEF Cid
<1>4. \A a \in Cid : a \in new <=> a > last_cid /\ a <= last_cid'
  BY <1>2, <1>3
<1>5. \A a \in new : lots[a] \in Nat /\ lots[a] > 0
  <2>1. PICK n \in {m \in 0..MaxPlaces : last_cid + m <= MaxCid} :
          lots \in [(last_cid + 1)..(last_cid + n) -> Qty]
    BY DEF Placements
  <2>2. \A a \in new : lots[a] \in Qty
    BY <2>1 DEF new
  <2> QED BY <2>2, BoundsAssumption DEF Qty
<1>6. \A a \in new : /\ placed[a] = None /\ cid_to_product[a] = None
                     /\ \A q \in Product : outstanding[q][a] = None /\ cid_to_order_no[q][a] = None
  BY <1>2, <1>4 DEF IndexInv, Fresh
<1>7. /\ cid_to_product' = [c \in Cid |-> IF c \in new THEN p ELSE cid_to_product[c]]
      /\ placed' = [c \in Cid |-> IF c \in new THEN p ELSE placed[c]]
      /\ outstanding' = [outstanding EXCEPT ![p] =
           [c \in Cid |-> IF c \in new THEN lots[c] ELSE outstanding[p][c]]]
      /\ place_waiting' = [place_waiting EXCEPT ![p] = new]
      /\ cancel_waiting' = [cancel_waiting EXCEPT ![p] = sent]
      /\ waiting_since' = [waiting_since EXCEPT ![p] =
           IF new \cup sent = {} THEN "idle" ELSE "fresh"]
      /\ UNCHANGED <<cid_to_order_no, position, phase, crossing>>
      /\ MayDecide(p)
  BY DEF UpdateOrders, controlVars, new, sent
<1>8. /\ \A a \in Cid : /\ placed'[a] = IF a \in new THEN p ELSE placed[a]
                        /\ cid_to_product'[a] = IF a \in new THEN p ELSE cid_to_product[a]
      /\ \A q \in Product, a \in Cid :
           outstanding'[q][a] = IF q = p /\ a \in new THEN lots[a] ELSE outstanding[q][a]
  BY <1>7 DEF TypeOK
<1>9. \A q \in Product :
        /\ place_waiting'[q] = IF q = p THEN new ELSE place_waiting[q]
        /\ cancel_waiting'[q] = IF q = p THEN sent ELSE cancel_waiting[q]
        /\ waiting_since'[q] = "expired" => waiting_since[q] = "expired"
  BY <1>7 DEF TypeOK
<1>10. phase # "done" /\ (Waiting(p) = {} \/ waiting_since[p] = "expired")
  BY <1>7 DEF MayDecide
<1> QED BY <1>0, <1>2, <1>4, <1>5, <1>6, <1>7, <1>8, <1>9, <1>10 DEF Decided, new, sent

\* A decision and the requests it sends keep the base invariant.
LEMMA DecideKeepsBase ==
  ASSUME BaseInv, Decide
  PROVE  BaseInv'
<1>0. TypeOK /\ IndexInv /\ WaitInv /\ SysTypes /\ OursOnly /\ MessagesGenuine
  BY DEF BaseInv
<1>1. PICK p \in Product, lots \in Placements :
        \E cancels \in SUBSET Outstanding(p), bids \in SUBSET DOMAIN lots :
          /\ UpdateOrders(p, cancels, lots)
          /\ Dispatch(DecisionRequests(p, cancels, lots, bids))
          /\ UNCHANGED <<world, session, feed, working, holding>>
  BY DEF Decide
<1>2. PICK cancels \in SUBSET Outstanding(p), bids \in SUBSET DOMAIN lots :
          /\ UpdateOrders(p, cancels, lots)
          /\ Dispatch(DecisionRequests(p, cancels, lots, bids))
          /\ UNCHANGED <<world, session, feed, working, holding>>
  BY <1>1
<1>3. PICK sent : sent = {c \in cancels : cid_to_order_no[p][c] # None}
  OBVIOUS
<1>4. PICK new : new = DOMAIN lots
  OBVIOUS
<1>d. Decided(p, sent, new, lots)
  BY <1>0, <1>2, <1>3, <1>4, DecisionEffect
<1>5. /\ new \subseteq Cid /\ sent \subseteq Outstanding(p) /\ last_cid <= last_cid'
      /\ \A a \in Cid : a \in new <=> a > last_cid /\ a <= last_cid'
      /\ \A a \in Cid : /\ placed'[a] = IF a \in new THEN p ELSE placed[a]
                        /\ cid_to_product'[a] = IF a \in new THEN p ELSE cid_to_product[a]
      /\ UNCHANGED <<cid_to_order_no, phase, crossing, position>>
  BY <1>d DEF Decided
<1>6. TypeOK' /\ IndexInv' /\ WaitInv'
  BY <1>0, <1>2, UpdateType, DecisionKeepsIndex, DecisionKeepsWaits
<1>7. OursOnly' /\ CrossingUnflat'
  BY <1>5 DEF BaseInv, OursOnly, CrossingUnflat
<1>i. last_cid \in Int /\ last_cid' \in Int /\ \A a \in Cid : a \in Int
  BY <1>0, <1>6, BoundsAssumption DEF TypeOK, Cid
<1>8. NumbersKept
  <2>1. \A a \in Cid : a <= last_cid => a \notin new
    BY <1>5, <1>i
  <2> QED BY <1>5, <2>1 DEF NumbersKept
<1>9. PICK R : R = DecisionRequests(p, cancels, lots, bids)
  OBVIOUS
<1>10. IsDecision(R, p, sent, lots)
  BY <1>0, <1>2, <1>3, <1>9, DecisionFacts
<1>11. ASSUME NEW i \in 1..Len(R) PROVE RequestGenuine(R[i])' /\ R[i].cid <= last_cid'
  <2>1. CASE \E c \in sent : R[i] = CancelRequest(p, c)
    <3>1. PICK c \in sent : R[i] = CancelRequest(p, c)
      BY <2>1
    <3>2. c \in Outstanding(p) /\ cid_to_order_no[p][c] # None
      BY <1>3, <1>5
    <3>3. c \in Cid /\ c <= last_cid /\ cid_to_product[c] = p /\ cid_to_order_no[p][c] \in OrderNo
          /\ Bears(c, cid_to_order_no[p][c])
      BY <3>2, CancelGenuine
    <3>4. R[i].kind = "cancel" /\ R[i].cid = c /\ R[i].order_no = cid_to_order_no[p][c]
      BY <1>0, <3>1, <3>3, CancelRequestFacts
    <3>5. c <= last_cid' /\ c \notin new
      BY <1>5, <1>i, <3>3
    <3>6. placed'[c] = placed[c] /\ cid_to_product'[c] = cid_to_product[c]
      BY <1>5, <3>3, <3>5
    <3> QED BY <1>5, <3>3, <3>4, <3>5, <3>6 DEF RequestGenuine, Bears
  <2>2. CASE /\ R[i].kind = "place" /\ R[i].product = p /\ R[i].cid \in DOMAIN lots
             /\ R[i].lots = lots[R[i].cid] /\ R[i].lots > 0
    <3>1. R[i].cid \in new /\ R[i].cid \in Cid
      BY <1>4, <1>5, <2>2
    <3> QED BY <1>5, <2>2, <3>1 DEF RequestGenuine
  <2> QED BY <1>10, <2>1, <2>2 DEF IsDecision
<1>12. R \in Seq(RequestMsg) /\ Dispatch(R)
  BY <1>2, <1>9, <1>10 DEF IsDecision
<1> QED BY <1>2, <1>6, <1>7, <1>8, <1>11, <1>12, DispatchBase

\* What a round of cancel_all_orders does to the book.
LEMMA CancelRoundEffect ==
  ASSUME TypeOK, CancelRound
  PROVE  /\ \A p \in Product : cancel_waiting'[p] = cancel_waiting[p] \cup Cancellable(p)
         /\ \A p \in Product : waiting_since'[p] = "expired" => waiting_since[p] = "expired"
         /\ UNCHANGED <<last_cid, placed, position, orderVars, outstanding, cid_to_order_no,
                        cid_to_product, place_waiting, phase, crossing>>
         /\ phase # "done"
  BY DEF CancelRound, orderVars, controlVars, CancelPhases

\* A round of cancels keeps the base invariant.
LEMMA CancelRoundKeepsBase ==
  ASSUME BaseInv, SendCancelRound
  PROVE  BaseInv'
<1>0. TypeOK /\ IndexInv /\ WaitInv /\ SysTypes /\ OursOnly /\ MessagesGenuine
  BY DEF BaseInv
<1>1. PICK todo \in SetToSeqs({pc \in Product \X Cid : pc[2] \in Cancellable(pc[1])}) :
        Dispatch([i \in DOMAIN todo |-> CancelRequest(todo[i][1], todo[i][2])])
  BY DEF SendCancelRound
<1>2. CancelRound /\ UNCHANGED <<world, session, feed, working, holding>>
  BY DEF SendCancelRound
<1>3. UNCHANGED <<last_cid, placed, position, orderVars, cid_to_order_no,
                  cid_to_product, place_waiting, phase, crossing>>
  BY <1>0, <1>2, CancelRoundEffect
<1>4. TypeOK' /\ WaitInv'
  BY <1>0, <1>2, ShutdownType, CancelRoundKeepsWaits DEF Shutdown
<1>5. IndexInv'
  BY <1>0, <1>3, IndexUnchanged
<1>6. OursOnly' /\ CrossingUnflat'
  BY <1>3 DEF BaseInv, OursOnly, CrossingUnflat
<1>7. NumbersKept
  BY <1>0, <1>3 DEF NumbersKept, TypeOK
<1>8. PICK R : R = [i \in DOMAIN todo |-> CancelRequest(todo[i][1], todo[i][2])]
  OBVIOUS
<1>9. IsCancelRound(R)
  BY <1>0, <1>8, CancelRoundFacts
<1>10. ASSUME NEW i \in 1..Len(R) PROVE RequestGenuine(R[i])' /\ R[i].cid <= last_cid'
  <2>1. PICK p \in Product : \E c \in Cancellable(p) : R[i] = CancelRequest(p, c)
    BY <1>9 DEF IsCancelRound
  <2>2. PICK c \in Cancellable(p) : R[i] = CancelRequest(p, c)
    BY <2>1
  <2>3. c \in Outstanding(p) /\ cid_to_order_no[p][c] # None
    BY DEF Cancellable
  <2>4. c \in Cid /\ c <= last_cid /\ cid_to_order_no[p][c] \in OrderNo
        /\ Bears(c, cid_to_order_no[p][c])
    BY <2>3, CancelGenuine
  <2>5. R[i].kind = "cancel" /\ R[i].cid = c /\ R[i].order_no = cid_to_order_no[p][c]
    BY <1>0, <2>2, <2>4, CancelRequestFacts
  <2> QED BY <1>3, <2>4, <2>5 DEF RequestGenuine, Bears
<1>11. R \in Seq(RequestMsg) /\ Dispatch(R)
  BY <1>1, <1>8, <1>9 DEF IsCancelRound
<1> QED BY <1>2, <1>4, <1>5, <1>6, <1>7, <1>10, <1>11, DispatchBase

\* What submit_market_flatten does to the book, and what it sends.
LEMMA MarketEffect ==
  ASSUME BaseInv, NEW p \in Product, SendMarketFlatten(p), NEW c, c = last_cid + 1
  PROVE  /\ c \in Cid /\ last_cid' = c /\ phase # "done"
         /\ placed[c] = None /\ cid_to_product[c] = None
         /\ \A q \in Product : outstanding[q][c] = None /\ cid_to_order_no[q][c] = None
         /\ \A a \in Cid : /\ placed'[a] = IF a = c THEN p ELSE placed[a]
                           /\ cid_to_product'[a] = IF a = c THEN p ELSE cid_to_product[a]
         /\ \A q \in Product, a \in Cid :
              a \in place_waiting'[q] <=> a \in place_waiting[q] \/ (q = p /\ a = c)
         /\ \A q \in Product : waiting_since'[q] = "expired" => waiting_since[q] = "expired"
         /\ UNCHANGED <<outstanding, cid_to_order_no, cancel_waiting, phase, position>>
         /\ UNCHANGED <<world, session, feed, working, holding>>
         /\ \E n \in Nat, is_bid \in BOOLEAN :
              /\ n > 0 /\ Request("market", p, c, None, n, is_bid) \in RequestMsg
              /\ Dispatch(<<Request("market", p, c, None, n, is_bid)>>)
<1>0. TypeOK /\ IndexInv /\ CrossingUnflat
  BY DEF BaseInv
<1>1. SubmitMarketFlatten(p) /\ UNCHANGED <<world, session, feed, working, holding>>
  BY DEF SendMarketFlatten
<1>2. c \in Cid /\ last_cid' = c /\ phase # "done"
  BY <1>1 DEF SubmitMarketFlatten
<1>3. c > last_cid
  BY <1>0 DEF TypeOK
<1>4. /\ placed[c] = None /\ cid_to_product[c] = None
      /\ \A q \in Product : outstanding[q][c] = None /\ cid_to_order_no[q][c] = None
  BY <1>0, <1>2, <1>3 DEF IndexInv, Fresh
<1>5. /\ \A a \in Cid : /\ placed'[a] = IF a = c THEN p ELSE placed[a]
                        /\ cid_to_product'[a] = IF a = c THEN p ELSE cid_to_product[a]
      /\ \A q \in Product, a \in Cid :
           a \in place_waiting'[q] <=> a \in place_waiting[q] \/ (q = p /\ a = c)
      /\ \A q \in Product : waiting_since'[q] = "expired" => waiting_since[q] = "expired"
      /\ UNCHANGED <<outstanding, cid_to_order_no, cancel_waiting, phase, position>>
  BY <1>0, <1>1, <1>2 DEF SubmitMarketFlatten, TypeOK
<1>6. \E n \in Nat, is_bid \in BOOLEAN :
        /\ n > 0 /\ Request("market", p, c, None, n, is_bid) \in RequestMsg
        /\ Dispatch(<<Request("market", p, c, None, n, is_bid)>>)
  <2> DEFINE n == IF position[p] < 0 THEN -position[p] ELSE position[p]
             is_bid == position[p] < 0
  <2>1. position[p] \in Int /\ position[p] # 0
    BY <1>0, <1>1, BoundsAssumption DEF TypeOK, Position, CrossingUnflat, SubmitMarketFlatten
  <2>2. n \in Nat /\ n > 0 /\ is_bid \in BOOLEAN
    BY <2>1
  <2>3. Dispatch(<<Request("market", p, c, None, n, is_bid)>>)
    BY DEF SendMarketFlatten
  <2> HIDE DEF n, is_bid
  <2>4. Request("market", p, c, None, n, is_bid) \in RequestMsg
    BY <1>2, <2>2 DEF Request, RequestMsg
  <2> QED BY <2>2, <2>3, <2>4
<1> QED BY <1>1, <1>2, <1>4, <1>5, <1>6

\* A market order to flatten keeps the base invariant.
LEMMA MarketKeepsBase ==
  ASSUME BaseInv, NEW p \in Product, SendMarketFlatten(p)
  PROVE  BaseInv'
<1>0. TypeOK /\ IndexInv /\ WaitInv /\ SysTypes /\ OursOnly /\ MessagesGenuine
  BY DEF BaseInv
<1>1. PICK c : c = last_cid + 1
  OBVIOUS
<1>2. /\ c \in Cid /\ last_cid' = c
      /\ \A a \in Cid : /\ placed'[a] = IF a = c THEN p ELSE placed[a]
                        /\ cid_to_product'[a] = IF a = c THEN p ELSE cid_to_product[a]
      /\ UNCHANGED <<outstanding, cid_to_order_no, cancel_waiting, phase, position>>
      /\ UNCHANGED <<world, session, feed, working, holding>>
      /\ \E n \in Nat, is_bid \in BOOLEAN :
              /\ n > 0 /\ Request("market", p, c, None, n, is_bid) \in RequestMsg
              /\ Dispatch(<<Request("market", p, c, None, n, is_bid)>>)
  BY <1>1, MarketEffect
<1>3. SubmitMarketFlatten(p)
  BY DEF SendMarketFlatten
<1>4. TypeOK' /\ IndexInv' /\ WaitInv'
  BY <1>0, <1>3, ShutdownType, CrossingKeepsIndex, CrossingKeepsWaits DEF Shutdown
<1>5. OursOnly'
  BY <1>0, <1>2 DEF OursOnly
<1>6. CrossingUnflat'
  <2>1. crossing' \subseteq crossing
    BY <1>3 DEF SubmitMarketFlatten
  <2> QED BY <1>2, <2>1 DEF BaseInv, CrossingUnflat
<1>7. last_cid \in Int /\ \A a \in Cid : a \in Int
  BY <1>0, BoundsAssumption DEF TypeOK, Cid
<1>8. NumbersKept
  <2>1. \A a \in Cid : a <= last_cid => a # c
    BY <1>1, <1>7
  <2>2. last_cid <= last_cid'
    BY <1>1, <1>2, <1>7
  <2> QED BY <1>2, <2>1, <2>2 DEF NumbersKept
<1>9. PICK n \in Nat, is_bid \in BOOLEAN :
              /\ n > 0 /\ Request("market", p, c, None, n, is_bid) \in RequestMsg
              /\ Dispatch(<<Request("market", p, c, None, n, is_bid)>>)
  BY <1>2
<1> DEFINE q == Request("market", p, c, None, n, is_bid)
           R == <<q>>
<1>10. R \in Seq(RequestMsg) /\ Len(R) = 1 /\ R[1] = q
  BY <1>9
<1>11. RequestGenuine(q)' /\ q.cid <= last_cid'
  BY <1>2, <1>7, <1>9 DEF Request, RequestGenuine
<1> HIDE DEF q
<1>12. \A i \in 1..Len(R) : RequestGenuine(R[i])' /\ R[i].cid <= last_cid'
  BY <1>10, <1>11
<1>13. Dispatch(R)
  BY <1>9 DEF q
<1> HIDE DEF R
<1> QED BY <1>2, <1>4, <1>5, <1>6, <1>8, <1>10, <1>12, <1>13, DispatchBase

-----------------------------------------------------------------------------
(* What the venue does with a request, and what it tells.                  *)

\* The feed is as it was, with more behind it.
Grown ==
  /\ Len(feed) \in Nat /\ Len(feed') \in Nat /\ Len(feed) <= Len(feed') /\ feed' \in Seq(FeedMsg)
  /\ \A i \in 1..Len(feed) : i \in 1..Len(feed') /\ feed'[i] = feed[i]

\* Report i of the feed is this one.
ReportAt(i, kind, p, c, n) ==
  /\ feed'[i] \in FeedMsg /\ feed'[i].kind = kind /\ feed'[i].order_no = VenueNo[c]
  /\ feed'[i].qty = n /\ ReportGenuine(feed'[i])

\* It is a fill, and the last but for the position.
FillAt(i, p, c, n) ==
  /\ Len(feed') \in {i, i + 1} /\ ReportAt(i, "fill", p, c, n)
  /\ Len(feed') = i + 1 =>
       /\ feed'[i + 1].kind = "position" /\ feed'[i + 1].order_no = None
       /\ ReportGenuine(feed'[i + 1])

\* An order of ours as the venue has it.
OrderOf(q) == [cid |-> q.cid, product |-> q.product, lots |-> q.lots, is_bid |-> q.is_bid]

\* A report of the venue is genuine.
LEMMA ReportFacts ==
  ASSUME NEW p \in Product, NEW c \in Cid, placed[c] = p, NEW n \in Nat, NEW b \in BOOLEAN,
         NEW kind \in {"canceled", "new", "fill"}, kind = "new" => n > 0,
         NEW m, m = Report(p, c, kind, n, b)
  PROVE  /\ m \in FeedMsg /\ m.kind = kind /\ m.order_no = VenueNo[c] /\ m.qty = n
         /\ ReportGenuine(m)
<1>1. VenueNo[c] \in OrderNo /\ (IF EchoesCid THEN c ELSE None) \in Cid \cup {None}
  BY VenueAssumption, FlagsAssumption
<1>2. /\ m.product = p /\ m.order_no = VenueNo[c] /\ m.kind = kind /\ m.qty = n /\ m.is_bid = b
      /\ m.client_order_id = IF EchoesCid THEN c ELSE None
  BY DEF Report, Execution
<1>3. m \in FeedMsg
  BY <1>1 DEF Report, Execution, FeedMsg
<1>4. OnOrder(m, c)
  BY <1>2 DEF OnOrder
<1> QED BY <1>2, <1>3, <1>4 DEF ReportGenuine

\* A report at the end of the feed.
LEMMA OneMore ==
  ASSUME SysTypes, NEW p \in Product, NEW c \in Cid, placed[c] = p, NEW n \in Nat, NEW b \in BOOLEAN,
         NEW kind \in {"canceled", "new", "fill"}, kind = "new" => n > 0,
         feed' = Append(feed, Report(p, c, kind, n, b))
  PROVE  Grown /\ Len(feed') = Len(feed) + 1 /\ ReportAt(Len(feed) + 1, kind, p, c, n)
<1>1. PICK m : m = Report(p, c, kind, n, b)
  OBVIOUS
<1>2. /\ m \in FeedMsg /\ m.kind = kind /\ m.order_no = VenueNo[c] /\ m.qty = n
      /\ ReportGenuine(m)
  BY <1>1, ReportFacts
<1>3. feed \in Seq(FeedMsg) /\ feed' = Append(feed, m)
  BY <1>1 DEF SysTypes
<1>4. /\ feed' \in Seq(FeedMsg) /\ Len(feed) \in Nat /\ Len(feed') = Len(feed) + 1
      /\ \A i \in 1..Len(feed) : feed'[i] = feed[i]
      /\ feed'[Len(feed) + 1] = m
  BY <1>2, <1>3, AppendFacts
<1>5. Grown
  BY <1>4 DEF Grown
<1> QED BY <1>2, <1>4, <1>5 DEF ReportAt

\* Fills at the end of a feed.
LEMMA FillsMore ==
  ASSUME NEW f \in Seq(FeedMsg), NEW p \in Product, NEW c \in Cid, placed[c] = p, NEW n \in Nat,
         NEW b \in BOOLEAN, holding'[p] \in Position, feed' = f \o FillReports(p, c, n, b)
  PROVE  /\ Len(f) \in Nat /\ feed' \in Seq(FeedMsg) /\ FillAt(Len(f) + 1, p, c, n)
         /\ \A i \in 1..Len(f) : i \in 1..Len(feed') /\ feed'[i] = f[i]
<1>1. PICK m : m = Report(p, c, "fill", n, b)
  OBVIOUS
<1>2. PICK x : x = Execution(p, None, None, "position", holding'[p], b)
  OBVIOUS
<1>3. /\ m \in FeedMsg /\ m.kind = "fill" /\ m.order_no = VenueNo[c] /\ m.qty = n
      /\ ReportGenuine(m)
  BY <1>1, ReportFacts
<1>4. /\ x \in FeedMsg /\ x.kind = "position" /\ x.order_no = None /\ ReportGenuine(x)
  <2>1. holding'[p] \in Int
    BY BoundsAssumption DEF Position
  <2> QED BY <1>2, <2>1 DEF Execution, FeedMsg, ReportGenuine
<1>5. <<m>> \in Seq(FeedMsg) /\ Len(<<m>>) = 1 /\ <<m>>[1] = m
  BY <1>3
<1>6. PICK F \in Seq(FeedMsg) : /\ feed' = f \o F /\ Len(F) \in {1, 2} /\ F[1] = m
                                /\ Len(F) = 2 => F[2] = x
  <2>1. CASE PositionFromFills
    <3>1. FillReports(p, c, n, b) = <<m>> \o <<>>
      BY <1>1, <2>1 DEF FillReports
    <3>2. <<m>> \o <<>> = <<m>>
      OBVIOUS
    <3>3. PICK F : F = <<m>>
      OBVIOUS
    <3>4. F \in Seq(FeedMsg) /\ Len(F) = 1 /\ F[1] = m /\ feed' = f \o F
      BY <1>5, <3>1, <3>2, <3>3
    <3> QED BY <3>4
  <2>2. CASE ~PositionFromFills
    <3>1. FillReports(p, c, n, b) = <<m>> \o <<x>>
      BY <1>1, <1>2, <2>2 DEF FillReports
    <3>2. <<x>> \in Seq(FeedMsg) /\ Len(<<x>>) = 1 /\ <<x>>[1] = x
      BY <1>4
    <3>3. PICK F : F = <<m>> \o <<x>>
      OBVIOUS
    <3>4. /\ F \in Seq(FeedMsg) /\ Len(F) = 1 + 1
          /\ \A i \in 1..1 : F[i] = <<m>>[i]
          /\ \A i \in 1..1 : F[1 + i] = <<x>>[i]
      BY <1>5, <3>2, <3>3, ConcatFacts
    <3>5. Len(F) = 2 /\ F[1] = m /\ F[2] = x
      BY <1>5, <3>2, <3>4
    <3> QED BY <3>1, <3>3, <3>4, <3>5
  <2> QED BY <2>1, <2>2
<1>7. /\ feed' \in Seq(FeedMsg) /\ Len(f) \in Nat /\ Len(F) \in Nat
      /\ Len(feed') = Len(f) + Len(F)
      /\ \A i \in 1..Len(f) : feed'[i] = f[i]
      /\ \A i \in 1..Len(F) : feed'[Len(f) + i] = F[i]
  <2>1. F \in Seq(FeedMsg) /\ feed' = f \o F
    BY <1>6
  <2> QED BY <2>1, ConcatFacts
<1>8. feed'[Len(f) + 1] = m /\ (Len(F) = 2 => feed'[Len(f) + 2] = x)
  <2>1. 1 \in 1..Len(F) /\ (Len(F) = 2 => 2 \in 1..Len(F))
    BY <1>6
  <2> QED BY <1>6, <1>7, <2>1
<1>9. Len(feed') \in {Len(f) + 1, Len(f) + 2}
  BY <1>6, <1>7
<1>10. ReportAt(Len(f) + 1, "fill", p, c, n)
  BY <1>3, <1>8 DEF ReportAt
<1>11. (Len(f) + 1) + 1 = Len(f) + 2 /\ (Len(feed') = Len(f) + 2 => feed'[Len(f) + 2] = x)
  BY <1>6, <1>7, <1>8
<1>12. FillAt(Len(f) + 1, p, c, n)
  BY <1>4, <1>9, <1>10, <1>11 DEF FillAt
<1>13. \A i \in 1..Len(f) : i \in 1..Len(feed')
  BY <1>7, <1>9
<1> QED BY <1>7, <1>12, <1>13

\* The market order trades something, and no more than it asks for.
LEMMA MarketLotsFacts ==
  ASSUME SysTypes, NEW q \in RequestMsg, q.lots > 0, world.reduceOnly => Reduces(q)
  PROVE  MarketLots(q) \in Nat /\ MarketLots(q) > 0 /\ MarketLots(q) <= q.lots
<1> DEFINE h == holding[q.product]
<1>1. h \in Int /\ q.lots \in Nat /\ q.is_bid \in BOOLEAN /\ world.reduceOnly \in BOOLEAN
  BY BoundsAssumption DEF SysTypes, RequestMsg, Position, World
<1>2. CASE world.reduceOnly
  <2>1. h # 0
    BY <1>1, <1>2 DEF Reduces
  <2>2. ASSUME NEW a \in Int, NEW b \in Int
        PROVE  Max({a, b}) = IF a >= b THEN a ELSE b
    <3> DEFINE z == IF a >= b THEN a ELSE b
    <3>1. z \in {a, b} /\ \A y \in {a, b} : z >= y
      OBVIOUS
    <3>2. \A w \in {a, b} : (\A y \in {a, b} : w >= y) => w = z
      OBVIOUS
    <3> QED BY <3>1, <3>2 DEF Max
  <2>3. ASSUME NEW a \in Int, NEW b \in Int
        PROVE  Min({a, b}) = IF a <= b THEN a ELSE b
    <3> DEFINE z == IF a <= b THEN a ELSE b
    <3>1. z \in {a, b} /\ \A y \in {a, b} : z <= y
      OBVIOUS
    <3>2. \A w \in {a, b} : (\A y \in {a, b} : w <= y) => w = z
      OBVIOUS
    <3> QED BY <3>1, <3>2 DEF Min
  <2> DEFINE g == Max({h, -h})
  <2>4. -h \in Int /\ g = (IF h >= -h THEN h ELSE -h)
    BY <1>1, <2>2
  <2>5. g \in Int /\ g > 0
    BY <1>1, <2>1, <2>4
  <2>6. MarketLots(q) = Min({q.lots, g})
    BY <1>2 DEF MarketLots
  <2> HIDE DEF g
  <2>7. Min({q.lots, g}) = IF q.lots <= g THEN q.lots ELSE g
    BY <1>1, <2>3, <2>5
  <2> QED BY <1>1, <2>5, <2>6, <2>7
<1>3. CASE ~world.reduceOnly
  BY <1>1, <1>3 DEF MarketLots
<1> QED BY <1>2, <1>3

\* The head of the wire is taken.
Taken(q) ==
  /\ requests # <<>> /\ Len(requests) \in Nat /\ Len(requests) >= 1 /\ q = requests[1]
  /\ q \in RequestMsg /\ RequestGenuine(q)
  /\ requests' \in Seq(RequestMsg) /\ Len(requests') = Len(requests) - 1
  /\ \A i \in 1..Len(requests') : i + 1 \in 1..Len(requests) /\ requests'[i] = requests[i + 1]

Accepted(q) ==
  /\ q.kind = "place" /\ UNCHANGED holding
  /\ working' = [working EXCEPT ![VenueNo[q.cid]] = OrderOf(q)]
  /\ replies' = replies \cup {Reply("place", q.cid, TRUE, FALSE, VenueNo[q.cid])}
  /\ Grown /\ Len(feed') = Len(feed) + 1
  /\ ReportAt(Len(feed) + 1, "new", q.product, q.cid, q.lots)

RefusedNow(q) ==
  /\ q.kind # "cancel" \/ world.cancelMayFail
  /\ replies' = replies \cup {Reply(q.kind, q.cid, FALSE, FALSE, None)}
  /\ UNCHANGED <<working, holding, feed>>

Crossed(q, n) ==
  /\ q.kind = "market" /\ n \in Nat /\ n > 0 /\ n <= q.lots /\ holding' \in [Product -> Position]
  /\ replies' = replies \cup {Reply("market", q.cid, TRUE, FALSE, VenueNo[q.cid])}
  /\ UNCHANGED working
  /\ Grown /\ ReportAt(Len(feed) + 1, "new", q.product, q.cid, q.lots)
  /\ FillAt(Len(feed) + 2, q.product, q.cid, n)

\* A working order ends, told or not.
Ended(o) ==
  /\ working[o] # None /\ working' = [working EXCEPT ![o] = None] /\ UNCHANGED holding
  /\ Grown
  /\ \/ EchoesCid /\ Len(feed') = Len(feed) + 1
        /\ ReportAt(Len(feed) + 1, "canceled", working[o].product, working[o].cid, 0)
     \/ ~EchoesCid /\ UNCHANGED feed

CanceledNow(q) ==
  /\ q.kind = "cancel" /\ q.order_no \in OrderNo /\ Ended(q.order_no)
  /\ replies' = replies \cup {Reply("cancel", q.cid, TRUE, FALSE, q.order_no)}

GoneAlready(q) ==
  /\ q.kind = "cancel" /\ q.order_no \in OrderNo /\ working[q.order_no] = None
  /\ replies' = replies \cup {Reply("cancel", q.cid, FALSE, EchoesCid, None)}
  /\ UNCHANGED <<working, holding, feed>>

Filled(o, n) ==
  /\ working[o] # None /\ n \in Nat /\ n > 0 /\ n <= working[o].lots
  /\ holding' \in [Product -> Position]
  /\ working' = [working EXCEPT ![o] =
       IF working[o].lots = n THEN None ELSE [working[o] EXCEPT !.lots = working[o].lots - n]]
  /\ Grown /\ FillAt(Len(feed) + 1, working[o].product, working[o].cid, n)

\* A feed left alone has grown by nothing.
LEMMA GrownBy ==
  ASSUME SysTypes
  PROVE  feed' = feed => Grown
  BY LenProperties DEF SysTypes, Grown

\* What works at the venue is an order of the trader, with lots left.
LEMMA WorkingFacts ==
  ASSUME BaseInv, NEW o \in OrderNo, working[o] # None
  PROVE  /\ working[o] \in Working /\ o = VenueNo[working[o].cid]
         /\ working[o].cid \in Cid /\ working[o].product \in Product
         /\ working[o].lots \in Nat /\ working[o].lots > 0 /\ working[o].is_bid \in BOOLEAN
         /\ placed[working[o].cid] = working[o].product
<1>1. working[o] \in Working
  BY DEF BaseInv, SysTypes
<1>2. /\ working[o].cid \in Cid /\ working[o].product \in Product
      /\ working[o].lots \in Nat /\ working[o].is_bid \in BOOLEAN
  BY <1>1 DEF Working
<1> QED BY <1>1, <1>2 DEF BaseInv, MessagesGenuine, WorkingGenuine

\* Taking an order off the venue's book ends it, with a report where the feed tells.
LEMMA EndFacts ==
  ASSUME BaseInv, NEW o \in OrderNo, working[o] # None,
         feed' = IF EchoesCid
                 THEN Append(feed, Report(working[o].product, working[o].cid, "canceled", 0, working[o].is_bid))
                 ELSE feed,
         working' = [working EXCEPT ![o] = None], UNCHANGED holding
  PROVE  Ended(o)
<1>0. SysTypes
  BY DEF BaseInv
<1>1. /\ working[o].cid \in Cid /\ working[o].product \in Product /\ working[o].is_bid \in BOOLEAN
      /\ placed[working[o].cid] = working[o].product
  BY WorkingFacts
<1>2. CASE EchoesCid
  <2>1. feed' = Append(feed, Report(working[o].product, working[o].cid, "canceled", 0, working[o].is_bid))
    BY <1>2
  <2>2. Grown /\ Len(feed') = Len(feed) + 1
          /\ ReportAt(Len(feed) + 1, "canceled", working[o].product, working[o].cid, 0)
    BY <1>0, <1>1, <2>1, OneMore
  <2> QED BY <1>2, <2>2 DEF Ended
<1>3. CASE ~EchoesCid
  BY <1>0, <1>3, GrownBy DEF Ended
<1> QED BY <1>2, <1>3

\* What the venue does with the request at the head of the wire.
LEMMA TakesEffect ==
  ASSUME BaseInv, VenueTakes
  PROVE  /\ UNCHANGED <<vars, world, session>>
         /\ \E q : Taken(q) /\ (Accepted(q) \/ RefusedNow(q) \/ (\E n : Crossed(q, n))
                                \/ CanceledNow(q) \/ GoneAlready(q))
<1>0. SysTypes /\ MessagesGenuine
  BY DEF BaseInv
<1>1. PICK q : q = Head(requests)
  OBVIOUS
<1>2. /\ requests # <<>> /\ requests' = Tail(requests) /\ UNCHANGED <<vars, world, session>>
      /\ Accept(q) \/ Refuse(q) \/ Cross(q) \/ CancelWorking(q) \/ CancelGone(q)
  BY <1>1 DEF VenueTakes
<1>3. requests \in Seq(RequestMsg)
  BY <1>0 DEF SysTypes
<1>4. /\ Len(requests) \in Nat /\ Len(requests) >= 1 /\ q = requests[1] /\ q \in RequestMsg
      /\ requests' \in Seq(RequestMsg) /\ Len(requests') = Len(requests) - 1
      /\ \A i \in 1..(Len(requests) - 1) : requests'[i] = requests[i + 1]
  BY <1>1, <1>2, <1>3, TailFacts
<1>5. RequestGenuine(q)
  BY <1>0, <1>4 DEF MessagesGenuine
<1>6. Taken(q)
  BY <1>2, <1>4, <1>5 DEF Taken
<1>7. /\ q.kind \in {"place", "market", "cancel"} /\ q.product \in Product /\ q.cid \in Cid
      /\ q.lots \in Nat /\ q.is_bid \in BOOLEAN
      /\ q.kind # "cancel" => placed[q.cid] = q.product /\ q.lots > 0
      /\ q.kind = "cancel" => q.order_no \in OrderNo
  BY <1>4, <1>5 DEF RequestMsg, RequestGenuine
<1>8. ASSUME Accept(q) PROVE Accepted(q)
  <2>1. Grown /\ Len(feed') = Len(feed) + 1 /\ ReportAt(Len(feed) + 1, "new", q.product, q.cid, q.lots)
    BY <1>0, <1>7, <1>8, OneMore DEF Accept
  <2> QED BY <1>8, <2>1 DEF Accept, Accepted, OrderOf
<1>9. ASSUME Refuse(q) PROVE RefusedNow(q)
  BY <1>9 DEF Refuse, RefusedNow
<1>10. ASSUME Cross(q) PROVE \E n : Crossed(q, n)
  <2>1. PICK n : n = MarketLots(q)
    OBVIOUS
  <2>2. n \in Nat /\ n > 0 /\ n <= q.lots
    BY <1>0, <1>4, <1>7, <1>10, <2>1, MarketLotsFacts DEF Cross
  <2>3. holding' \in [Product -> Position] /\ holding'[q.product] \in Position
    BY <1>0, <1>7, <1>10, BoundsAssumption DEF Cross, Trade, SysTypes
  <2>4. PICK m : m = Report(q.product, q.cid, "new", q.lots, q.is_bid)
    OBVIOUS
  <2>5. /\ m \in FeedMsg /\ m.kind = "new" /\ m.order_no = VenueNo[q.cid] /\ m.qty = q.lots
        /\ ReportGenuine(m)
    BY <1>7, <1>10, <2>4, ReportFacts DEF Cross
  <2>6. PICK f : f = Append(feed, m)
    OBVIOUS
  <2>7. feed \in Seq(FeedMsg) /\ <<m>> \in Seq(FeedMsg) /\ feed \o <<m>> = f
    BY <1>0, <2>5, <2>6 DEF SysTypes
  <2>8. feed' = f \o FillReports(q.product, q.cid, n, q.is_bid)
    BY <1>10, <2>1, <2>4, <2>7 DEF Cross
  <2>9. /\ f \in Seq(FeedMsg) /\ Len(feed) \in Nat /\ Len(f) = Len(feed) + 1
        /\ \A i \in 1..Len(feed) : f[i] = feed[i]
        /\ f[Len(feed) + 1] = m
    BY <2>5, <2>6, <2>7, AppendFacts
  <2>10. /\ feed' \in Seq(FeedMsg) /\ FillAt(Len(f) + 1, q.product, q.cid, n)
         /\ \A i \in 1..Len(f) : i \in 1..Len(feed') /\ feed'[i] = f[i]
    <3>1. placed[q.cid] = q.product
      BY <1>7, <1>10 DEF Cross
    <3> QED BY <1>7, <2>2, <2>3, <2>8, <2>9, <3>1, FillsMore
  <2>11. FillAt(Len(feed) + 2, q.product, q.cid, n)
    <3>1. Len(f) + 1 = Len(feed) + 2
      BY <2>9
    <3> QED BY <2>10, <3>1
  <2>12. ReportAt(Len(feed) + 1, "new", q.product, q.cid, q.lots)
    <3>1. feed'[Len(feed) + 1] = m
      BY <2>9, <2>10
    <3> QED BY <2>5, <3>1 DEF ReportAt
  <2>13. Grown
    <3>1. Len(feed') \in Nat /\ Len(feed) <= Len(feed')
      BY <2>9, <2>11 DEF FillAt
    <3>2. \A i \in 1..Len(feed) : i \in 1..Len(feed') /\ feed'[i] = feed[i]
      BY <2>9, <2>10
    <3> QED BY <2>9, <2>10, <3>1, <3>2 DEF Grown
  <2> QED BY <1>10, <2>2, <2>3, <2>11, <2>12, <2>13 DEF Cross, Crossed
<1>11. ASSUME CancelWorking(q) PROVE CanceledNow(q)
  <2>1. q.order_no \in OrderNo /\ working[q.order_no] # None
    BY <1>7, <1>11 DEF CancelWorking
  <2>2. Ended(q.order_no)
    BY <1>11, <2>1, EndFacts DEF CancelWorking
  <2> QED BY <1>11, <2>1, <2>2 DEF CancelWorking, CanceledNow
<1>12. ASSUME CancelGone(q) PROVE GoneAlready(q)
  BY <1>7, <1>12 DEF CancelGone, GoneAlready
<1> QED BY <1>2, <1>6, <1>8, <1>9, <1>10, <1>11, <1>12

\* A fill.
LEMMA FillsEffect ==
  ASSUME BaseInv, VenueFills
  PROVE  /\ UNCHANGED <<vars, world, session, requests, replies>>
         /\ \E o \in Ours, n \in Nat : Filled(o, n)
<1>1. PICK o \in Ours : \E n \in 1..(IF working[o] = None THEN 0 ELSE working[o].lots) :
        /\ Trade(working[o].product, working[o].is_bid, n)
        /\ working' = [working EXCEPT ![o] =
             IF working[o].lots = n THEN None ELSE [working[o] EXCEPT !.lots = working[o].lots - n]]
        /\ feed' = feed \o FillReports(working[o].product, working[o].cid, n, working[o].is_bid)
        /\ UNCHANGED <<vars, world, signalVars, session, requests, replies>>
  BY DEF VenueFills
<1>2. PICK n \in 1..(IF working[o] = None THEN 0 ELSE working[o].lots) :
        /\ Trade(working[o].product, working[o].is_bid, n)
        /\ working' = [working EXCEPT ![o] =
             IF working[o].lots = n THEN None ELSE [working[o] EXCEPT !.lots = working[o].lots - n]]
        /\ feed' = feed \o FillReports(working[o].product, working[o].cid, n, working[o].is_bid)
        /\ UNCHANGED <<vars, world, signalVars, session, requests, replies>>
  BY <1>1
<1>3. working[o] # None /\ o \in OrderNo
  BY <1>2, VenueAssumption DEF Ours
<1>4. /\ working[o].cid \in Cid /\ working[o].product \in Product
      /\ working[o].lots \in Nat /\ working[o].lots > 0 /\ working[o].is_bid \in BOOLEAN
      /\ placed[working[o].cid] = working[o].product
  BY <1>3, WorkingFacts
<1>5. n \in Nat /\ n > 0 /\ n <= working[o].lots
  BY <1>2, <1>3, <1>4
<1>6. holding' \in [Product -> Position] /\ holding'[working[o].product] \in Position
  BY <1>2, <1>4, BoundsAssumption DEF BaseInv, Trade, SysTypes
<1>7. feed \in Seq(FeedMsg)
  BY DEF BaseInv, SysTypes
<1>8. /\ Len(feed) \in Nat /\ feed' \in Seq(FeedMsg)
      /\ FillAt(Len(feed) + 1, working[o].product, working[o].cid, n)
      /\ \A i \in 1..Len(feed) : i \in 1..Len(feed') /\ feed'[i] = feed[i]
  BY <1>2, <1>4, <1>5, <1>6, <1>7, FillsMore
<1>9. Grown
  <2>1. Len(feed') \in Nat /\ Len(feed) <= Len(feed')
    BY <1>8 DEF FillAt
  <2> QED BY <1>8, <2>1 DEF Grown
<1>10. Filled(o, n)
  BY <1>2, <1>3, <1>5, <1>6, <1>8, <1>9 DEF Filled
<1> QED BY <1>2, <1>5, <1>10

\* An order the venue ends.
LEMMA ExpiresEffect ==
  ASSUME BaseInv, VenueExpires
  PROVE  /\ UNCHANGED <<vars, world, session, requests, replies>>
         /\ \E o \in Ours : Ended(o) /\ EchoesCid
<1>1. PICK o \in Ours :
    /\ EchoesCid /\ working[o] # None
    /\ feed' = Append(feed, Report(working[o].product, working[o].cid, "canceled", 0, working[o].is_bid))
    /\ working' = [working EXCEPT ![o] = None]
    /\ UNCHANGED <<vars, world, signalVars, session, requests, replies, holding>>
  BY DEF VenueExpires
<1>2. o \in OrderNo
  BY VenueAssumption DEF Ours
<1>3. Ended(o)
  BY <1>1, <1>2, EndFacts
<1> QED BY <1>1, <1>3

\* A step of the venue keeps the base invariant when what it tells is genuine.
LEMMA VenueBase ==
  ASSUME BaseInv, UNCHANGED <<vars, world>>, session' \in BOOLEAN,
         requests' \in Seq(RequestMsg), replies' \subseteq AnswerMsg, feed' \in Seq(FeedMsg),
         working' \in [OrderNo -> Working \cup {None}], holding' \in [Product -> Position],
         \A i \in 1..Len(requests') : \E j \in 1..Len(requests) : requests'[i] = requests[j],
         \A r \in replies' : r \in replies \/ ReplyGenuine(r),
         \A i \in 1..Len(feed') :
           (\E j \in 1..Len(feed) : feed'[i] = feed[j]) \/ ReportGenuine(feed'[i]),
         \A o \in OrderNo : \/ working'[o] = working[o]
                            \/ working'[o] = None
                            \/ /\ o = VenueNo[working'[o].cid]
                               /\ placed[working'[o].cid] = working'[o].product
                               /\ working'[o].lots > 0
  PROVE  BaseInv'
<1>1. /\ TypeOK' /\ IndexInv' /\ WaitInv' /\ OursOnly' /\ NumbersKept /\ CrossingUnflat'
      /\ UNCHANGED <<last_cid, placed, orderVars>>
  BY VenueUnchanged
<1>2. UNCHANGED <<cid_to_order_no, cid_to_product>>
  BY <1>1 DEF orderVars
<1>3. SysTypes'
  BY DEF BaseInv, SysTypes
<1>4. \A r \in replies' : r \in replies \/ ReplyGenuine(r)'
  BY <1>1, <1>2 DEF ReplyGenuine, Bears
<1>5. \A i \in 1..Len(feed') :
        (\E j \in 1..Len(feed) : feed'[i] = feed[j]) \/ ReportGenuine(feed[i])'
  BY <1>1 DEF ReportGenuine, OnOrder
<1>6. \A o \in OrderNo : working'[o] = working[o] \/ WorkingGenuine(o)'
  BY <1>1 DEF WorkingGenuine
<1> QED BY <1>1, <1>3, <1>4, <1>5, <1>6, BaseStep

\* The reply to a request that has been on the wire is genuine.
LEMMA AnswerGenuine ==
  ASSUME BaseInv, NEW q \in RequestMsg, RequestGenuine(q), NEW success \in BOOLEAN,
         NEW gone \in BOOLEAN, NEW o,
         o = IF success THEN IF q.kind = "cancel" THEN q.order_no ELSE VenueNo[q.cid] ELSE None,
         NEW r, r = Reply(q.kind, q.cid, success, gone, o)
  PROVE  r \in AnswerMsg /\ ReplyGenuine(r)
<1>1. q.kind \in {"place", "market", "cancel"} /\ q.product \in Product /\ q.cid \in Cid
  BY DEF RequestMsg
<1>2. VenueNo[q.cid] \in OrderNo /\ q.product # None
  BY <1>1, VenueAssumption, NoneAssumption
<1>3. q.cid <= last_cid
  <2>1. q.cid \in Int /\ last_cid \in Int
    BY <1>1, BoundsAssumption DEF BaseInv, TypeOK, Cid
  <2>2. CASE q.kind = "cancel"
    BY <2>2 DEF RequestGenuine, Bears
  <2>3. CASE q.kind # "cancel"
    <3>1. placed[q.cid] # None
      BY <1>2, <2>3 DEF RequestGenuine
    <3> QED BY <1>1, <2>1, <3>1 DEF BaseInv, IndexInv, Fresh
  <2> QED BY <2>2, <2>3
<1>4. q.kind # "cancel" => placed[q.cid] # None
  BY <1>2 DEF RequestGenuine
<1>5. success => o \in OrderNo /\ Bears(q.cid, o)
  BY <1>2, <1>3, <1>4 DEF RequestGenuine, Bears
<1>6. /\ r.of = q.kind /\ r.cid = q.cid /\ r.success = success /\ r.order_gone = gone
      /\ r.order_no = o
  BY DEF Reply
<1>7. r \in AnswerMsg
  BY <1>1, <1>5 DEF Reply, AnswerMsg
<1>8. ReplyGenuine(r)
  BY <1>3, <1>4, <1>5, <1>6 DEF ReplyGenuine
<1> QED BY <1>7, <1>8

\* Reports beyond those there were.
LEMMA NewReports ==
  ASSUME Grown, NEW k \in 1..Len(feed'),
         \/ Len(feed') = Len(feed)
         \/ Len(feed') = Len(feed) + 1 /\ ReportGenuine(feed'[Len(feed) + 1])
  PROVE  (\E j \in 1..Len(feed) : feed'[k] = feed[j]) \/ ReportGenuine(feed'[k])
<1>1. k \in 1..Len(feed) \/ (Len(feed') = Len(feed) + 1 /\ k = Len(feed) + 1)
  BY DEF Grown
<1> QED BY <1>1 DEF Grown

\* The end of an order is told truthfully and touches no other order.
LEMMA EndedReports ==
  ASSUME BaseInv, NEW o \in OrderNo, Ended(o)
  PROVE  /\ feed' \in Seq(FeedMsg) /\ working' \in [OrderNo -> Working \cup {None}]
         /\ \A k \in 1..Len(feed') :
              (\E j \in 1..Len(feed) : feed'[k] = feed[j]) \/ ReportGenuine(feed'[k])
         /\ \A n \in OrderNo : working'[n] = IF n = o THEN None ELSE working[n]
<1>1. Grown /\ (\/ Len(feed') = Len(feed)
                \/ Len(feed') = Len(feed) + 1 /\ ReportGenuine(feed'[Len(feed) + 1]))
  BY DEF Ended, ReportAt
<1>2. working' \in [OrderNo -> Working \cup {None}]
      /\ \A n \in OrderNo : working'[n] = IF n = o THEN None ELSE working[n]
  BY DEF BaseInv, SysTypes, Ended
<1> QED BY <1>1, <1>2, NewReports DEF Grown

\* The venue's taking a request keeps the base invariant.
LEMMA TakesKeepsBase ==
  ASSUME BaseInv, VenueTakes
  PROVE  BaseInv'
<1>0. SysTypes
  BY DEF BaseInv
<1>1. /\ UNCHANGED <<vars, world>> /\ session' \in BOOLEAN
      /\ \E q : Taken(q) /\ (Accepted(q) \/ RefusedNow(q) \/ (\E n : Crossed(q, n))
                             \/ CanceledNow(q) \/ GoneAlready(q))
  BY <1>0, TakesEffect DEF SysTypes
<1>2. PICK q : Taken(q) /\ (Accepted(q) \/ RefusedNow(q) \/ (\E n : Crossed(q, n))
                             \/ CanceledNow(q) \/ GoneAlready(q))
  BY <1>1
<1>3. /\ q \in RequestMsg /\ RequestGenuine(q) /\ requests' \in Seq(RequestMsg)
      /\ \A i \in 1..Len(requests') : \E j \in 1..Len(requests) : requests'[i] = requests[j]
  BY <1>2 DEF Taken
<1>4. q.product \in Product /\ q.cid \in Cid /\ VenueNo[q.cid] \in OrderNo
  BY <1>3, VenueAssumption DEF RequestMsg
<1>5. ASSUME NEW success \in BOOLEAN, NEW gone \in BOOLEAN, NEW o,
             o = IF success THEN IF q.kind = "cancel" THEN q.order_no ELSE VenueNo[q.cid] ELSE None,
             replies' = replies \cup {Reply(q.kind, q.cid, success, gone, o)}
      PROVE  replies' \subseteq AnswerMsg /\ \A r \in replies' : r \in replies \/ ReplyGenuine(r)
  <2>1. /\ Reply(q.kind, q.cid, success, gone, o) \in AnswerMsg
        /\ ReplyGenuine(Reply(q.kind, q.cid, success, gone, o))
    BY <1>3, <1>5, AnswerGenuine
  <2>2. replies \subseteq AnswerMsg
    BY <1>0 DEF SysTypes
  <2> QED BY <1>5, <2>1, <2>2
<1>6. CASE UNCHANGED <<working, holding, feed>> /\ (RefusedNow(q) \/ GoneAlready(q))
  <2>1. replies' \subseteq AnswerMsg /\ \A r \in replies' : r \in replies \/ ReplyGenuine(r)
    BY <1>5, <1>6, FlagsAssumption DEF RefusedNow, GoneAlready
  <2>2. /\ feed' \in Seq(FeedMsg) /\ working' \in [OrderNo -> Working \cup {None}]
        /\ holding' \in [Product -> Position]
    BY <1>0, <1>6 DEF SysTypes
  <2> QED BY <1>1, <1>3, <1>6, <2>1, <2>2, VenueBase
<1>7. CASE CanceledNow(q)
  <2>1. replies' \subseteq AnswerMsg /\ \A r \in replies' : r \in replies \/ ReplyGenuine(r)
    BY <1>5, <1>7 DEF CanceledNow
  <2>2. q.order_no \in OrderNo /\ Ended(q.order_no) /\ holding' = holding
    BY <1>7 DEF CanceledNow, Ended
  <2>3. /\ feed' \in Seq(FeedMsg) /\ working' \in [OrderNo -> Working \cup {None}]
        /\ \A k \in 1..Len(feed') :
             (\E j \in 1..Len(feed) : feed'[k] = feed[j]) \/ ReportGenuine(feed'[k])
        /\ \A n \in OrderNo : working'[n] = IF n = q.order_no THEN None ELSE working[n]
    BY <2>2, EndedReports
  <2>4. holding' \in [Product -> Position]
    BY <1>0, <2>2 DEF SysTypes
  <2> QED BY <1>1, <1>3, <2>1, <2>3, <2>4, VenueBase
<1>8. CASE Accepted(q)
  <2>1. replies' \subseteq AnswerMsg /\ \A r \in replies' : r \in replies \/ ReplyGenuine(r)
    BY <1>5, <1>8 DEF Accepted
  <2>2. Grown /\ Len(feed') = Len(feed) + 1 /\ ReportGenuine(feed'[Len(feed) + 1])
        /\ holding' = holding /\ q.kind = "place"
        /\ working' = [working EXCEPT ![VenueNo[q.cid]] = OrderOf(q)]
    BY <1>8 DEF Accepted, ReportAt
  <2>3. \A k \in 1..Len(feed') :
             (\E j \in 1..Len(feed) : feed'[k] = feed[j]) \/ ReportGenuine(feed'[k])
    BY <2>2, NewReports
  <2>4. placed[q.cid] = q.product /\ q.lots > 0
    BY <1>3, <2>2 DEF RequestGenuine
  <2>5. OrderOf(q) \in Working /\ OrderOf(q).cid = q.cid /\ OrderOf(q).product = q.product
        /\ OrderOf(q).lots = q.lots
    BY <1>3 DEF OrderOf, Working, RequestMsg
  <2>6. working' \in [OrderNo -> Working \cup {None}] /\ holding' \in [Product -> Position]
    BY <1>0, <1>4, <2>2, <2>5 DEF SysTypes
  <2>7. \A o \in OrderNo : working'[o] = IF o = VenueNo[q.cid] THEN OrderOf(q) ELSE working[o]
    BY <1>0, <2>2 DEF SysTypes
  <2>8. feed' \in Seq(FeedMsg)
    BY <2>2 DEF Grown
  <2> QED BY <1>1, <1>3, <2>1, <2>3, <2>4, <2>5, <2>6, <2>7, <2>8, VenueBase
<1>9. ASSUME NEW n, Crossed(q, n) PROVE BaseInv'
  <2>1. replies' \subseteq AnswerMsg /\ \A r \in replies' : r \in replies \/ ReplyGenuine(r)
    BY <1>5, <1>9 DEF Crossed
  <2>2. /\ Grown /\ ReportGenuine(feed'[Len(feed) + 1]) /\ ReportGenuine(feed'[Len(feed) + 2])
        /\ Len(feed') = Len(feed) + 3 => ReportGenuine(feed'[Len(feed) + 3])
        /\ Len(feed') \in {Len(feed) + 2, Len(feed) + 3} /\ Len(feed) \in Nat
        /\ working' = working /\ holding' \in [Product -> Position] /\ feed' \in Seq(FeedMsg)
    <3>1. Len(feed) \in Nat /\ (Len(feed) + 2) + 1 = Len(feed) + 3
      BY <1>9 DEF Crossed, Grown
    <3> QED BY <1>9, <3>1 DEF Crossed, Grown, ReportAt, FillAt
  <2>3. \A k \in 1..Len(feed') :
             (\E j \in 1..Len(feed) : feed'[k] = feed[j]) \/ ReportGenuine(feed'[k])
    <3> SUFFICES ASSUME NEW k \in 1..Len(feed')
                 PROVE  (\E j \in 1..Len(feed) : feed'[k] = feed[j]) \/ ReportGenuine(feed'[k])
      OBVIOUS
    <3>1. k \in 1..Len(feed) \/ k = Len(feed) + 1 \/ k = Len(feed) + 2
          \/ (Len(feed') = Len(feed) + 3 /\ k = Len(feed) + 3)
      BY <2>2
    <3> QED BY <2>2, <3>1 DEF Grown
  <2>4. working' \in [OrderNo -> Working \cup {None}]
    BY <1>0, <2>2 DEF SysTypes
  <2> QED BY <1>1, <1>3, <2>1, <2>2, <2>3, <2>4, VenueBase
<1> QED BY <1>2, <1>6, <1>7, <1>8, <1>9 DEF RefusedNow, GoneAlready

\* A fill keeps the base invariant.
LEMMA FillsKeepsBase ==
  ASSUME BaseInv, VenueFills
  PROVE  BaseInv'
<1>0. SysTypes
  BY DEF BaseInv
<1>1. PICK o \in Ours, n \in Nat : Filled(o, n)
  BY FillsEffect
<1>2. UNCHANGED <<vars, world, session, requests, replies>>
  BY FillsEffect
<1>3. o \in OrderNo /\ working[o] # None
  BY <1>1, VenueAssumption DEF Ours, Filled
<1>4. /\ working[o] \in Working /\ o = VenueNo[working[o].cid]
      /\ working[o].cid \in Cid /\ working[o].product \in Product
      /\ working[o].lots \in Nat /\ working[o].lots > 0 /\ working[o].is_bid \in BOOLEAN
      /\ placed[working[o].cid] = working[o].product
  BY <1>3, WorkingFacts
<1>5. PICK w : w = [working[o] EXCEPT !.lots = working[o].lots - n]
  OBVIOUS
<1>6. /\ n \in Nat /\ n > 0 /\ n <= working[o].lots /\ holding' \in [Product -> Position]
      /\ working' = [working EXCEPT ![o] = IF working[o].lots = n THEN None ELSE w]
      /\ Grown /\ FillAt(Len(feed) + 1, working[o].product, working[o].cid, n)
  BY <1>1, <1>5 DEF Filled
<1>7. /\ w.cid = working[o].cid /\ w.product = working[o].product /\ w.lots = working[o].lots - n
      /\ working[o].lots - n \in Nat => w \in Working
  BY <1>4, <1>5 DEF Working
<1>8. working[o].lots # n => w \in Working /\ w.lots > 0 /\ w.cid = working[o].cid
                             /\ w.product = working[o].product
  BY <1>4, <1>6, <1>7
<1>9. working' \in [OrderNo -> Working \cup {None}]
      /\ \A m \in OrderNo : working'[m] =
           IF m = o THEN IF working[o].lots = n THEN None ELSE w ELSE working[m]
  BY <1>0, <1>3, <1>6, <1>8 DEF SysTypes
<1>10. /\ ReportGenuine(feed'[Len(feed) + 1])
       /\ Len(feed') = Len(feed) + 2 => ReportGenuine(feed'[Len(feed) + 2])
       /\ Len(feed') \in {Len(feed) + 1, Len(feed) + 2} /\ Len(feed) \in Nat
  <2>1. Len(feed) \in Nat /\ (Len(feed) + 1) + 1 = Len(feed) + 2
    BY <1>6 DEF Grown
  <2> QED BY <1>6, <2>1 DEF FillAt, ReportAt
<1>11. \A k \in 1..Len(feed') :
           (\E j \in 1..Len(feed) : feed'[k] = feed[j]) \/ ReportGenuine(feed'[k])
  <2> SUFFICES ASSUME NEW k \in 1..Len(feed')
               PROVE  (\E j \in 1..Len(feed) : feed'[k] = feed[j]) \/ ReportGenuine(feed'[k])
    OBVIOUS
  <2>1. k \in 1..Len(feed) \/ k = Len(feed) + 1
        \/ (Len(feed') = Len(feed) + 2 /\ k = Len(feed) + 2)
    BY <1>10
  <2> QED BY <1>6, <1>10, <2>1 DEF Grown
<1>12. /\ requests' \in Seq(RequestMsg) /\ replies' \subseteq AnswerMsg /\ session' \in BOOLEAN
       /\ feed' \in Seq(FeedMsg)
  BY <1>0, <1>2, <1>6 DEF SysTypes, Grown
<1>13. \A m \in OrderNo : \/ working'[m] = working[m]
                          \/ working'[m] = None
                          \/ /\ m = VenueNo[working'[m].cid]
                             /\ placed[working'[m].cid] = working'[m].product
                             /\ working'[m].lots > 0
  BY <1>4, <1>8, <1>9
<1> QED BY <1>2, <1>6, <1>9, <1>11, <1>12, <1>13, VenueBase

\* The venue's ending an order keeps the base invariant.
LEMMA ExpiresKeepsBase ==
  ASSUME BaseInv, VenueExpires
  PROVE  BaseInv'
<1>0. SysTypes
  BY DEF BaseInv
<1>1. PICK o \in Ours : Ended(o)
  BY ExpiresEffect
<1>2. UNCHANGED <<vars, world, session, requests, replies>> /\ holding' = holding
  BY <1>1, ExpiresEffect DEF Ended
<1>3. o \in OrderNo
  BY VenueAssumption DEF Ours
<1>4. /\ feed' \in Seq(FeedMsg) /\ working' \in [OrderNo -> Working \cup {None}]
      /\ \A k \in 1..Len(feed') :
           (\E j \in 1..Len(feed) : feed'[k] = feed[j]) \/ ReportGenuine(feed'[k])
      /\ \A n \in OrderNo : working'[n] = IF n = o THEN None ELSE working[n]
  BY <1>1, <1>3, EndedReports
<1>5. /\ requests' \in Seq(RequestMsg) /\ replies' \subseteq AnswerMsg /\ session' \in BOOLEAN
      /\ holding' \in [Product -> Position]
  BY <1>0, <1>2 DEF SysTypes
<1> QED BY <1>2, <1>4, <1>5, VenueBase

\* Losing the session or what is on the feed keeps the base invariant.
LEMMA LossKeepsBase ==
  ASSUME BaseInv, SessionDown \/ FeedGap
  PROVE  BaseInv'
<1>0. SysTypes
  BY DEF BaseInv
<1>1. CASE SessionDown
  <2>1. /\ UNCHANGED <<vars, world, feed, working, holding>> /\ session' = FALSE
        /\ requests' = <<>> /\ replies' \subseteq replies
    BY <1>1 DEF SessionDown
  <2>2. requests' \in Seq(RequestMsg) /\ Len(requests') = 0
    BY <2>1
  <2>3. /\ replies' \subseteq AnswerMsg /\ feed' \in Seq(FeedMsg)
        /\ working' \in [OrderNo -> Working \cup {None}] /\ holding' \in [Product -> Position]
    BY <1>0, <2>1 DEF SysTypes
  <2>4. \A i \in 1..Len(requests') : \E j \in 1..Len(requests) : requests'[i] = requests[j]
    BY <2>2
  <2>5. session' \in BOOLEAN /\ \A r \in replies' : r \in replies
    BY <2>1
  <2>6. \A i \in 1..Len(feed') : \E j \in 1..Len(feed) : feed'[i] = feed[j]
    BY <2>1
  <2> QED BY <2>1, <2>2, <2>3, <2>4, <2>5, <2>6, VenueBase
<1>2. CASE FeedGap
  <2>1. /\ UNCHANGED <<vars, world, session, requests, replies, working, holding>>
        /\ feed # <<>> /\ feed' = Tail(feed)
    BY <1>2 DEF FeedGap
  <2>2. /\ feed' \in Seq(FeedMsg)
        /\ \A i \in 1..Len(feed') : i + 1 \in 1..Len(feed) /\ feed'[i] = feed[i + 1]
    BY <1>0, <2>1, FeedTail
  <2>3. /\ replies' \subseteq AnswerMsg /\ requests' \in Seq(RequestMsg) /\ session' \in BOOLEAN
        /\ working' \in [OrderNo -> Working \cup {None}] /\ holding' \in [Product -> Position]
    BY <1>0, <2>1 DEF SysTypes
  <2> QED BY <2>1, <2>2, <2>3, VenueBase
<1> QED BY <1>1, <1>2

\* The base invariant holds when the program starts.
LEMMA BaseInit ==
  ASSUME SysInit
  PROVE  BaseInv
<1>1. TypeOK /\ IndexInv /\ WaitInv
  BY TypeInit, IndexInit, WaitInit DEF SysInit
<1>2. Init /\ world \in World /\ requests = <<>> /\ replies = {} /\ feed = <<>>
      /\ working = [o \in OrderNo |-> None] /\ holding = [p \in Product |-> 0] /\ session = TRUE
  BY SystemAssumption DEF SysInit
<1>3. Len(requests) = 0 /\ Len(feed) = 0 /\ requests \in Seq(RequestMsg) /\ feed \in Seq(FeedMsg)
  BY <1>2
<1>4. SysTypes
  BY <1>2, <1>3, BoundsAssumption DEF SysTypes, Position
<1>5. MessagesGenuine
  BY <1>2, <1>3 DEF MessagesGenuine, WorkingGenuine
<1>6. OursOnly /\ CrossingUnflat
  BY <1>2 DEF Init, OursOnly, CrossingUnflat
<1> QED BY <1>1, <1>4, <1>5, <1>6 DEF BaseInv

\* Every step keeps the base invariant.
LEMMA BaseNext ==
  ASSUME BaseInv, [SysNext]_sysVars
  PROVE  BaseInv'
  BY StepCases, IdleKeepsBase, ReplyKeepsBase, FeedKeepsBase, DecideKeepsBase,
     CancelRoundKeepsBase, MarketKeepsBase, TakesKeepsBase, FillsKeepsBase, ExpiresKeepsBase,
     LossKeepsBase

\* With a venue, the gateway and the feed attached, whatever they do.
THEOREM MessagesAreGenuine == SysSpec => []BaseInv
<1>1. SysInit => BaseInv
  BY BaseInit
<1>2. BaseInv /\ [SysNext]_sysVars => BaseInv'
  BY BaseNext
<1> QED BY <1>1, <1>2, PTL DEF SysSpec

-----------------------------------------------------------------------------
(* No wait outlives its order, while the feed loses nothing.               *)

\* Nothing is known at the venue, or told, of an order that has not been sent.
LEMMA UnplacedUnknown ==
  ASSUME BaseInv, NEW c \in Cid, placed[c] = None
  PROVE  working[VenueNo[c]] = None /\ ~Reported(c)
<1>0. VenueNo[c] \in OrderNo /\ VenueNo[c] # None /\ None \notin Product
  BY VenueAssumption, NoneAssumption
<1>1. working[VenueNo[c]] = None
  <2> SUFFICES ASSUME working[VenueNo[c]] # None PROVE FALSE
    OBVIOUS
  <2> DEFINE w == working[VenueNo[c]]
  <2>1. VenueNo[c] = VenueNo[w.cid] /\ w.cid \in Cid /\ placed[w.cid] = w.product /\ w.product \in Product
    BY <1>0, WorkingFacts
  <2>2. w.cid = c
    BY <2>1, VenueAssumption
  <2> QED BY <1>0, <2>1, <2>2
<1>2. ASSUME NEW i \in 1..Len(feed), feed[i].order_no = VenueNo[c] PROVE FALSE
  <2>1. feed[i] \in FeedMsg /\ ReportGenuine(feed[i])
    BY ElementOfSeq DEF BaseInv, SysTypes, MessagesGenuine
  <2>2. PICK d \in Cid : OnOrder(feed[i], d)
    BY <1>0, <1>2, <2>1 DEF ReportGenuine
  <2>3. d = c /\ feed[i].product \in Product
    BY <1>2, <2>1, <2>2, VenueAssumption DEF OnOrder, FeedMsg
  <2> QED BY <1>0, <2>2, <2>3 DEF OnOrder
<1> QED BY <1>1, <1>2 DEF Reported

\* Nothing is on its way about an order that was never placed.
LEMMA UnplacedAnnounced ==
  ASSUME BaseInv, NEW c \in Cid, placed[c] = None
  PROVE  Announced(c)
  BY UnplacedUnknown DEF Announced, Reported, About

\* A report other than that it is new leaves an order announced.
LEMMA AnnouncedTail ==
  ASSUME SysTypes, NEW c \in Cid, Announced(c), feed # <<>>, feed' = Tail(feed), UNCHANGED working,
         ~About(feed[1], "new", c)
  PROVE  Announced(c)'
<1>1. /\ Len(feed) \in Nat /\ Len(feed) >= 1 /\ Len(feed') = Len(feed) - 1
      /\ \A i \in 1..Len(feed') : i + 1 \in 1..Len(feed) /\ feed'[i] = feed[i + 1]
  BY FeedTail
<1>2. ASSUME NEW j \in 1..Len(feed), About(feed[j], "new", c)
      PROVE  j - 1 \in 1..Len(feed') /\ About(feed'[j - 1], "new", c)
  <2>1. j # 1 /\ j - 1 \in 1..Len(feed') /\ (j - 1) + 1 = j
    BY <1>1, <1>2
  <2>2. feed'[j - 1] = feed[j]
    BY <1>1, <2>1
  <2> QED BY <1>2, <2>1, <2>2
<1>3. working'[VenueNo[c]] # None => \E j \in 1..Len(feed') : About(feed'[j], "new", c)
  BY <1>2 DEF Announced
<1>4. ASSUME NEW i \in 1..Len(feed'), About(feed'[i], "canceled", c)
      PROVE  \E j \in 1..(i - 1) : About(feed'[j], "new", c)
  <2>1. i + 1 \in 1..Len(feed) /\ About(feed[i + 1], "canceled", c)
    BY <1>1, <1>4
  <2>2. PICK j \in 1..((i + 1) - 1) : About(feed[j], "new", c)
    BY <2>1 DEF Announced
  <2>3. j \in 1..Len(feed) /\ i \in Int
    BY <1>1, <2>1, <2>2
  <2>4. j - 1 \in 1..Len(feed') /\ About(feed'[j - 1], "new", c)
    BY <1>2, <2>2, <2>3
  <2>5. j - 1 \in 1..(i - 1)
    BY <2>2, <2>3, <2>4
  <2> QED BY <2>4, <2>5
<1> QED BY <1>3, <1>4 DEF Announced

\* So do reports behind it, unless they say that an unannounced one is over.
LEMMA AnnouncedGrows ==
  ASSUME NEW c \in Cid, Announced(c), Grown,
         working'[VenueNo[c]] # None =>
           working[VenueNo[c]] # None \/ \E j \in 1..Len(feed') : About(feed'[j], "new", c),
         \A k \in (Len(feed) + 1)..Len(feed') :
           About(feed'[k], "canceled", c) => working[VenueNo[c]] # None
  PROVE  Announced(c)'
<1>1. /\ Len(feed) \in Nat /\ Len(feed') \in Nat /\ Len(feed) <= Len(feed')
      /\ \A i \in 1..Len(feed) : i \in 1..Len(feed') /\ feed'[i] = feed[i]
  BY DEF Grown
<1>2. working'[VenueNo[c]] # None => \E j \in 1..Len(feed') : About(feed'[j], "new", c)
  BY <1>1 DEF Announced
<1>3. ASSUME NEW i \in 1..Len(feed'), About(feed'[i], "canceled", c)
      PROVE  \E j \in 1..(i - 1) : About(feed'[j], "new", c)
  <2>1. CASE i \in 1..Len(feed)
    <3>1. PICK j \in 1..(i - 1) : About(feed[j], "new", c)
      BY <1>1, <1>3, <2>1 DEF Announced
    <3>2. j \in 1..Len(feed)
      BY <1>1, <2>1, <3>1
    <3> QED BY <1>1, <3>1, <3>2
  <2>2. CASE i \notin 1..Len(feed)
    <3>1. i \in (Len(feed) + 1)..Len(feed') /\ i \in Int
      BY <1>1, <2>2
    <3>2. PICK j \in 1..Len(feed) : About(feed[j], "new", c)
      BY <1>3, <3>1 DEF Announced
    <3>3. j \in 1..(i - 1)
      BY <1>1, <3>1, <3>2
    <3> QED BY <1>1, <3>2, <3>3
  <2> QED BY <2>1, <2>2
<1> QED BY <1>2, <1>3 DEF Announced

\* What the venue may tell and do, order by order.
LEMMA VenueAnnounces ==
  ASSUME BaseInv, VenueTakes \/ VenueFills \/ VenueExpires, NEW c \in Cid, Announced(c)
  PROVE  Announced(c)'
<1>0. SysTypes /\ VenueNo[c] \in OrderNo /\ working \in [OrderNo -> Working \cup {None}]
  BY VenueAssumption DEF BaseInv, SysTypes
<1>1. ASSUME feed' = feed, working' = working PROVE Announced(c)'
  BY <1>1 DEF Announced
<1>2. ASSUME NEW o \in OrderNo, Ended(o) PROVE Announced(c)'
  <2>1. Grown /\ working[o] # None /\ o = VenueNo[working[o].cid] /\ working[o].cid \in Cid
    BY <1>2, WorkingFacts DEF Ended
  <2>2. working'[VenueNo[c]] # None => working[VenueNo[c]] # None
    BY <1>0, <1>2 DEF Ended
  <2>3. ASSUME NEW k \in (Len(feed) + 1)..Len(feed'), About(feed'[k], "canceled", c)
        PROVE  working[VenueNo[c]] # None
    <3>1. Len(feed') = Len(feed) + 1 /\ ReportAt(Len(feed) + 1, "canceled", working[o].product, working[o].cid, 0)
      BY <1>2, <2>1, <2>3 DEF Ended, Grown
    <3>2. k = Len(feed) + 1
      BY <2>1, <3>1 DEF Grown
    <3> QED BY <2>1, <2>3, <3>1, <3>2 DEF ReportAt, About
  <2> QED BY <2>1, <2>2, <2>3, AnnouncedGrows
<1>3. ASSUME NEW o \in OrderNo, NEW n, Filled(o, n) PROVE Announced(c)'
  <2>1. Grown /\ FillAt(Len(feed) + 1, working[o].product, working[o].cid, n) /\ Len(feed) \in Nat
    BY <1>3 DEF Filled, Grown
  <2>2. working'[VenueNo[c]] # None => working[VenueNo[c]] # None
    BY <1>0, <1>3 DEF Filled
  <2>3. ASSUME NEW k \in (Len(feed) + 1)..Len(feed') PROVE feed'[k].kind # "canceled"
    <3>1. k = Len(feed) + 1 \/ (k = (Len(feed) + 1) + 1 /\ Len(feed') = (Len(feed) + 1) + 1)
      BY <2>1, <2>3 DEF FillAt
    <3> QED BY <2>1, <3>1 DEF FillAt, ReportAt
  <2> QED BY <2>1, <2>2, <2>3, AnnouncedGrows DEF About
<1>4. ASSUME NEW q, Taken(q), Accepted(q) PROVE Announced(c)'
  <2>1. Grown /\ Len(feed') = Len(feed) + 1 /\ Len(feed) \in Nat
        /\ ReportAt(Len(feed) + 1, "new", q.product, q.cid, q.lots)
    BY <1>4 DEF Accepted, Grown
  <2>2. q.cid \in Cid
    BY <1>4 DEF Taken, RequestMsg
  <2>3. About(feed'[Len(feed) + 1], "new", q.cid) /\ feed'[Len(feed) + 1].kind = "new"
        /\ Len(feed) + 1 \in 1..Len(feed')
    BY <2>1 DEF ReportAt, About
  <2>4. working'[VenueNo[c]] # None => working[VenueNo[c]] # None \/ c = q.cid
    BY <1>0, <1>4, <2>2, VenueAssumption DEF Accepted
  <2>5. \A k \in (Len(feed) + 1)..Len(feed') : k = Len(feed) + 1
    BY <2>1
  <2>6. \A k \in (Len(feed) + 1)..Len(feed') : ~About(feed'[k], "canceled", c)
    BY <2>3, <2>5 DEF About
  <2>7. working'[VenueNo[c]] # None =>
           working[VenueNo[c]] # None \/ \E j \in 1..Len(feed') : About(feed'[j], "new", c)
    BY <2>3, <2>4
  <2> QED BY <2>1, <2>6, <2>7, AnnouncedGrows
<1>5. ASSUME NEW q, NEW n, Taken(q), Crossed(q, n) PROVE Announced(c)'
  <2>1. Grown /\ Len(feed) \in Nat /\ FillAt(Len(feed) + 2, q.product, q.cid, n) /\ working' = working
        /\ ReportAt(Len(feed) + 1, "new", q.product, q.cid, q.lots)
    BY <1>5 DEF Crossed, Grown
  <2>2. ASSUME NEW k \in (Len(feed) + 1)..Len(feed') PROVE feed'[k].kind # "canceled"
    <3>1. k = Len(feed) + 1 \/ k = Len(feed) + 2
          \/ (k = (Len(feed) + 2) + 1 /\ Len(feed') = (Len(feed) + 2) + 1)
      BY <2>1, <2>2 DEF FillAt
    <3> QED BY <2>1, <3>1 DEF FillAt, ReportAt
  <2> QED BY <2>1, <2>2, AnnouncedGrows DEF About
<1>6. CASE VenueTakes
  BY <1>1, <1>2, <1>4, <1>5, <1>6, TakesEffect DEF RefusedNow, CanceledNow, GoneAlready
<1>7. CASE VenueFills
  BY <1>3, <1>7, FillsEffect, VenueAssumption DEF Ours
<1>8. CASE VenueExpires
  BY <1>2, <1>8, ExpiresEffect, VenueAssumption DEF Ours
<1> QED BY <1>6, <1>7, <1>8

\* A reply ends the wait for its order, and no other.
LEMMA ReplyKeepsWaitsEnd ==
  ASSUME BaseInv, WaitsEnd, TakeReply
  PROVE  WaitsEnd'
<1>0. TypeOK
  BY DEF BaseInv
<1>1. PICK r \in replies : /\ OnOrderResponse(r) /\ replies' = replies \ {r}
                           /\ UNCHANGED <<world, session, requests, feed, working, holding>>
  BY DEF TakeReply
<1>2. r \in AnswerMsg /\ ReplyGenuine(r)
  BY DEF BaseInv, SysTypes, MessagesGenuine
<1>3. PICK c : c = r.cid
  OBVIOUS
<1>4. PICK p : p = cid_to_product[r.cid]
  OBVIOUS
<1>5. /\ c \in Cid
      /\ \/ Untouched
         \/ /\ p \in Product /\ Only(p, c)
            /\ c \notin place_waiting'[p] /\ c \notin cancel_waiting'[p]
  BY <1>0, <1>1, <1>2, <1>3, <1>4, ReplyEffect DEF ReplyGenuine
<1>6. ASSUME NEW q \in Product, NEW a \in Cid, a \in Waiting(q)'
      PROVE  a \in Waiting(q) /\ cid_to_product'[a] = q
             /\ (a \in place_waiting'[q] => a \in place_waiting[q])
  <2>1. CASE Untouched
    BY <1>6, <2>1 DEF Untouched, Waiting, WaitsEnd, NoWaitOutlivesItsOrder
  <2>2. CASE /\ p \in Product /\ Only(p, c)
             /\ c \notin place_waiting'[p] /\ c \notin cancel_waiting'[p]
    <3>1. q # p \/ a # c
      BY <1>6, <2>2 DEF Waiting
    <3>2. a \in Waiting(q) /\ (a \in place_waiting'[q] => a \in place_waiting[q])
      BY <1>6, <2>2, <3>1 DEF Only, Waiting
    <3>3. cid_to_product[a] = q
      BY <3>2 DEF WaitsEnd, NoWaitOutlivesItsOrder
    <3>4. a # c
      BY <1>3, <1>4, <3>1, <3>3
    <3> QED BY <2>2, <3>2, <3>3, <3>4 DEF Only
  <2> QED BY <1>5, <2>1, <2>2
<1>8. NoWaitOutlivesItsOrder'
  <2> SUFFICES ASSUME NEW q \in Product, NEW a \in Waiting(q)' PROVE cid_to_product'[a] = q
    BY DEF NoWaitOutlivesItsOrder
  <2>1. TypeOK'
    BY ReplyKeepsBase DEF BaseInv
  <2>2. a \in Cid
    BY <2>1 DEF TypeOK, Waiting
  <2> QED BY <1>6, <2>2
<1>9. ASSUME EchoesCid, NEW q \in Product, NEW a \in Cid, a \in place_waiting'[q] PROVE Announced(a)'
  <2>1. a \in place_waiting[q]
    BY <1>6, <1>9 DEF Waiting
  <2>2. Announced(a)
    BY <1>9, <2>1 DEF WaitsEnd
  <2> QED BY <1>1, <2>2 DEF Announced
<1> QED BY <1>8, <1>9 DEF WaitsEnd

\* A report ends the wait for the order it is about.
LEMMA FeedKeepsWaitsEnd ==
  ASSUME BaseInv, WaitsEnd, TakeFeed
  PROVE  WaitsEnd'
<1>0. TypeOK /\ IndexInv /\ WaitInv /\ SysTypes /\ MessagesGenuine
  BY DEF BaseInv
<1>t. TypeOK'
  BY FeedKeepsBase DEF BaseInv
<1>1. /\ feed # <<>> /\ feed' = Tail(feed) /\ working' = working
  BY DEF TakeFeed
<1>2. PICK m : m = feed[1]
  OBVIOUS
<1>3. m \in FeedMsg /\ ReportGenuine(m) /\ m = Head(feed)
  BY <1>0, <1>1, <1>2, FeedTail DEF MessagesGenuine
<1>4. IF m.kind = "position" THEN OnPosition(m.product, m.qty) ELSE OnExecution(m)
  BY <1>3 DEF TakeFeed
<1>5. ASSUME NEW a \in Cid, Announced(a), ~About(m, "new", a) PROVE Announced(a)'
  BY <1>0, <1>1, <1>2, <1>5, AnnouncedTail
<1>6. CASE m.kind = "position"
  <2>1. UNCHANGED <<cid_to_product, place_waiting, cancel_waiting>>
    BY <1>4, <1>6 DEF OnPosition, orderVars, waitVars
  <2>2. NoWaitOutlivesItsOrder'
    BY <2>1 DEF WaitsEnd, NoWaitOutlivesItsOrder, Waiting
  <2> QED BY <1>5, <1>6, <2>1, <2>2 DEF WaitsEnd, About
<1>7. CASE m.kind # "position"
  <2>1. OnExecution(m)
    BY <1>4, <1>7
  <2>2. PICK c \in Cid : OnOrder(m, c)
    BY <1>3, <1>7 DEF ReportGenuine
  <2>3. m.order_no = VenueNo[c]
    BY <2>2 DEF OnOrder
  <2>4. PICK t : t = TargetCid(m)
    OBVIOUS
  <2>5. PICK p : p = TargetProduct(m)
    OBVIOUS
  <2>6. /\ p \in Product /\ t \in Cid \cup {None}
        /\ t # None => /\ cid_to_product[t] = p
                       /\ cid_to_order_no[p][t] = VenueNo[c] \/ (EchoesCid /\ t = c)
        /\ \/ /\ t # None /\ m.kind = "canceled"
              /\ Only(p, t) /\ Forgotten(p, t)
              /\ t \notin cancel_waiting'[p] /\ (t \in place_waiting'[p] <=> t \in place_waiting[p])
           \/ /\ t # None /\ m.kind = "new"
              /\ Only(p, t) /\ Bound(p, t, VenueNo[c])
              /\ t \notin place_waiting'[p] /\ (t \in cancel_waiting'[p] <=> t \in cancel_waiting[p])
           \/ t = None /\ m.kind = "new" /\ Adopted(p, VenueNo[c], m.qty)
           \/ /\ t # None /\ m.kind = "fill"
              /\ Only(p, t) /\ Forgotten(p, t)
              /\ t \notin cancel_waiting'[p] /\ t \notin place_waiting'[p]
           \/ /\ m.kind # "new" /\ UNCHANGED <<cid_to_product, place_waiting, cancel_waiting>>
    BY <1>0, <1>3, <1>7, <2>1, <2>3, <2>4, <2>5, ReportEffect DEF Untouched
  <2>7. ASSUME NEW q \in Product, NEW a \in Cid, a \in Waiting(q)
        PROVE  cid_to_product[a] = q /\ a <= last_cid
    BY <1>0, <2>7 DEF WaitsEnd, NoWaitOutlivesItsOrder, WaitInv, WaitsOwned
  <2>8. \* a canceled report is never on an order whose place is waited for
        ASSUME t # None, m.kind = "canceled" PROVE t \notin place_waiting[p]
    <3> SUFFICES ASSUME t \in place_waiting[p] PROVE FALSE
      OBVIOUS
    <3>1. t \in Cid /\ VenueNo[c] # None
      BY <2>6, <2>8, VenueAssumption, NoneAssumption
    <3>2. cid_to_order_no[p][t] = None
      BY <1>0, <2>6, <3>1 DEF WaitInv, CancelWaitIsForKnownOrder
    <3>3. EchoesCid /\ t = c
      BY <2>6, <2>8, <3>1, <3>2
    <3>4. Announced(c)
      BY <2>6, <3>1, <3>3 DEF WaitsEnd
    <3>5. About(feed[1], "canceled", c) /\ 1 \in 1..Len(feed)
      BY <1>0, <1>1, <1>2, <2>3, <2>8, FeedTail DEF About
    <3>6. PICK j \in 1..(1 - 1) : About(feed[j], "new", c)
      BY <3>4, <3>5 DEF Announced
    <3> QED BY <3>6
  <2>9. ASSUME NEW q \in Product, NEW a \in Cid, a \in Waiting(q)'
        PROVE  a \in Waiting(q) /\ cid_to_product'[a] = q
               /\ (a \in place_waiting'[q] => a \in place_waiting[q])
    <3>1. CASE m.kind # "new" /\ UNCHANGED <<cid_to_product, place_waiting, cancel_waiting>>
      BY <2>7, <2>9, <3>1 DEF Waiting
    <3>2. CASE t = None /\ m.kind = "new" /\ Adopted(p, VenueNo[c], m.qty)
      <4>1. a \in Waiting(q) /\ (a \in place_waiting'[q] => a \in place_waiting[q])
        BY <2>9, <3>2 DEF Adopted, Waiting
      <4>2. a # last_cid + 1
        <5>1. a \in Int /\ last_cid \in Int
          BY <1>0, BoundsAssumption DEF TypeOK, Cid
        <5> QED BY <2>7, <4>1, <5>1
      <4> QED BY <2>7, <3>2, <4>1, <4>2 DEF Adopted
    <3>3. CASE t # None /\ Only(p, t) /\ (q # p \/ a # t)
      <4>1. a \in Waiting(q) /\ (a \in place_waiting'[q] => a \in place_waiting[q])
        BY <2>9, <3>3 DEF Only, Waiting
      <4>2. cid_to_product[a] = q
        BY <2>7, <4>1
      <4>3. a # t
        BY <2>6, <3>3, <4>2
      <4> QED BY <3>3, <4>1, <4>2, <4>3 DEF Only
    <3>4. CASE /\ t # None /\ Only(p, t) /\ q = p /\ a = t
               /\ ~(m.kind # "new" /\ UNCHANGED <<cid_to_product, place_waiting, cancel_waiting>>)
      <4>1. m.kind = "new" /\ Bound(p, t, VenueNo[c])
            /\ t \notin place_waiting'[p] /\ (t \in cancel_waiting'[p] <=> t \in cancel_waiting[p])
        BY <2>6, <2>8, <2>9, <3>4 DEF Waiting
      <4>2. a \in Waiting(q) /\ a \notin place_waiting'[q]
        BY <2>9, <3>4, <4>1 DEF Waiting
      <4> QED BY <2>7, <3>4, <4>1, <4>2 DEF Bound
    <3> QED BY <2>6, <3>1, <3>2, <3>3, <3>4
  <2>10. NoWaitOutlivesItsOrder'
    <3> SUFFICES ASSUME NEW q \in Product, NEW a \in Waiting(q)' PROVE cid_to_product'[a] = q
      BY DEF NoWaitOutlivesItsOrder
    <3>1. a \in Cid
      BY <1>t DEF TypeOK, Waiting
    <3> QED BY <2>9, <3>1
  <2>11. ASSUME EchoesCid, NEW q \in Product, NEW a \in Cid, a \in place_waiting'[q] PROVE Announced(a)'
    <3>1. a \in place_waiting[q] /\ a \in Waiting(q)
      BY <2>9, <2>11 DEF Waiting
    <3>2. Announced(a) /\ cid_to_product[a] = q
      BY <2>7, <2>11, <3>1 DEF WaitsEnd
    <3>3. ~About(m, "new", a)
      <4> SUFFICES ASSUME About(m, "new", a) PROVE FALSE
        OBVIOUS
      <4>1. a = c /\ m.kind = "new"
        BY <2>3, VenueAssumption DEF About
      <4>2. m.client_order_id = a /\ a # None /\ q # None
        BY <2>2, <2>11, <4>1, NoneAssumption DEF OnOrder, Cid
      <4>3. HaveCid(m) /\ t = a /\ p = q
        BY <2>4, <2>5, <3>2, <4>2 DEF HaveCid, TargetCid, TargetProduct
      <4> QED BY <2>6, <2>11, <4>1, <4>2, <4>3
    <3> QED BY <1>5, <3>2, <3>3
  <2> QED BY <2>10, <2>11 DEF WaitsEnd
<1> QED BY <1>6, <1>7

\* An order on the books is known.
LEMMA OutstandingKnown ==
  ASSUME BaseInv, NEW p \in Product, NEW c \in Cid, outstanding[p][c] # None
  PROVE  cid_to_product[c] = p /\ c <= last_cid
<1>1. cid_to_product[c] = p
  BY DEF BaseInv, IndexInv, RoutingConsistent
<1>2. c \in Int /\ last_cid \in Int
  BY BoundsAssumption DEF BaseInv, TypeOK, Cid
<1> QED BY <1>1, <1>2 DEF BaseInv, IndexInv, Fresh

\* A decision waits only for orders whose answer or report is still to come.
LEMMA DecideKeepsWaitsEnd ==
  ASSUME BaseInv, WaitsEnd, Decide
  PROVE  WaitsEnd'
<1>0. TypeOK /\ IndexInv /\ WaitInv
  BY DEF BaseInv
<1>1. PICK p \in Product, lots \in Placements :
        \E cancels \in SUBSET Outstanding(p) :
          UpdateOrders(p, cancels, lots) /\ UNCHANGED <<feed, working>>
  BY DEF Decide
<1>2. PICK cancels \in SUBSET Outstanding(p) :
          UpdateOrders(p, cancels, lots) /\ UNCHANGED <<feed, working>>
  BY <1>1
<1>3. PICK sent : sent = {c \in cancels : cid_to_order_no[p][c] # None}
  OBVIOUS
<1>4. PICK new : new = DOMAIN lots
  OBVIOUS
<1>5. Decided(p, sent, new, lots)
  BY <1>0, <1>2, <1>3, <1>4, DecisionEffect
<1>6. /\ new \subseteq Cid /\ sent \subseteq Outstanding(p)
      /\ \A a \in Cid : a \in new <=> a > last_cid /\ a <= last_cid'
      /\ \A a \in new : placed[a] = None
      /\ \A a \in Cid : cid_to_product'[a] = IF a \in new THEN p ELSE cid_to_product[a]
      /\ \A q \in Product :
           /\ place_waiting'[q] = IF q = p THEN new ELSE place_waiting[q]
           /\ cancel_waiting'[q] = IF q = p THEN sent ELSE cancel_waiting[q]
  BY <1>5 DEF Decided
<1>7. last_cid \in Int /\ \A a \in Cid : a \in Int
  BY <1>0, BoundsAssumption DEF TypeOK, Cid
<1>8. ASSUME NEW q \in Product, NEW a \in Cid, a \in Waiting(q) PROVE cid_to_product[a] = q /\ a \notin new
  <2>1. cid_to_product[a] = q /\ a <= last_cid
    BY <1>0, <1>8 DEF WaitsEnd, NoWaitOutlivesItsOrder, WaitInv, WaitsOwned
  <2> QED BY <1>6, <1>7, <2>1
<1>9. NoWaitOutlivesItsOrder'
  <2> SUFFICES ASSUME NEW q \in Product, NEW a \in Waiting(q)' PROVE cid_to_product'[a] = q
    BY DEF NoWaitOutlivesItsOrder
  <2>1. CASE q # p
    <3>1. a \in Waiting(q) /\ a \in Cid
      BY <1>0, <1>6, <2>1 DEF Waiting, TypeOK
    <3> QED BY <1>6, <1>8, <3>1
  <2>2. CASE q = p /\ a \in new
    BY <1>6, <2>2
  <2>3. CASE q = p /\ a \in sent
    <3>1. a \in Cid /\ outstanding[p][a] # None
      BY <1>6, <2>3 DEF Outstanding
    <3>2. cid_to_product[a] = p
      BY <3>1, OutstandingKnown
    <3> QED BY <1>6, <2>3, <3>1, <3>2
  <2> QED BY <1>6, <2>1, <2>2, <2>3 DEF Waiting
<1>10. ASSUME EchoesCid, NEW q \in Product, NEW a \in Cid, a \in place_waiting'[q] PROVE Announced(a)'
  <2>1. Announced(a)
    BY <1>6, <1>10, UnplacedAnnounced DEF WaitsEnd
  <2> QED BY <1>2, <2>1 DEF Announced
<1> QED BY <1>9, <1>10 DEF WaitsEnd

\* So does a round of cancels.
LEMMA CancelRoundKeepsWaitsEnd ==
  ASSUME BaseInv, WaitsEnd, SendCancelRound
  PROVE  WaitsEnd'
<1>0. TypeOK /\ IndexInv /\ WaitInv
  BY DEF BaseInv
<1>1. CancelRound /\ UNCHANGED <<feed, working>>
  BY DEF SendCancelRound
<1>2. /\ \A p \in Product : cancel_waiting'[p] = cancel_waiting[p] \cup Cancellable(p)
      /\ UNCHANGED <<cid_to_product, place_waiting>>
  BY <1>0, <1>1, CancelRoundEffect
<1>3. ASSUME NEW p \in Product, NEW c \in Cancellable(p) PROVE cid_to_product[c] = p
  <2>1. c \in Cid /\ outstanding[p][c] # None
    BY DEF Cancellable, Outstanding
  <2> QED BY <2>1, OutstandingKnown
<1>4. NoWaitOutlivesItsOrder'
  BY <1>2, <1>3 DEF WaitsEnd, NoWaitOutlivesItsOrder, Waiting
<1>5. \A c \in Cid : Announced(c) => Announced(c)'
  BY <1>1 DEF Announced
<1> QED BY <1>2, <1>4, <1>5 DEF WaitsEnd

\* So does a market order to flatten.
LEMMA MarketKeepsWaitsEnd ==
  ASSUME BaseInv, WaitsEnd, NEW p \in Product, SendMarketFlatten(p)
  PROVE  WaitsEnd'
<1>0. TypeOK /\ IndexInv /\ WaitInv
  BY DEF BaseInv
<1>1. PICK c : c = last_cid + 1
  OBVIOUS
<1>2. /\ c \in Cid /\ placed[c] = None
      /\ \A a \in Cid : cid_to_product'[a] = IF a = c THEN p ELSE cid_to_product[a]
      /\ \A q \in Product, a \in Cid :
              a \in place_waiting'[q] <=> a \in place_waiting[q] \/ (q = p /\ a = c)
      /\ UNCHANGED <<cancel_waiting, feed, working>>
  BY <1>1, MarketEffect
<1>3. last_cid \in Int /\ \A a \in Cid : a \in Int
  BY <1>0, BoundsAssumption DEF TypeOK, Cid
<1>4. ASSUME NEW q \in Product, NEW a \in Cid, a \in Waiting(q) PROVE cid_to_product[a] = q /\ a # c
  <2>1. cid_to_product[a] = q /\ a <= last_cid
    BY <1>0, <1>4 DEF WaitsEnd, NoWaitOutlivesItsOrder, WaitInv, WaitsOwned
  <2> QED BY <1>1, <1>3, <2>1
<1>5. NoWaitOutlivesItsOrder'
  <2> SUFFICES ASSUME NEW q \in Product, NEW a \in Waiting(q)' PROVE cid_to_product'[a] = q
    BY DEF NoWaitOutlivesItsOrder
  <2>1. TypeOK'
    BY MarketKeepsBase DEF BaseInv
  <2>2. a \in Cid
    BY <2>1 DEF TypeOK, Waiting
  <2>3. a \in Waiting(q) \/ (q = p /\ a = c)
    BY <1>2, <2>2 DEF Waiting
  <2> QED BY <1>2, <1>4, <2>2, <2>3
<1>6. ASSUME EchoesCid, NEW q \in Product, NEW a \in Cid, a \in place_waiting'[q] PROVE Announced(a)'
  <2>1. Announced(a)
    BY <1>2, <1>6, UnplacedAnnounced DEF WaitsEnd
  <2> QED BY <1>2, <2>1 DEF Announced
<1> QED BY <1>5, <1>6 DEF WaitsEnd

\* The world a behaviour is set in is the same throughout.
LEMMA WorldStays ==
  ASSUME [SysNext]_sysVars
  PROVE  world' = world
<1>1. ASSUME StartUp \/ Stop \/ EndStage \/ (\E p \in Product : Clock(p)) PROVE world' = world
  BY <1>1 DEF StartUp, Stop, EndStage, Clock
<1>2. ASSUME TakeReply \/ TakeFeed \/ Decide \/ SendCancelRound
             \/ (\E p \in Product : SendMarketFlatten(p)) PROVE world' = world
  BY <1>2 DEF TakeReply, TakeFeed, Decide, SendCancelRound, SendMarketFlatten
<1>3. ASSUME VenueStep PROVE world' = world
  BY <1>3 DEF VenueStep, VenueTakes, VenueFills, VenueExpires, SessionDown, SessionUp, FeedGap
<1>4. ASSUME SignalStep \/ Finished \/ UNCHANGED sysVars PROVE world' = world
  BY <1>4 DEF SignalStep, FirstSignal, FirstStamped, GraceEnds, RepeatSignal, Finished, sysVars
<1> QED BY <1>1, <1>2, <1>3, <1>4 DEF SysNext, TraderStep

\* No step of a system whose feed loses nothing breaks WaitsEnd.
LEMMA WaitsEndNext ==
  ASSUME BaseInv, WaitsEnd, ~world.feedGaps, [SysNext]_sysVars
  PROVE  WaitsEnd'
<1>1. ASSUME UNCHANGED <<cid_to_product, place_waiting, cancel_waiting>>,
             \A c \in Cid : Announced(c) => Announced(c)'
      PROVE  WaitsEnd'
  BY <1>1 DEF WaitsEnd, NoWaitOutlivesItsOrder, Waiting
<1>2. CASE Idle \/ SessionDown
  <2>1. UNCHANGED <<cid_to_product, place_waiting, cancel_waiting, feed, working>>
    BY <1>2 DEF Idle, orderVars, venueVars, SessionDown, vars, waitVars
  <2>2. \A c \in Cid : Announced(c) => Announced(c)'
    BY <2>1 DEF Announced
  <2> QED BY <1>1, <2>1, <2>2
<1>3. CASE VenueTakes \/ VenueFills \/ VenueExpires
  <2>1. UNCHANGED vars
    BY <1>3 DEF VenueTakes, VenueFills, VenueExpires
  <2>2. UNCHANGED <<cid_to_product, place_waiting, cancel_waiting>>
    BY <2>1 DEF vars, orderVars, waitVars
  <2> QED BY <1>1, <1>3, <2>2, VenueAnnounces
<1>4. ~FeedGap
  BY DEF FeedGap
<1> QED BY <1>2, <1>3, <1>4, StepCases, ReplyKeepsWaitsEnd, FeedKeepsWaitsEnd,
           DecideKeepsWaitsEnd, CancelRoundKeepsWaitsEnd, MarketKeepsWaitsEnd

\* Nothing is waited for when the program starts.
LEMMA WaitsEndInit ==
  ASSUME SysInit
  PROVE  WaitsEnd
  BY DEF SysInit, Init, WaitsEnd, NoWaitOutlivesItsOrder, Waiting

\* Unless the user stream loses a report, no wait outlives its order: whichever way
\* the reply to a place, its NEW report, fills, the cancel and its report overtake
\* each other, on a session that drops and with replies that time out, on_execution
\* and on_order_response never leave a forgotten order in a waiting set, where it
\* would stall the decisions for its product.
THEOREM NoWaitOutlives == SysSpec => [](~world.feedGaps => NoWaitOutlivesItsOrder)
<1> DEFINE I == ~world.feedGaps => WaitsEnd
<1>1. SysInit => I
  BY WaitsEndInit
<1>2. BaseInv /\ I /\ [SysNext]_sysVars => I'
  BY WaitsEndNext, WorldStays
<1>3. I => (~world.feedGaps => NoWaitOutlivesItsOrder)
  BY DEF WaitsEnd
<1> QED BY <1>1, <1>2, <1>3, MessagesAreGenuine, PTL DEF SysSpec

-----------------------------------------------------------------------------
(* What is left of an order as its reports are taken.                      *)

\* The lots of an order that a report says were filled.
LEMMA FillLotsNat ==
  ASSUME NEW m \in FeedMsg, ReportGenuine(m), NEW c \in Cid
  PROVE  FillLots(m, c) \in Nat
  BY DEF FillLots, About, ReportGenuine

\* One report is taken: its lots come off.
LEMMA CoversTail ==
  ASSUME BaseInv, feed # <<>>, feed' = Tail(feed), NEW w \in Nat, NEW c \in Cid, NEW n \in Nat,
         NEW k \in Nat, n <= k + FillLots(feed[1], c), Covers(feed, w, c, n)
  PROVE  Covers(feed', w, c, k) /\ w + FillLots(feed[1], c) <= n
<1>1. /\ Len(feed) \in Nat /\ Len(feed) >= 1 /\ feed[1] \in FeedMsg /\ Len(feed') = Len(feed) - 1
      /\ \A i \in 1..Len(feed') : i + 1 \in 1..Len(feed) /\ feed'[i] = feed[i + 1]
  BY FeedTail DEF BaseInv
<1>2. FillLots(feed[1], c) \in Nat
  <2>1. ReportGenuine(feed[1])
    BY <1>1 DEF BaseInv, MessagesGenuine
  <2> QED BY <1>1, <2>1, FillLotsNat
<1>3. PICK left \in [0..Len(feed) -> Nat] :
        /\ left[0] <= n
        /\ \A i \in 1..Len(feed) : left[i] + FillLots(feed[i], c) <= left[i - 1]
        /\ \A i \in 0..Len(feed) : w <= left[i]
  BY DEF Covers
<1>4. left[0] \in Nat /\ left[1] \in Nat /\ left[1] + FillLots(feed[1], c) <= left[0] /\ w <= left[1]
  <2>1. 1 \in 1..Len(feed) /\ 1 \in 0..Len(feed) /\ 0 \in 0..Len(feed) /\ 1 - 1 = 0
    BY <1>1
  <2> QED BY <1>3, <2>1
<1> DEFINE new == [i \in 0..Len(feed') |-> left[i + 1]]
<1>5. new \in [0..Len(feed') -> Nat] /\ \A i \in 0..Len(feed') : new[i] = left[i + 1] /\ w <= left[i + 1]
  <2>1. \A i \in 0..Len(feed') : i + 1 \in 0..Len(feed)
    BY <1>1
  <2> QED BY <1>3, <2>1
<1>6. new[0] = left[1]
  <2>1. 0 \in 0..Len(feed') /\ 0 + 1 = 1
    BY <1>1
  <2> QED BY <1>5, <2>1
<1>7. new[0] <= k
  BY <1>2, <1>3, <1>4, <1>6
<1>8. ASSUME NEW i \in 1..Len(feed') PROVE new[i] + FillLots(feed'[i], c) <= new[i - 1]
  <2>1. i \in 0..Len(feed') /\ i - 1 \in 0..Len(feed') /\ (i - 1) + 1 = i /\ (i + 1) - 1 = i
    BY <1>1
  <2>2. i + 1 \in 1..Len(feed) /\ feed'[i] = feed[i + 1]
    BY <1>1
  <2>3. left[i + 1] + FillLots(feed[i + 1], c) <= left[(i + 1) - 1]
    BY <1>3, <2>2
  <2>4. new[i] = left[i + 1] /\ new[i - 1] = left[i]
    BY <1>5, <2>1
  <2> QED BY <2>1, <2>2, <2>3, <2>4
<1>9. \A i \in 0..Len(feed') : w <= new[i]
  BY <1>5
<1> HIDE DEF new
<1>10. Covers(feed', w, c, k)
  BY <1>5, <1>7, <1>8, <1>9 DEF Covers
<1> QED BY <1>2, <1>3, <1>4, <1>10

\* Reports are added, d lots filled with the first of them.
LEMMA CoversGrown ==
  ASSUME Grown, NEW w \in Nat, NEW c \in Cid, NEW n \in Nat, NEW d \in Nat, d <= w,
         Covers(feed, w, c, n),
         \A k \in (Len(feed) + 1)..Len(feed') :
           FillLots(feed'[k], c) = IF k = Len(feed) + 1 THEN d ELSE 0
  PROVE  Covers(feed', w - d, c, n)
<1>1. /\ Len(feed) \in Nat /\ Len(feed') \in Nat /\ Len(feed) <= Len(feed')
      /\ \A i \in 1..Len(feed) : i \in 1..Len(feed') /\ feed'[i] = feed[i]
  BY DEF Grown
<1>2. PICK left \in [0..Len(feed) -> Nat] :
        /\ left[0] <= n
        /\ \A i \in 1..Len(feed) : left[i] + FillLots(feed[i], c) <= left[i - 1]
        /\ \A i \in 0..Len(feed) : w <= left[i]
  BY DEF Covers
<1>3. PICK L : L = Len(feed)
  OBVIOUS
<1>4. left[L] \in Nat /\ w <= left[L]
  BY <1>1, <1>2, <1>3
<1> DEFINE new == [i \in 0..Len(feed') |-> IF i <= L THEN left[i] ELSE left[L] - d]
<1>5. new \in [0..Len(feed') -> Nat]
  <2> SUFFICES ASSUME NEW i \in 0..Len(feed') PROVE (IF i <= L THEN left[i] ELSE left[L] - d) \in Nat
    OBVIOUS
  <2> QED BY <1>1, <1>2, <1>3, <1>4
<1>6. \A i \in 0..L : new[i] = left[i]
  BY <1>1, <1>3
<1>7. \A i \in (L + 1)..Len(feed') : new[i] = left[L] - d
  BY <1>1, <1>3
<1> HIDE DEF new
<1>8. new[0] <= n
  BY <1>1, <1>2, <1>3, <1>6
<1>9. ASSUME NEW i \in 1..Len(feed') PROVE new[i] + FillLots(feed'[i], c) <= new[i - 1]
  <2>1. CASE i \in 1..L
    <3>1. i \in 0..L /\ i - 1 \in 0..L
      BY <1>1, <1>3, <2>1
    <3> QED BY <1>1, <1>2, <1>3, <1>6, <2>1, <3>1
  <2>2. CASE i = L + 1
    <3>1. i \in (L + 1)..Len(feed') /\ i - 1 = L /\ L \in 0..L
      BY <1>1, <1>3, <2>2
    <3>2. new[i] = left[L] - d /\ new[i - 1] = left[L] /\ FillLots(feed'[i], c) = d
      BY <1>3, <1>6, <1>7, <2>2, <3>1
    <3> QED BY <1>4, <3>2
  <2>3. CASE i > L + 1
    <3>1. i \in (L + 1)..Len(feed') /\ i - 1 \in (L + 1)..Len(feed') /\ i # L + 1
      BY <1>1, <1>3, <2>3
    <3>2. new[i] = left[L] - d /\ new[i - 1] = left[L] - d /\ FillLots(feed'[i], c) = 0
      BY <1>3, <1>7, <3>1
    <3> QED BY <1>4, <3>2
  <2> QED BY <1>1, <1>3, <2>1, <2>2, <2>3
<1>10. ASSUME NEW i \in 0..Len(feed') PROVE w - d <= new[i]
  <2>1. CASE i \in 0..L
    BY <1>2, <1>3, <1>6, <2>1
  <2>2. CASE i \in (L + 1)..Len(feed')
    BY <1>4, <1>7, <2>2
  <2> QED BY <1>1, <1>3, <2>1, <2>2
<1> QED BY <1>5, <1>8, <1>9, <1>10 DEF Covers

\* Nothing told of it: nothing comes off.
LEMMA CoversUnreported ==
  ASSUME NEW f \in Seq(FeedMsg), NEW c \in Cid, NEW n \in Nat, \A i \in 1..Len(f) : FillLots(f[i], c) = 0
  PROVE  Covers(f, n, c, n)
<1>1. Len(f) \in Nat
  BY LenProperties
<1> DEFINE left == [i \in 0..Len(f) |-> n]
<1>2. left \in [0..Len(f) -> Nat] /\ \A i \in 0..Len(f) : left[i] = n
  OBVIOUS
<1>3. \A i \in 1..Len(f) : i \in 0..Len(f) /\ i - 1 \in 0..Len(f)
  BY <1>1
<1> HIDE DEF left
<1>4. \A i \in 1..Len(f) : left[i] + FillLots(f[i], c) <= left[i - 1]
  BY <1>2, <1>3
<1>5. left[0] <= n
  BY <1>1, <1>2
<1> QED BY <1>2, <1>4, <1>5 DEF Covers

-----------------------------------------------------------------------------
(* Where requests are answered in time and cancels work, no order is lost. *)

\* A request on the wire.
LEMMA RequestFacts ==
  ASSUME BaseInv, NEW i \in 1..Len(requests)
  PROVE  /\ requests[i] \in RequestMsg /\ requests[i].cid \in Cid /\ requests[i].product \in Product
         /\ requests[i].lots \in Nat /\ requests[i].kind \in {"place", "market", "cancel"}
         /\ requests[i].cid <= last_cid
         /\ requests[i].kind # "cancel" => /\ placed[requests[i].cid] = requests[i].product
                                           /\ placed[requests[i].cid] # None /\ requests[i].lots > 0
         /\ requests[i].kind = "cancel" => /\ requests[i].order_no \in OrderNo
                                           /\ Bears(requests[i].cid, requests[i].order_no)
<1> DEFINE q == requests[i]
<1>1. q \in RequestMsg /\ RequestGenuine(q)
  BY ElementOfSeq DEF BaseInv, SysTypes, MessagesGenuine
<1>2. /\ q.cid \in Cid /\ q.product \in Product /\ q.lots \in Nat
      /\ q.kind \in {"place", "market", "cancel"} /\ q.product # None
  BY <1>1, NoneAssumption DEF RequestMsg
<1> HIDE DEF q
<1>3. /\ q.kind # "cancel" => placed[q.cid] = q.product /\ placed[q.cid] # None /\ q.lots > 0
      /\ q.kind = "cancel" => q.order_no \in OrderNo /\ Bears(q.cid, q.order_no)
  BY <1>1, <1>2 DEF RequestGenuine
<1>4. q.cid <= last_cid
  <2>1. q.cid \in Int /\ last_cid \in Int
    BY <1>2, BoundsAssumption DEF BaseInv, TypeOK, Cid
  <2>2. CASE q.kind = "cancel"
    BY <1>3, <2>2 DEF Bears
  <2>3. CASE q.kind # "cancel"
    BY <1>2, <1>3, <2>1, <2>3 DEF BaseInv, IndexInv, Fresh
  <2> QED BY <2>2, <2>3
<1> QED BY <1>1, <1>2, <1>3, <1>4 DEF q

\* An order of ours is found only by its own number.
LEMMA OwnTarget ==
  ASSUME BaseInv, NEW p \in Product, NEW t \in Cid, NEW c \in Cid, placed[t] # None,
         cid_to_order_no[p][t] = VenueNo[c] \/ t = c
  PROVE  t = c
<1>1. VenueNo[c] # None
  BY VenueAssumption, NoneAssumption
<1>2. cid_to_order_no[p][t] \in {VenueNo[t], None}
  BY DEF BaseInv, IndexInv, OwnNumber
<1> QED BY <1>1, <1>2, VenueAssumption

\* Taking a reply keeps track of every order.
LEMMA ReplyKeepsSound ==
  ASSUME BaseInv, SoundInv, Sound, TakeReply
  PROVE  SoundInv'
<1>0. TypeOK /\ IndexInv /\ WaitInv
  BY DEF BaseInv
<1>1. PICK r \in replies : /\ OnOrderResponse(r) /\ replies' = replies \ {r}
                           /\ UNCHANGED <<world, session, requests, feed, working, holding>>
  BY DEF TakeReply
<1>2. r \in AnswerMsg /\ ReplyGenuine(r) /\ (r.success => r.order_no \in OrderNo /\ r.order_no # None)
  BY NoneAssumption DEF BaseInv, SysTypes, MessagesGenuine, ReplyGenuine
<1>3. PICK c : c = r.cid
  OBVIOUS
<1>4. PICK p : p = cid_to_product[r.cid]
  OBVIOUS
<1>5. phase' = phase /\ phase # "done"
  BY <1>1 DEF OnOrderResponse, Pumping, CancelPhases, controlVars
<1>6. /\ c \in Cid /\ placed' = placed
      /\ \A q \in Product : waiting_since'[q] = "expired" => waiting_since[q] = "expired"
      /\ \/ Untouched
         \/ /\ p \in Product /\ Only(p, c)
            /\ c \notin place_waiting'[p] /\ c \notin cancel_waiting'[p]
            /\ \/ c \in cancel_waiting[p] /\ Forgotten(p, c)
               \/ c \in cancel_waiting[p] /\ Kept(p, c)
               \/ r.success /\ Bound(p, c, r.order_no)
               \/ ~r.success /\ Forgotten(p, c)
               \/ c \notin place_waiting[p] /\ Kept(p, c)
  BY <1>0, <1>1, <1>2, <1>3, <1>4, ReplyEffect DEF ReplyGenuine
<1>7. \A q \in Product, a \in Cid :
        /\ a \in place_waiting'[q] => a \in place_waiting[q]
        /\ a \in cancel_waiting'[q] => a \in cancel_waiting[q]
  BY <1>6 DEF Untouched, Only
<1>8. \A q \in Product, a \in Cid : a # c =>
        /\ outstanding'[q][a] = outstanding[q][a] /\ cid_to_product'[a] = cid_to_product[a]
        /\ a \in place_waiting'[q] <=> a \in place_waiting[q]
        /\ cid_to_order_no'[q][a] = cid_to_order_no[q][a]
  BY <1>6 DEF Untouched, Only
<1>9. InTime'
  BY <1>1, <1>6 DEF SoundInv, InTime
<1>10. SentOnce'
  BY <1>1 DEF SoundInv, SentOnce
<1>11. WireUnheard'
  <2> SUFFICES ASSUME NEW i \in 1..Len(requests), requests[i].kind # "cancel"
               PROVE  /\ Unheard(requests[i].cid)'
                      /\ outstanding'[requests[i].product][requests[i].cid] =
                           IF requests[i].kind = "place" THEN requests[i].lots ELSE None
    BY <1>1 DEF WireUnheard
  <2>1. PICK d : d = requests[i].cid
    OBVIOUS
  <2>2. /\ Unheard(d)
        /\ outstanding[requests[i].product][d] = IF requests[i].kind = "place" THEN requests[i].lots ELSE None
    BY <2>1 DEF SoundInv, WireUnheard
  <2>3. d \in Cid /\ requests[i].product \in Product /\ placed[d] \in Product
    BY <2>1, RequestFacts
  <2>4. d # c
    BY <1>1, <1>3, <2>2 DEF Unheard
  <2>5. Unheard(d)'
    BY <1>1, <1>6, <1>8, <2>2, <2>3, <2>4 DEF Unheard, Reported
  <2> QED BY <1>1, <1>8, <2>1, <2>2, <2>3, <2>4, <2>5
<1>12. CancelAfterPlace'
  BY <1>1, <1>7, RequestFacts DEF SoundInv, CancelAfterPlace
<1>13. RefusalTrue' /\ CanceledTrue'
  BY <1>1 DEF SoundInv, RefusalTrue, CanceledTrue
<1>14. CancelPending'
  BY <1>1, <1>7 DEF SoundInv, CancelPending, CancelOnWire
<1>15. NumberedUnlessWaiting'
  <2> SUFFICES ASSUME NEW q \in Product, NEW a \in Cid, outstanding'[q][a] # None, a \notin place_waiting'[q]
               PROVE  cid_to_order_no'[q][a] # None
    BY DEF NumberedUnlessWaiting
  <2>1. outstanding[q][a] # None /\ a \notin place_waiting[q] => cid_to_order_no[q][a] # None
    BY DEF SoundInv, NumberedUnlessWaiting
  <2>2. CASE Untouched
    BY <2>1, <2>2 DEF Untouched
  <2>3. CASE p \in Product /\ Only(p, c) /\ (q # p \/ a # c)
    BY <2>1, <2>3 DEF Only
  <2>4. CASE p \in Product /\ q = p /\ a = c /\ ~Untouched
    <3>1. c \in cancel_waiting[p] => cid_to_order_no[p][c] # None
      BY <1>0, <1>6, <2>4 DEF WaitInv, CancelWaitIsForKnownOrder
    <3> QED BY <1>2, <1>6, <2>1, <2>4, <3>1 DEF Forgotten, Kept, Bound
  <2> QED BY <1>6, <2>2, <2>3, <2>4
<1>16. Covered'
  <2> SUFFICES ASSUME NEW d \in Cid, working[VenueNo[d]] # None, ~CancelOnWire(VenueNo[d])
               PROVE  /\ outstanding'[placed[d]][d] # None
                      /\ Covers(feed, working[VenueNo[d]].lots, d, outstanding'[placed[d]][d])
    BY <1>1, <1>6 DEF Covered, CancelOnWire
  <2>1. /\ outstanding[placed[d]][d] # None
        /\ Covers(feed, working[VenueNo[d]].lots, d, outstanding[placed[d]][d])
    BY DEF SoundInv, Covered
  <2>2. placed[d] \in Product
    <3>1. placed[d] # None
      BY UnplacedUnknown
    <3> QED BY <1>0, <3>1 DEF TypeOK
  <2>3. outstanding'[placed[d]][d] = outstanding[placed[d]][d]
    <3>1. CASE d # c \/ Untouched
      BY <1>8, <2>2, <3>1 DEF Untouched
    <3>2. CASE d = c /\ p \in Product /\ Only(p, c) /\ p # placed[d]
      BY <2>2, <3>2 DEF Only
    <3>3. CASE d = c /\ p = placed[d] /\ ~Untouched
      <4>1. c \notin cancel_waiting[p]
        BY <1>6, <2>2, <3>3 DEF SoundInv, CancelPending
      <4>2. r.success
        BY <1>1, <1>3, <3>3 DEF SoundInv, RefusalTrue
      <4> QED BY <1>6, <3>3, <4>1, <4>2 DEF Bound, Kept
    <3> QED BY <1>6, <3>1, <3>2, <3>3
  <2> QED BY <2>1, <2>3
<1>17. DoneEmpty'
  BY <1>5 DEF DoneEmpty
<1>18. OneQuote'
  BY <1>1 DEF SoundInv, OneQuote
<1> QED BY <1>9, <1>10, <1>11, <1>12, <1>13, <1>14, <1>15, <1>16, <1>17, <1>18 DEF SoundInv

\* A report that changes nothing but the position is taken, or one is lost.
LEMMA SkipKeepsSound ==
  ASSUME BaseInv, SoundInv, Sound, feed # <<>>, feed' = Tail(feed),
         UNCHANGED <<placed, outstanding, cid_to_order_no, cid_to_product, place_waiting,
                     cancel_waiting, waiting_since, phase>>,
         UNCHANGED <<world, session, requests, replies, working, holding>>
  PROVE  SoundInv'
<1>1. /\ Len(feed) \in Nat
      /\ \A i \in 1..Len(feed') : i + 1 \in 1..Len(feed) /\ feed'[i] = feed[i + 1]
  BY FeedTail DEF BaseInv
<1>2. InTime' /\ SentOnce' /\ CancelAfterPlace' /\ RefusalTrue' /\ CancelPending'
      /\ NumberedUnlessWaiting' /\ DoneEmpty' /\ OneQuote'
  BY DEF SoundInv, InTime, SentOnce, CancelAfterPlace, RefusalTrue, CancelPending, CancelOnWire,
         NumberedUnlessWaiting, DoneEmpty, OneQuote, NoOrdersOutstanding, Outstanding
<1>3. \A c \in Cid : Reported(c)' => Reported(c)
  BY <1>1 DEF Reported
<1>4. CanceledTrue'
  BY <1>1 DEF SoundInv, CanceledTrue
<1>5. WireUnheard'
  <2> SUFFICES ASSUME NEW i \in 1..Len(requests), requests[i].kind # "cancel"
               PROVE  /\ Unheard(requests[i].cid)'
                      /\ outstanding'[requests[i].product][requests[i].cid] =
                           IF requests[i].kind = "place" THEN requests[i].lots ELSE None
    BY DEF WireUnheard
  <2>1. PICK d : d = requests[i].cid
    OBVIOUS
  <2>2. /\ Unheard(d)
        /\ outstanding[requests[i].product][d] = IF requests[i].kind = "place" THEN requests[i].lots ELSE None
    BY <2>1 DEF SoundInv, WireUnheard
  <2>3. d \in Cid
    BY <2>1, RequestFacts
  <2>4. Unheard(d)'
    BY <1>3, <2>2, <2>3 DEF Unheard
  <2> QED BY <2>1, <2>2, <2>4
<1>6. Covered'
  <2> SUFFICES ASSUME NEW d \in Cid, working[VenueNo[d]] # None, ~CancelOnWire(VenueNo[d])
               PROVE  /\ outstanding[placed[d]][d] # None
                      /\ Covers(feed', working[VenueNo[d]].lots, d, outstanding[placed[d]][d])
    BY DEF Covered, CancelOnWire
  <2>1. /\ outstanding[placed[d]][d] # None
        /\ Covers(feed, working[VenueNo[d]].lots, d, outstanding[placed[d]][d])
    BY DEF SoundInv, Covered
  <2>2. placed[d] \in Product /\ outstanding[placed[d]][d] \in Nat
    <3>1. placed[d] # None
      BY UnplacedUnknown
    <3>2. placed[d] \in Product
      BY <3>1 DEF BaseInv, TypeOK
    <3> QED BY <2>1, <3>2 DEF BaseInv, TypeOK
  <2>3. working[VenueNo[d]].lots \in Nat
    BY WorkingFacts, VenueAssumption
  <2>4. FillLots(feed[1], d) \in Nat
    <3>1. feed[1] \in FeedMsg /\ ReportGenuine(feed[1])
      BY FeedTail DEF BaseInv, MessagesGenuine
    <3> QED BY <3>1, FillLotsNat
  <2>5. outstanding[placed[d]][d] <= outstanding[placed[d]][d] + FillLots(feed[1], d)
    BY <2>2, <2>4
  <2> QED BY <2>1, <2>2, <2>3, <2>5, CoversTail
<1> QED BY <1>2, <1>4, <1>5, <1>6 DEF SoundInv

\* Taking a report or a position off the feed keeps track of every order.
LEMMA FeedKeepsSound ==
  ASSUME BaseInv, SoundInv, Sound, TakeFeed
  PROVE  SoundInv'
<1>0. TypeOK /\ IndexInv /\ WaitInv /\ SysTypes /\ MessagesGenuine
  BY DEF BaseInv
<1>1. /\ feed # <<>> /\ feed' = Tail(feed)
      /\ UNCHANGED <<world, session, requests, replies, working, holding>>
  BY DEF TakeFeed
<1>2. PICK m : m = feed[1]
  OBVIOUS
<1>3. /\ m \in FeedMsg /\ ReportGenuine(m) /\ m = Head(feed) /\ 1 \in 1..Len(feed)
      /\ Len(feed) \in Nat
      /\ \A i \in 1..Len(feed') : i + 1 \in 1..Len(feed) /\ feed'[i] = feed[i + 1]
  BY <1>0, <1>1, <1>2, FeedTail DEF MessagesGenuine
<1>4. IF m.kind = "position" THEN OnPosition(m.product, m.qty) ELSE OnExecution(m)
  BY <1>3 DEF TakeFeed
<1>5. CASE m.kind = "position"
  <2>1. UNCHANGED <<placed, outstanding, cid_to_order_no, cid_to_product, place_waiting,
                     cancel_waiting, waiting_since, phase>>
    BY <1>4, <1>5 DEF OnPosition, orderVars, waitVars, controlVars
  <2> QED BY <1>1, <2>1, SkipKeepsSound
<1>6. CASE m.kind # "position"
  <2>1. OnExecution(m)
    BY <1>4, <1>6
  <2>2. PICK c \in Cid : OnOrder(m, c)
    BY <1>3, <1>6 DEF ReportGenuine
  <2>3. m.order_no = VenueNo[c] /\ m.qty \in Nat
    BY <1>3, <1>6, <2>2 DEF OnOrder, ReportGenuine
  <2>4. PICK t : t = TargetCid(m)
    OBVIOUS
  <2>5. PICK p : p = TargetProduct(m)
    OBVIOUS
  <2>n. VenueNo[c] \in OrderNo /\ VenueNo[c] # None /\ None \notin Cid
    BY VenueAssumption, NoneAssumption DEF Cid
  <2>6. /\ p \in Product /\ t \in Cid \cup {None}
        /\ UNCHANGED <<placed, phase>> /\ phase # "done"
        /\ \A q \in Product : waiting_since'[q] = "expired" => waiting_since[q] = "expired"
        /\ t # None => cid_to_order_no[p][t] = VenueNo[c] \/ t = c
        /\ \/ /\ t # None /\ m.kind = "canceled" /\ last_cid' = last_cid
              /\ Only(p, t) /\ Forgotten(p, t)
              /\ t \notin cancel_waiting'[p] /\ (t \in place_waiting'[p] <=> t \in place_waiting[p])
           \/ /\ t # None /\ m.kind = "new" /\ last_cid' = last_cid
              /\ Only(p, t) /\ Bound(p, t, VenueNo[c])
              /\ t \notin place_waiting'[p] /\ (t \in cancel_waiting'[p] <=> t \in cancel_waiting[p])
           \/ t = None /\ m.kind = "new" /\ Adopted(p, VenueNo[c], m.qty)
           \/ /\ t # None /\ m.kind = "fill" /\ last_cid' = last_cid
              /\ LotsLeft(p, t, m) <= 0 /\ Only(p, t) /\ Forgotten(p, t)
              /\ t \notin cancel_waiting'[p] /\ t \notin place_waiting'[p]
           \/ /\ t # None /\ m.kind = "fill" /\ last_cid' = last_cid
              /\ outstanding[p][t] \in Nat /\ outstanding[p][t] > m.qty
              /\ \A q \in Product, a \in Cid : outstanding'[q][a] =
                   IF q = p /\ a = t THEN outstanding[p][t] - m.qty ELSE outstanding[q][a]
              /\ UNCHANGED <<cid_to_order_no, cid_to_product, place_waiting, cancel_waiting>>
           \/ t = None /\ m.kind \in {"fill", "canceled"} /\ Untouched /\ last_cid' = last_cid
    BY <1>0, <1>3, <1>6, <2>1, <2>3, <2>4, <2>5, ReportEffect
  <2>7. \A q \in Product, a \in Cid :
          /\ a \in place_waiting'[q] => a \in place_waiting[q]
          /\ a \in cancel_waiting'[q] => a \in cancel_waiting[q]
    BY <2>6 DEF Untouched, Only, Adopted
  <2>8. \* another order of ours
        ASSUME NEW a \in Cid, placed[a] # None
        PROVE  /\ a = t => a = c
               /\ a # t => \A q \in Product :
                    /\ outstanding'[q][a] = outstanding[q][a] /\ cid_to_product'[a] = cid_to_product[a]
                    /\ a \in place_waiting'[q] <=> a \in place_waiting[q]
    <3>1. a = t => a = c
      BY <2>6, <2>8, <2>n, OwnTarget
    <3>2. a # last_cid + 1
      <4>1. a \in Int /\ last_cid \in Int
        BY <1>0, BoundsAssumption DEF TypeOK, Cid
      <4> QED BY <1>0, <2>8, <4>1 DEF IndexInv, Fresh
    <3> QED BY <2>6, <3>1, <3>2 DEF Untouched, Only, Adopted
  <2>9. InTime'
    BY <1>1, <2>6 DEF SoundInv, InTime
  <2>10. SentOnce' /\ RefusalTrue' /\ OneQuote'
    BY <1>1 DEF SoundInv, SentOnce, RefusalTrue, OneQuote
  <2>11. WireUnheard'
    <3> SUFFICES ASSUME NEW i \in 1..Len(requests), requests[i].kind # "cancel"
                 PROVE  /\ Unheard(requests[i].cid)'
                        /\ outstanding'[requests[i].product][requests[i].cid] =
                             IF requests[i].kind = "place" THEN requests[i].lots ELSE None
      BY <1>1 DEF WireUnheard
    <3>1. PICK d : d = requests[i].cid
      OBVIOUS
    <3>2. /\ Unheard(d)
          /\ outstanding[requests[i].product][d] = IF requests[i].kind = "place" THEN requests[i].lots ELSE None
      BY <3>1 DEF SoundInv, WireUnheard
    <3>3. d \in Cid /\ requests[i].product \in Product /\ placed[d] \in Product /\ placed[d] # None
      BY <3>1, RequestFacts
    <3>4. d # c
      BY <1>2, <1>3, <2>3, <3>2 DEF Unheard, Reported
    <3>5. ~Reported(d)'
      BY <1>3, <3>2 DEF Unheard, Reported
    <3>6. Unheard(d)'
      BY <1>1, <2>6, <2>8, <3>2, <3>3, <3>4, <3>5 DEF Unheard
    <3>7. outstanding'[requests[i].product][d] = outstanding[requests[i].product][d]
      <4>1. d # t
        BY <2>8, <3>3, <3>4
      <4> QED BY <2>8, <3>3, <4>1
    <3> QED BY <1>1, <3>1, <3>2, <3>6, <3>7
  <2>12. CancelAfterPlace'
    BY <1>1, <2>7, RequestFacts DEF SoundInv, CancelAfterPlace
  <2>13. CanceledTrue'
    BY <1>1, <1>3 DEF SoundInv, CanceledTrue
  <2>14. CancelPending'
    BY <1>1, <2>7 DEF SoundInv, CancelPending, CancelOnWire
  <2>15. NumberedUnlessWaiting'
    <3> SUFFICES ASSUME NEW q \in Product, NEW a \in Cid, outstanding'[q][a] # None, a \notin place_waiting'[q]
                 PROVE  cid_to_order_no'[q][a] # None
      BY DEF NumberedUnlessWaiting
    <3>1. outstanding[q][a] # None /\ a \notin place_waiting[q] => cid_to_order_no[q][a] # None
      BY DEF SoundInv, NumberedUnlessWaiting
    <3>2. CASE t = None
      BY <2>6, <2>n, <3>1, <3>2 DEF Untouched, Adopted
    <3>3. CASE t # None /\ (q # p \/ a # t)
      BY <2>6, <3>1, <3>3 DEF Only
    <3>4. CASE t # None /\ q = p /\ a = t
      <4>1. outstanding[p][t] \in Nat => outstanding[p][t] # None
        BY NoneAssumption
      <4> QED BY <2>6, <2>n, <3>1, <3>4, <4>1 DEF Bound, Forgotten
    <3> QED BY <3>2, <3>3, <3>4
  <2>16. Covered'
    <3> SUFFICES ASSUME NEW d \in Cid, working[VenueNo[d]] # None, ~CancelOnWire(VenueNo[d])
                 PROVE  /\ outstanding'[placed[d]][d] # None
                        /\ Covers(feed', working[VenueNo[d]].lots, d, outstanding'[placed[d]][d])
      BY <1>1, <2>6 DEF Covered, CancelOnWire
    <3>1. PICK n : n = outstanding[placed[d]][d]
      OBVIOUS
    <3>2. n # None /\ Covers(feed, working[VenueNo[d]].lots, d, n)
      BY <3>1 DEF SoundInv, Covered
    <3>3. placed[d] \in Product /\ placed[d] # None /\ n \in Nat
      <4>1. placed[d] # None
        BY UnplacedUnknown
      <4>2. placed[d] \in Product
        BY <1>0, <4>1 DEF TypeOK
      <4> QED BY <1>0, <3>1, <3>2, <4>1, <4>2 DEF TypeOK
    <3>4. working[VenueNo[d]].lots \in Nat /\ working[VenueNo[d]].lots > 0
      BY WorkingFacts, VenueAssumption
    <3>5. FillLots(feed[1], d) \in Nat
      BY <1>2, <1>3, FillLotsNat
    <3>6. ASSUME NEW k \in Nat, n <= k + FillLots(feed[1], d)
          PROVE  /\ Covers(feed', working[VenueNo[d]].lots, d, k)
                 /\ working[VenueNo[d]].lots + FillLots(feed[1], d) <= n
      BY <1>1, <3>2, <3>3, <3>4, <3>6, CoversTail
    <3>7. CASE outstanding'[placed[d]][d] = n
      BY <3>2, <3>3, <3>5, <3>6, <3>7
    <3>8. CASE outstanding'[placed[d]][d] # n
      <4>1. t = d /\ d = c
        BY <2>8, <3>1, <3>3, <3>8
      <4>2. p = placed[d]
        BY <2>6, <3>1, <3>3, <3>8, <4>1 DEF Only, Untouched, Adopted, Bound
      <4>3. m.kind # "canceled"
        BY <1>2, <1>3, <2>3, <4>1 DEF SoundInv, CanceledTrue
      <4>4. t # None /\ m.kind = "fill"
        BY <2>6, <2>n, <3>1, <3>8, <4>1, <4>2, <4>3 DEF Bound
      <4>5. FillLots(feed[1], d) = m.qty
        BY <1>2, <2>3, <4>1, <4>4 DEF FillLots, About
      <4>6. working[VenueNo[d]].lots + m.qty <= n
        BY <3>3, <3>5, <3>6, <4>5
      <4>7. ~(LotsLeft(p, t, m) <= 0)
        <5>1. LotsLeft(p, t, m) = n - m.qty
          BY <3>1, <3>2, <4>1, <4>2 DEF LotsLeft
        <5> QED BY <2>3, <3>3, <3>4, <4>6, <5>1
      <4>8. outstanding'[placed[d]][d] = n - m.qty
        BY <2>6, <3>1, <3>3, <4>1, <4>2, <4>4, <4>7
      <4>9. n - m.qty \in Nat /\ n - m.qty # None /\ n <= (n - m.qty) + FillLots(feed[1], d)
        BY <2>3, <3>3, <3>4, <4>5, <4>6, NoneAssumption
      <4> QED BY <3>6, <4>8, <4>9
    <3> QED BY <3>7, <3>8
  <2>17. DoneEmpty'
    BY <2>6 DEF DoneEmpty
  <2> QED BY <2>9, <2>10, <2>11, <2>12, <2>13, <2>14, <2>15, <2>16, <2>17 DEF SoundInv
<1> QED BY <1>5, <1>6

\* Timers, status, prices and the stages of shutdown keep track of every order; the
\* stage that ends cancelling is the one that has to know that nothing works.
LEMMA IdleKeepsSound ==
  ASSUME BaseInv, SoundInv, Sound, Idle
  PROVE  SoundInv'
<1>1. /\ UNCHANGED <<placed, outstanding, cid_to_order_no, cid_to_product, place_waiting, cancel_waiting>>
      /\ UNCHANGED <<world, requests, replies, feed, working, holding>>
      /\ session' \in {session, TRUE} /\ UNCHANGED waiting_since
      /\ phase' = "done" => phase = "done" \/ NoOrdersOutstanding
  BY DEF Idle, Sound, orderVars, venueVars
<1>i. InTime'
  <2>1. session \in BOOLEAN /\ session
    BY DEF BaseInv, SysTypes, SoundInv, InTime
  <2>2. session'
    BY <1>1, <2>1
  <2> QED BY <1>1, <2>2 DEF SoundInv, InTime
<1>2. SentOnce' /\ CancelAfterPlace' /\ RefusalTrue' /\ CanceledTrue' /\ CancelPending'
      /\ NumberedUnlessWaiting' /\ OneQuote'
  BY <1>1 DEF SoundInv, SentOnce, CancelAfterPlace, RefusalTrue, CanceledTrue, CancelPending,
              CancelOnWire, NumberedUnlessWaiting, OneQuote
<1>3. DoneEmpty'
  BY <1>1 DEF SoundInv, DoneEmpty, NoOrdersOutstanding, Outstanding
<1>4. ASSUME NEW c, Unheard(c) PROVE Unheard(c)'
  <2>1. ~Reported(c)'
    BY <1>1, <1>4 DEF Unheard, Reported
  <2> QED BY <1>1, <1>4, <2>1 DEF Unheard
<1>5. WireUnheard'
  <2> SUFFICES ASSUME NEW i \in 1..Len(requests), requests[i].kind # "cancel"
               PROVE  /\ Unheard(requests[i].cid)'
                      /\ outstanding'[requests[i].product][requests[i].cid] =
                           IF requests[i].kind = "place" THEN requests[i].lots ELSE None
    BY <1>1 DEF WireUnheard
  <2>1. PICK d : d = requests[i].cid
    OBVIOUS
  <2>2. Unheard(d)
    BY <2>1 DEF SoundInv, WireUnheard
  <2>3. Unheard(d)'
    BY <1>4, <2>2
  <2>4. Unheard(requests[i].cid)'
    BY <1>1, <2>1, <2>3
  <2> QED BY <1>1, <2>4 DEF SoundInv, WireUnheard
<1>6. Covered'
  BY <1>1 DEF SoundInv, Covered, CancelOnWire
<1> QED BY <1>i, <1>2, <1>3, <1>5, <1>6 DEF SoundInv

\* More is on the wire: what there was is where it was.
LEMMA SentBehind ==
  ASSUME BaseInv, SoundInv, NEW R \in Seq(RequestMsg), Dispatch(R)
  PROVE  /\ replies' = replies /\ Len(requests) \in Nat /\ Len(R) \in Nat
         /\ Len(requests') = Len(requests) + Len(R)
         /\ \A i \in 1..Len(requests) : i \in 1..Len(requests') /\ requests'[i] = requests[i]
         /\ \A i \in 1..Len(R) : Len(requests) + i \in 1..Len(requests') /\ requests'[Len(requests) + i] = R[i]
         /\ \A k \in 1..Len(requests') :
              \/ k \in 1..Len(requests) /\ requests'[k] = requests[k]
              \/ \E i \in 1..Len(R) : k = Len(requests) + i /\ requests'[k] = R[i]
<1>1. session
  BY DEF SoundInv, InTime
<1>2. requests' = requests \o R /\ replies' = replies
  BY <1>1 DEF Dispatch
<1>3. requests \in Seq(RequestMsg)
  BY DEF BaseInv, SysTypes
<1>4. /\ Len(requests) \in Nat /\ Len(R) \in Nat
      /\ Len(requests') = Len(requests) + Len(R)
      /\ \A i \in 1..Len(requests) : requests'[i] = requests[i]
      /\ \A i \in 1..Len(R) : requests'[Len(requests) + i] = R[i]
      /\ \A k \in 1..Len(requests') :
              \/ k \in 1..Len(requests) /\ requests'[k] = requests[k]
              \/ \E i \in 1..Len(R) : k = Len(requests) + i /\ requests'[k] = R[i]
  BY <1>2, <1>3, ConcatFacts
<1>5. \A i \in 1..Len(requests) : i \in 1..Len(requests')
  BY <1>4
<1>6. \A i \in 1..Len(R) : Len(requests) + i \in 1..Len(requests')
  BY <1>4
<1> QED BY <1>2, <1>4, <1>5, <1>6

\* An order that is numbered is not one whose place is waited for.
LEMMA NumberedNotWaiting ==
  ASSUME BaseInv, NEW p \in Product, NEW c \in Cid, outstanding[p][c] # None,
         cid_to_order_no[p][c] # None, NEW q \in Product
  PROVE  c \notin place_waiting[q]
<1> SUFFICES ASSUME c \in place_waiting[q] PROVE FALSE
  OBVIOUS
<1>1. placed[c] = q /\ cid_to_order_no[q][c] = None
  BY DEF BaseInv, WaitInv, WaitsOwned, CancelWaitIsForKnownOrder
<1>2. cid_to_product[c] = p
  BY OutstandingKnown
<1>3. p = q
  BY <1>1, <1>2, NoneAssumption DEF BaseInv, IndexInv, OwnNumber
<1> QED BY <1>1, <1>3

\* A working order's cancel names its number.
LEMMA CancelNamesIt ==
  ASSUME BaseInv, NEW p \in Product, NEW c \in Cid, cid_to_order_no[p][c] # None,
         working[VenueNo[c]] # None
  PROVE  cid_to_order_no[p][c] = VenueNo[c]
<1>1. placed[c] # None
  BY UnplacedUnknown
<1> QED BY <1>1 DEF BaseInv, IndexInv, OwnNumber

\* A decision keeps track of every order, and quotes only behind the cancels it sends.
LEMMA DecideKeepsSound ==
  ASSUME BaseInv, SoundInv, Sound, Decide
  PROVE  SoundInv'
<1>0. TypeOK /\ IndexInv /\ WaitInv /\ SysTypes /\ MessagesGenuine
  BY DEF BaseInv
<1>1. PICK p \in Product, lots \in Placements :
        \E cancels \in SUBSET Outstanding(p), bids \in SUBSET DOMAIN lots :
          /\ StrategyAllows(p, cancels, lots, bids)
          /\ UpdateOrders(p, cancels, lots)
          /\ Dispatch(DecisionRequests(p, cancels, lots, bids))
          /\ UNCHANGED <<world, session, feed, working, holding>>
  BY DEF Decide
<1>2. PICK cancels \in SUBSET Outstanding(p), bids \in SUBSET DOMAIN lots :
          /\ StrategyAllows(p, cancels, lots, bids)
          /\ UpdateOrders(p, cancels, lots)
          /\ Dispatch(DecisionRequests(p, cancels, lots, bids))
          /\ UNCHANGED <<world, session, feed, working, holding>>
  BY <1>1
<1>3. PICK sent : sent = {c \in cancels : cid_to_order_no[p][c] # None}
  OBVIOUS
<1>4. PICK new : new = DOMAIN lots
  OBVIOUS
<1>d. Decided(p, sent, new, lots)
  BY <1>0, <1>2, <1>3, <1>4, DecisionEffect
<1>5. /\ new \subseteq Cid /\ sent \subseteq Outstanding(p)
      /\ \A a \in sent : cid_to_order_no[p][a] # None
      /\ \A a \in Cid : a \in new <=> a > last_cid /\ a <= last_cid'
      /\ \A a \in new : placed[a] = None /\ cid_to_product[a] = None
      /\ \A a \in Cid : /\ placed'[a] = IF a \in new THEN p ELSE placed[a]
                        /\ cid_to_product'[a] = IF a \in new THEN p ELSE cid_to_product[a]
      /\ \A q \in Product, a \in Cid :
           outstanding'[q][a] = IF q = p /\ a \in new THEN lots[a] ELSE outstanding[q][a]
      /\ \A q \in Product :
           /\ place_waiting'[q] = IF q = p THEN new ELSE place_waiting[q]
           /\ cancel_waiting'[q] = IF q = p THEN sent ELSE cancel_waiting[q]
           /\ waiting_since'[q] = "expired" => waiting_since[q] = "expired"
      /\ UNCHANGED <<cid_to_order_no, phase>> /\ phase # "done"
      /\ Waiting(p) = {} \/ waiting_since[p] = "expired"
  BY <1>d DEF Decided
<1>w. place_waiting[p] = {} /\ cancel_waiting[p] = {}
  BY <1>5 DEF SoundInv, InTime, Waiting
<1>i. last_cid \in Int /\ last_cid' \in Int /\ \A a \in Cid : a \in Int
  BY <1>0, DecideKeepsBase, BoundsAssumption DEF BaseInv, TypeOK, Cid
<1>6. PICK R : R = DecisionRequests(p, cancels, lots, bids)
  OBVIOUS
<1>7. IsDecision(R, p, sent, lots)
  BY <1>0, <1>2, <1>3, <1>6, DecisionFacts
<1>8. R \in Seq(RequestMsg) /\ Dispatch(R)
  BY <1>2, <1>6, <1>7 DEF IsDecision
<1>9. /\ replies' = replies /\ Len(requests) \in Nat /\ Len(R) \in Nat
      /\ Len(requests') = Len(requests) + Len(R)
      /\ \A i \in 1..Len(requests) : i \in 1..Len(requests') /\ requests'[i] = requests[i]
      /\ \A i \in 1..Len(R) : Len(requests) + i \in 1..Len(requests') /\ requests'[Len(requests) + i] = R[i]
      /\ \A k \in 1..Len(requests') :
              \/ k \in 1..Len(requests) /\ requests'[k] = requests[k]
              \/ \E i \in 1..Len(R) : k = Len(requests) + i /\ requests'[k] = R[i]
  BY <1>8, SentBehind
<1>c. ASSUME NEW c \in sent
      PROVE  /\ c \in Cid /\ outstanding[p][c] # None /\ cid_to_order_no[p][c] # None
             /\ c <= last_cid /\ c \notin new
             /\ CancelRequest(p, c).kind = "cancel" /\ CancelRequest(p, c).cid = c
             /\ CancelRequest(p, c).order_no = cid_to_order_no[p][c]
  <2>1. c \in Cid /\ outstanding[p][c] # None /\ cid_to_order_no[p][c] # None
    BY <1>5 DEF Outstanding
  <2>2. c <= last_cid
    BY <2>1, OutstandingKnown
  <2> QED BY <1>0, <1>5, <1>i, <2>1, <2>2, CancelRequestFacts
<1>r. ASSUME NEW i \in 1..Len(R)
      PROVE  \/ R[i].kind = "cancel" /\ \E c \in sent : R[i] = CancelRequest(p, c)
             \/ /\ R[i].kind = "place" /\ R[i].product = p /\ R[i].cid \in new
                /\ R[i].lots = lots[R[i].cid]
  BY <1>4, <1>7, <1>c DEF IsDecision
<1>o. ASSUME NEW o, CancelOnWire(o) PROVE CancelOnWire(o)'
  BY <1>9, <1>o DEF CancelOnWire
<1>q. \* what is on the wire already is for another product
      ASSUME NEW i \in 1..Len(requests), requests[i].kind # "cancel"
      PROVE  requests[i].product # p /\ requests[i].cid \notin new
  <2>1. /\ Unheard(requests[i].cid) /\ placed[requests[i].cid] = requests[i].product
        /\ requests[i].cid \in Cid /\ requests[i].product # None
    BY <1>q, RequestFacts DEF SoundInv, WireUnheard
  <2> QED BY <1>5, <1>w, <2>1 DEF Unheard
<1>10. InTime'
  BY <1>2, <1>5 DEF SoundInv, InTime
<1>11. SentOnce'
  <2> SUFFICES ASSUME NEW i \in 1..Len(requests'), NEW j \in 1..Len(requests'),
                      requests'[i].kind # "cancel", requests'[j].kind # "cancel",
                      requests'[i].cid = requests'[j].cid
               PROVE  i = j
    BY DEF SentOnce
  <2>1. CASE i \in 1..Len(requests) /\ j \in 1..Len(requests)
    <3>1. SentOnce
      BY DEF SoundInv
    <3>2. requests'[i] = requests[i] /\ requests'[j] = requests[j]
      BY <1>9, <2>1
    <3> QED BY <2>1, <3>1, <3>2 DEF SentOnce
  <2>2. ASSUME NEW k \in 1..Len(requests), NEW l \in 1..Len(R), requests'[k].kind # "cancel",
               R[l].kind # "cancel", requests'[k].cid = R[l].cid PROVE FALSE
    BY <1>9, <1>q, <1>r, <2>2
  <2>3. CASE i \notin 1..Len(requests) /\ j \notin 1..Len(requests)
    <3>1. PICK k \in 1..Len(R) : i = Len(requests) + k /\ requests'[i] = R[k]
      BY <1>9, <2>3
    <3>2. PICK l \in 1..Len(R) : j = Len(requests) + l /\ requests'[j] = R[l]
      BY <1>9, <2>3
    <3>3. R[k].kind = "place" /\ R[l].kind = "place" /\ R[k].cid = R[l].cid
      BY <1>r, <3>1, <3>2
    <3> QED BY <1>7, <3>1, <3>2, <3>3 DEF IsDecision
  <2>4. ASSUME NEW k \in 1..Len(requests'), k \notin 1..Len(requests)
        PROVE  \E l \in 1..Len(R) : requests'[k] = R[l]
    BY <1>9, <2>4
  <2>5. CASE i \in 1..Len(requests) /\ j \notin 1..Len(requests)
    <3>1. PICK l \in 1..Len(R) : requests'[j] = R[l]
      BY <2>4, <2>5
    <3> QED BY <2>2, <2>5, <3>1
  <2>6. CASE i \notin 1..Len(requests) /\ j \in 1..Len(requests)
    <3>1. PICK l \in 1..Len(R) : requests'[i] = R[l]
      BY <2>4, <2>6
    <3> QED BY <2>2, <2>6, <3>1
  <2> QED BY <2>1, <2>3, <2>5, <2>6
<1>12. WireUnheard'
  <2> SUFFICES ASSUME NEW i \in 1..Len(requests'), requests'[i].kind # "cancel"
               PROVE  /\ Unheard(requests[i].cid)'
                      /\ outstanding'[requests'[i].product][requests'[i].cid] =
                           IF requests'[i].kind = "place" THEN requests'[i].lots ELSE None
    BY DEF WireUnheard
  <2>0. PICK d : d = requests'[i].cid
    OBVIOUS
  <2>1. CASE i \in 1..Len(requests)
    <3>1. requests'[i] = requests[i] /\ requests[i].kind # "cancel"
      BY <1>9, <2>1
    <3>2. /\ Unheard(d) /\ d \in Cid /\ placed[d] = requests[i].product /\ requests[i].product \in Product
          /\ outstanding[requests[i].product][d] = IF requests[i].kind = "place" THEN requests[i].lots ELSE None
      BY <2>0, <2>1, <3>1, RequestFacts DEF SoundInv, WireUnheard
    <3>3. requests[i].product # p /\ d \notin new
      BY <1>q, <2>0, <2>1, <3>1
    <3>4. Unheard(d)'
      BY <1>2, <1>5, <1>9, <3>2, <3>3 DEF Unheard, Reported
    <3> QED BY <1>5, <2>0, <3>1, <3>2, <3>3, <3>4
  <2>2. CASE i \notin 1..Len(requests)
    <3>1. PICK k \in 1..Len(R) : requests'[i] = R[k]
      BY <1>9, <2>2
    <3>2. R[k].kind = "place" /\ R[k].product = p /\ d \in new /\ R[k].lots = lots[d]
      BY <1>r, <2>0, <3>1
    <3>3. /\ d \in Cid /\ placed'[d] = p /\ cid_to_product'[d] = p /\ d \in place_waiting'[p]
          /\ outstanding'[p][d] = lots[d]
      BY <1>5, <3>2
    <3>4. working[VenueNo[d]] = None /\ ~Reported(d)
      BY <1>5, <3>2, <3>3, UnplacedUnknown
    <3>5. ASSUME NEW r \in replies PROVE r.cid # d
      <4>1. r.cid <= last_cid
        BY <1>0 DEF MessagesGenuine, ReplyGenuine
      <4> QED BY <1>5, <1>i, <3>2, <3>3, <4>1
    <3>6. Unheard(d)'
      BY <1>2, <1>9, <3>3, <3>4, <3>5 DEF Unheard, Reported
    <3> QED BY <2>0, <3>1, <3>2, <3>3, <3>6
  <2> QED BY <2>1, <2>2
<1>13. CancelAfterPlace'
  <2> SUFFICES ASSUME NEW i \in 1..Len(requests'), NEW q \in Product, requests'[i].kind = "cancel"
               PROVE  requests'[i].cid \notin place_waiting'[q]
    BY DEF CancelAfterPlace
  <2>1. CASE i \in 1..Len(requests)
    <3>1. requests'[i] = requests[i] /\ requests[i].cid \in Cid /\ requests[i].cid <= last_cid
      BY <1>9, <2>1, RequestFacts
    <3>2. requests[i].cid \notin new
      BY <1>5, <1>i, <3>1
    <3>3. requests[i].cid \notin place_waiting[q]
      BY <2>1, <3>1 DEF SoundInv, CancelAfterPlace
    <3> QED BY <1>5, <3>1, <3>2, <3>3
  <2>2. CASE i \notin 1..Len(requests)
    <3>1. PICK k \in 1..Len(R) : requests'[i] = R[k]
      BY <1>9, <2>2
    <3>2. PICK c \in sent : R[k] = CancelRequest(p, c)
      BY <1>r, <3>1
    <3>3. c \notin place_waiting[q]
      BY <1>c, NumberedNotWaiting
    <3> QED BY <1>5, <1>c, <3>1, <3>2, <3>3
  <2> QED BY <2>1, <2>2
<1>14. RefusalTrue' /\ CanceledTrue'
  BY <1>2, <1>9 DEF SoundInv, RefusalTrue, CanceledTrue
<1>s. ASSUME NEW c \in sent, working[VenueNo[c]] # None
      PROVE  /\ cid_to_order_no[p][c] = VenueNo[c]
             /\ \E i \in 1..Len(R) : R[i].kind = "cancel" /\ R[i].order_no = VenueNo[c]
  <2>1. cid_to_order_no[p][c] = VenueNo[c]
    BY <1>c, <1>s, CancelNamesIt
  <2>2. PICK i \in 1..Len(R) : R[i] = CancelRequest(p, c)
    BY <1>7 DEF IsDecision
  <2> QED BY <1>c, <2>1, <2>2
<1>15. CancelPending'
  <2> SUFFICES ASSUME NEW q \in Product, NEW c \in Cid, c \in cancel_waiting'[q], working[VenueNo[c]] # None
               PROVE  CancelOnWire(VenueNo[c])'
    BY <1>2 DEF CancelPending
  <2>1. CASE q # p
    BY <1>5, <1>o, <2>1 DEF SoundInv, CancelPending
  <2>2. CASE q = p
    <3>1. c \in sent
      BY <1>5, <2>2
    <3>2. PICK i \in 1..Len(R) : R[i].kind = "cancel" /\ R[i].order_no = VenueNo[c]
      BY <1>s, <3>1
    <3> QED BY <1>9, <3>2 DEF CancelOnWire
  <2> QED BY <2>1, <2>2
<1>16. NumberedUnlessWaiting'
  BY <1>5, <1>w DEF SoundInv, NumberedUnlessWaiting
<1>17. Covered'
  <2> SUFFICES ASSUME NEW d \in Cid, working[VenueNo[d]] # None, ~CancelOnWire(VenueNo[d])'
               PROVE  /\ outstanding'[placed'[d]][d] # None
                      /\ Covers(feed, working[VenueNo[d]].lots, d, outstanding'[placed'[d]][d])
    BY <1>2 DEF Covered
  <2>1. placed[d] # None /\ placed[d] \in Product
    BY <1>0, UnplacedUnknown DEF TypeOK
  <2>2. d \notin new
    BY <1>5, <2>1
  <2>3. placed'[d] = placed[d] /\ outstanding'[placed[d]][d] = outstanding[placed[d]][d]
    BY <1>5, <2>1, <2>2
  <2> QED BY <1>o, <2>3 DEF SoundInv, Covered
<1>18. DoneEmpty'
  BY <1>5 DEF DoneEmpty
<1>19. OneQuote'
  <2> SUFFICES ASSUME world.singleQuote
               PROVE  /\ \A o, n \in OrderNo :
                           working[o] # None /\ working[n] # None /\ working[o].product = working[n].product => o = n
                      /\ \A j \in 1..Len(requests') : requests'[j].kind = "place" =>
                           /\ \A i \in 1..Len(requests') :
                                requests'[i].kind = "place" /\ requests'[i].product = requests'[j].product => i = j
                           /\ \A o \in OrderNo : working[o] # None /\ working[o].product = requests'[j].product =>
                                \E i \in 1..(j - 1) : requests'[i].kind = "cancel" /\ requests'[i].order_no = o
    BY <1>2 DEF OneQuote
  <2>1. /\ \A o, n \in OrderNo :
             working[o] # None /\ working[n] # None /\ working[o].product = working[n].product => o = n
        /\ \A j \in 1..Len(requests) : requests[j].kind = "place" =>
             /\ \A i \in 1..Len(requests) :
                  requests[i].kind = "place" /\ requests[i].product = requests[j].product => i = j
             /\ \A o \in OrderNo : working[o] # None /\ working[o].product = requests[j].product =>
                  \E i \in 1..(j - 1) : requests[i].kind = "cancel" /\ requests[i].order_no = o
    BY DEF SoundInv, OneQuote
  <2>2. ASSUME new # {} PROVE cancels = Outstanding(p) /\ \A a, b \in new : a = b
    <3>1. cancels = Outstanding(p) /\ Cardinality(new) <= 1
      BY <1>2, <1>4, <2>2 DEF StrategyAllows
    <3>2. last_cid' = last_cid + Cardinality(new) /\ new = (last_cid + 1)..last_cid'
      BY <1>2, <1>4 DEF UpdateOrders
    <3>3. Cardinality(new) \in Int
      <4>1. IsFiniteSet(new)
        BY <1>i, <3>2, FS_Interval
      <4> QED BY <4>1, FS_CardinalityType
    <3>4. \A a \in new : a = last_cid + 1
      BY <1>5, <1>i, <3>1, <3>2, <3>3
    <3> QED BY <3>1, <3>4
  <2>3. ASSUME NEW j \in 1..Len(requests'), requests'[j].kind = "place",
               NEW i \in 1..Len(requests'), requests'[i].kind = "place",
               requests'[i].product = requests'[j].product
        PROVE  i = j
    <3>1. CASE i \in 1..Len(requests) /\ j \in 1..Len(requests)
      BY <1>9, <2>1, <2>3, <3>1
    <3>2. ASSUME NEW k \in 1..Len(requests), NEW l \in 1..Len(R), requests'[k].kind = "place",
                 R[l].kind = "place", requests'[k].product = R[l].product PROVE FALSE
      BY <1>9, <1>q, <1>r, <3>2
    <3>3. CASE i \notin 1..Len(requests) /\ j \notin 1..Len(requests)
      <4>1. PICK k \in 1..Len(R) : i = Len(requests) + k /\ requests'[i] = R[k]
        BY <1>9, <3>3
      <4>2. PICK l \in 1..Len(R) : j = Len(requests) + l /\ requests'[j] = R[l]
        BY <1>9, <3>3
      <4>3. R[k].cid \in new /\ R[l].cid \in new /\ R[k].kind = "place" /\ R[l].kind = "place"
        BY <1>r, <2>3, <4>1, <4>2
      <4>4. R[k].cid = R[l].cid
        BY <2>2, <4>3
      <4> QED BY <1>7, <4>1, <4>2, <4>3, <4>4 DEF IsDecision
    <3> QED BY <1>9, <2>3, <3>1, <3>2, <3>3
  <2>4. ASSUME NEW j \in 1..Len(requests'), requests'[j].kind = "place",
               NEW o \in OrderNo, working[o] # None, working[o].product = requests'[j].product
        PROVE  \E i \in 1..(j - 1) : requests'[i].kind = "cancel" /\ requests'[i].order_no = o
    <3>1. CASE j \in 1..Len(requests)
      <4>1. requests'[j] = requests[j]
        BY <1>9, <3>1
      <4>2. PICK i \in 1..(j - 1) : requests[i].kind = "cancel" /\ requests[i].order_no = o
        BY <2>1, <2>4, <3>1, <4>1
      <4>3. i \in 1..Len(requests)
        BY <1>9, <3>1, <4>2
      <4> QED BY <1>9, <4>2, <4>3
    <3>2. CASE j \notin 1..Len(requests)
      <4>1. PICK l \in 1..Len(R) : j = Len(requests) + l /\ requests'[j] = R[l]
        BY <1>9, <3>2
      <4>2. R[l].kind = "place" /\ R[l].product = p /\ R[l].cid \in new
        BY <1>r, <2>4, <4>1
      <4>3. PICK d : d = working[o].cid
        OBVIOUS
      <4>4. d \in Cid /\ o = VenueNo[d] /\ placed[d] = p
        BY <2>4, <4>1, <4>2, <4>3, WorkingFacts
      <4>5. CASE CancelOnWire(o)
        <5>1. PICK i \in 1..Len(requests) : requests[i].kind = "cancel" /\ requests[i].order_no = o
          BY <4>5 DEF CancelOnWire
        <5>2. i \in 1..(j - 1)
          BY <1>9, <4>1, <5>1
        <5> QED BY <1>9, <5>1, <5>2
      <4>6. CASE ~CancelOnWire(o)
        <5>1. outstanding[p][d] # None
          BY <2>4, <4>4, <4>6 DEF SoundInv, Covered
        <5>2. cid_to_order_no[p][d] # None
          BY <1>w, <4>4, <5>1 DEF SoundInv, NumberedUnlessWaiting
        <5>3. d \in sent
          BY <1>3, <2>2, <4>2, <4>4, <5>1, <5>2 DEF Outstanding
        <5>4. PICK i \in 1..Len(R) : R[i].kind = "cancel" /\ R[i].order_no = o
          BY <1>s, <2>4, <4>4, <5>3
        <5>5. i < l
          BY <1>7, <4>2, <5>4 DEF IsDecision
        <5>6. requests'[Len(requests) + i] = R[i]
          BY <1>9, <5>4
        <5>7. Len(requests) + i \in 1..((Len(requests) + l) - 1)
          <6>1. Len(requests) \in Nat /\ i \in Nat /\ l \in Nat /\ i >= 1 /\ i < l
            BY <1>9, <4>1, <5>4, <5>5
          <6> QED BY <6>1
        <5> QED BY <4>1, <5>4, <5>6, <5>7
      <4> QED BY <4>5, <4>6
    <3> QED BY <3>1, <3>2
  <2> QED BY <2>1, <2>3, <2>4
<1> QED BY <1>10, <1>11, <1>12, <1>13, <1>14, <1>15, <1>16, <1>17, <1>18, <1>19 DEF SoundInv

\* Cancels and market orders leave the one quote alone.
LEMMA NoMoreQuotes ==
  ASSUME BaseInv, SoundInv, NEW R \in Seq(RequestMsg), Dispatch(R),
         \A i \in 1..Len(R) : R[i].kind # "place", UNCHANGED <<world, working>>
  PROVE  OneQuote'
<1>1. /\ Len(requests) \in Nat
      /\ \A i \in 1..Len(requests) : i \in 1..Len(requests') /\ requests'[i] = requests[i]
      /\ \A k \in 1..Len(requests') :
              \/ k \in 1..Len(requests) /\ requests'[k] = requests[k]
              \/ \E i \in 1..Len(R) : k = Len(requests) + i /\ requests'[k] = R[i]
  BY SentBehind
<1>2. \A k \in 1..Len(requests') : requests'[k].kind = "place" =>
        k \in 1..Len(requests) /\ requests'[k] = requests[k]
  BY <1>1
<1>3. \A k \in 1..Len(requests) : \A i \in 1..(k - 1) : i \in 1..Len(requests) /\ requests'[i] = requests[i]
  BY <1>1
<1> SUFFICES ASSUME world.singleQuote
             PROVE  /\ \A o, n \in OrderNo :
                         working[o] # None /\ working[n] # None /\ working[o].product = working[n].product => o = n
                    /\ \A j \in 1..Len(requests') : requests'[j].kind = "place" =>
                         /\ \A i \in 1..Len(requests') :
                              requests'[i].kind = "place" /\ requests'[i].product = requests'[j].product => i = j
                         /\ \A o \in OrderNo : working[o] # None /\ working[o].product = requests'[j].product =>
                              \E i \in 1..(j - 1) : requests'[i].kind = "cancel" /\ requests'[i].order_no = o
  BY DEF OneQuote
<1>4. /\ \A o, n \in OrderNo :
           working[o] # None /\ working[n] # None /\ working[o].product = working[n].product => o = n
      /\ \A j \in 1..Len(requests) : requests[j].kind = "place" =>
           /\ \A i \in 1..Len(requests) :
                requests[i].kind = "place" /\ requests[i].product = requests[j].product => i = j
           /\ \A o \in OrderNo : working[o] # None /\ working[o].product = requests[j].product =>
                \E i \in 1..(j - 1) : requests[i].kind = "cancel" /\ requests[i].order_no = o
  BY DEF SoundInv, OneQuote
<1>5. ASSUME NEW j \in 1..Len(requests'), requests'[j].kind = "place"
      PROVE  /\ \A i \in 1..Len(requests') :
                  requests'[i].kind = "place" /\ requests'[i].product = requests'[j].product => i = j
             /\ \A o \in OrderNo : working[o] # None /\ working[o].product = requests'[j].product =>
                  \E i \in 1..(j - 1) : requests'[i].kind = "cancel" /\ requests'[i].order_no = o
  BY <1>2, <1>3, <1>4, <1>5
<1> QED BY <1>4, <1>5

\* A round of cancels keeps track of every order.
LEMMA CancelRoundKeepsSound ==
  ASSUME BaseInv, SoundInv, Sound, SendCancelRound
  PROVE  SoundInv'
<1>0. TypeOK /\ IndexInv /\ WaitInv /\ SysTypes /\ MessagesGenuine
  BY DEF BaseInv
<1>1. PICK todo \in SetToSeqs({pc \in Product \X Cid : pc[2] \in Cancellable(pc[1])}) :
        Dispatch([i \in DOMAIN todo |-> CancelRequest(todo[i][1], todo[i][2])])
  BY DEF SendCancelRound
<1>2. CancelRound /\ UNCHANGED <<world, session, feed, working, holding>>
  BY DEF SendCancelRound
<1>3. /\ \A p \in Product : cancel_waiting'[p] = cancel_waiting[p] \cup Cancellable(p)
      /\ \A p \in Product : waiting_since'[p] = "expired" => waiting_since[p] = "expired"
      /\ UNCHANGED <<last_cid, placed, outstanding, cid_to_order_no, cid_to_product, place_waiting, phase>>
      /\ phase # "done"
  BY <1>0, <1>2, CancelRoundEffect
<1>4. PICK R : R = [i \in DOMAIN todo |-> CancelRequest(todo[i][1], todo[i][2])]
  OBVIOUS
<1>5. IsCancelRound(R)
  BY <1>0, <1>4, CancelRoundFacts
<1>6. R \in Seq(RequestMsg) /\ Dispatch(R)
  BY <1>1, <1>4, <1>5 DEF IsCancelRound
<1>7. /\ replies' = replies /\ Len(requests) \in Nat /\ Len(R) \in Nat
      /\ Len(requests') = Len(requests) + Len(R)
      /\ \A i \in 1..Len(requests) : i \in 1..Len(requests') /\ requests'[i] = requests[i]
      /\ \A i \in 1..Len(R) : Len(requests) + i \in 1..Len(requests') /\ requests'[Len(requests) + i] = R[i]
      /\ \A k \in 1..Len(requests') :
              \/ k \in 1..Len(requests) /\ requests'[k] = requests[k]
              \/ \E i \in 1..Len(R) : k = Len(requests) + i /\ requests'[k] = R[i]
  BY <1>6, SentBehind
<1>8. ASSUME NEW p \in Product, NEW c \in Cancellable(p)
      PROVE  /\ c \in Cid /\ outstanding[p][c] # None /\ cid_to_order_no[p][c] # None
             /\ CancelRequest(p, c).kind = "cancel" /\ CancelRequest(p, c).cid = c
             /\ CancelRequest(p, c).order_no = cid_to_order_no[p][c]
  <2>1. c \in Cid /\ outstanding[p][c] # None /\ cid_to_order_no[p][c] # None
    BY DEF Cancellable, Outstanding
  <2> QED BY <1>0, <2>1, CancelRequestFacts
<1>9. ASSUME NEW i \in 1..Len(R) PROVE R[i].kind = "cancel"
  BY <1>5, <1>8 DEF IsCancelRound
<1>10. \A k \in 1..Len(requests') : requests'[k].kind # "cancel" =>
          k \in 1..Len(requests) /\ requests'[k] = requests[k]
  BY <1>7, <1>9
<1>o. ASSUME NEW o, CancelOnWire(o) PROVE CancelOnWire(o)'
  BY <1>7, <1>o DEF CancelOnWire
<1>11. InTime'
  BY <1>2, <1>3 DEF SoundInv, InTime
<1>12. SentOnce'
  BY <1>10 DEF SoundInv, SentOnce
<1>13. WireUnheard'
  <2> SUFFICES ASSUME NEW i \in 1..Len(requests'), requests'[i].kind # "cancel"
               PROVE  /\ Unheard(requests[i].cid)'
                      /\ outstanding'[requests'[i].product][requests'[i].cid] =
                           IF requests'[i].kind = "place" THEN requests'[i].lots ELSE None
    BY DEF WireUnheard
  <2>1. requests'[i] = requests[i] /\ i \in 1..Len(requests)
    BY <1>10
  <2>2. PICK d : d = requests[i].cid
    OBVIOUS
  <2>3. /\ Unheard(d)
        /\ outstanding[requests[i].product][d] = IF requests[i].kind = "place" THEN requests[i].lots ELSE None
    BY <2>1, <2>2 DEF SoundInv, WireUnheard
  <2>4. Unheard(d)'
    BY <1>2, <1>3, <1>7, <2>3 DEF Unheard, Reported
  <2> QED BY <1>3, <2>1, <2>2, <2>3, <2>4
<1>14. CancelAfterPlace'
  <2> SUFFICES ASSUME NEW i \in 1..Len(requests'), NEW q \in Product, requests'[i].kind = "cancel"
               PROVE  requests'[i].cid \notin place_waiting[q]
    BY <1>3 DEF CancelAfterPlace
  <2>1. CASE i \in 1..Len(requests)
    BY <1>7, <2>1 DEF SoundInv, CancelAfterPlace
  <2>2. CASE i \notin 1..Len(requests)
    <3>1. PICK k \in 1..Len(R) : requests'[i] = R[k]
      BY <1>7, <2>2
    <3>2. PICK p \in Product : \E c \in Cancellable(p) : R[k] = CancelRequest(p, c)
      BY <1>5 DEF IsCancelRound
    <3>3. PICK c \in Cancellable(p) : R[k] = CancelRequest(p, c)
      BY <3>2
    <3>4. c \notin place_waiting[q]
      BY <1>8, NumberedNotWaiting
    <3> QED BY <1>8, <3>1, <3>3, <3>4
  <2> QED BY <2>1, <2>2
<1>15. RefusalTrue' /\ CanceledTrue'
  BY <1>2, <1>7 DEF SoundInv, RefusalTrue, CanceledTrue
<1>16. CancelPending'
  <2> SUFFICES ASSUME NEW p \in Product, NEW c \in Cid, c \in cancel_waiting'[p], working[VenueNo[c]] # None
               PROVE  CancelOnWire(VenueNo[c])'
    BY <1>2 DEF CancelPending
  <2>1. CASE c \in cancel_waiting[p]
    BY <1>o, <2>1 DEF SoundInv, CancelPending
  <2>2. CASE c \notin cancel_waiting[p]
    <3>1. c \in Cancellable(p)
      BY <1>3, <2>2
    <3>2. PICK i \in 1..Len(R) : R[i] = CancelRequest(p, c)
      BY <1>5, <3>1 DEF IsCancelRound
    <3>3. cid_to_order_no[p][c] = VenueNo[c]
      BY <1>8, <3>1, CancelNamesIt
    <3>4. R[i].kind = "cancel" /\ R[i].order_no = VenueNo[c]
      BY <1>8, <3>1, <3>2, <3>3
    <3> QED BY <1>7, <3>4 DEF CancelOnWire
  <2> QED BY <2>1, <2>2
<1>17. NumberedUnlessWaiting'
  BY <1>3 DEF SoundInv, NumberedUnlessWaiting
<1>18. Covered'
  <2> SUFFICES ASSUME NEW d \in Cid, working[VenueNo[d]] # None, ~CancelOnWire(VenueNo[d])'
               PROVE  /\ outstanding[placed[d]][d] # None
                      /\ Covers(feed, working[VenueNo[d]].lots, d, outstanding[placed[d]][d])
    BY <1>2, <1>3 DEF Covered
  <2> QED BY <1>o DEF SoundInv, Covered
<1>19. DoneEmpty'
  BY <1>3 DEF DoneEmpty
<1>20. OneQuote'
  BY <1>2, <1>6, <1>9, NoMoreQuotes
<1> QED BY <1>11, <1>12, <1>13, <1>14, <1>15, <1>16, <1>17, <1>18, <1>19, <1>20 DEF SoundInv

\* A market order to flatten keeps track of every order.
LEMMA MarketKeepsSound ==
  ASSUME BaseInv, SoundInv, Sound, NEW p \in Product, SendMarketFlatten(p)
  PROVE  SoundInv'
<1>0. TypeOK /\ IndexInv /\ WaitInv /\ SysTypes /\ MessagesGenuine
  BY DEF BaseInv
<1>1. PICK c : c = last_cid + 1
  OBVIOUS
<1>2. /\ c \in Cid /\ last_cid' = c /\ phase # "done"
      /\ placed[c] = None /\ cid_to_product[c] = None
      /\ \A q \in Product : outstanding[q][c] = None /\ cid_to_order_no[q][c] = None
      /\ \A a \in Cid : /\ placed'[a] = IF a = c THEN p ELSE placed[a]
                        /\ cid_to_product'[a] = IF a = c THEN p ELSE cid_to_product[a]
      /\ \A q \in Product, a \in Cid :
           a \in place_waiting'[q] <=> a \in place_waiting[q] \/ (q = p /\ a = c)
      /\ \A q \in Product : waiting_since'[q] = "expired" => waiting_since[q] = "expired"
      /\ UNCHANGED <<outstanding, cid_to_order_no, cancel_waiting, phase, position>>
      /\ UNCHANGED <<world, session, feed, working, holding>>
  BY <1>1, MarketEffect
<1>3. PICK n \in Nat, is_bid \in BOOLEAN :
              /\ n > 0 /\ Request("market", p, c, None, n, is_bid) \in RequestMsg
              /\ Dispatch(<<Request("market", p, c, None, n, is_bid)>>)
  BY <1>1, MarketEffect
<1>4. PICK m : m = Request("market", p, c, None, n, is_bid)
  OBVIOUS
<1>5. m \in RequestMsg /\ m.kind = "market" /\ m.cid = c /\ m.product = p
  BY <1>3, <1>4 DEF Request
<1>6. PICK R : R = <<m>>
  OBVIOUS
<1>7. R \in Seq(RequestMsg) /\ Len(R) = 1 /\ R[1] = m /\ Dispatch(R)
  BY <1>3, <1>4, <1>5, <1>6
<1>8. /\ replies' = replies /\ Len(requests) \in Nat
      /\ \A i \in 1..Len(requests) : i \in 1..Len(requests') /\ requests'[i] = requests[i]
      /\ \A k \in 1..Len(requests') :
              \/ k \in 1..Len(requests) /\ requests'[k] = requests[k]
              \/ \E i \in 1..Len(R) : k = Len(requests) + i /\ requests'[k] = R[i]
  BY <1>7, SentBehind
<1>9. \A k \in 1..Len(requests') :
         \/ k \in 1..Len(requests) /\ requests'[k] = requests[k]
         \/ k = Len(requests) + 1 /\ requests'[k] = m
  BY <1>7, <1>8
<1>i. last_cid \in Int /\ \A a \in Cid : a \in Int
  BY <1>0, BoundsAssumption DEF TypeOK, Cid
<1>10. ASSUME NEW i \in 1..Len(requests) PROVE requests[i].cid # c /\ requests[i].cid \in Cid
  BY <1>1, <1>2, <1>i, RequestFacts
<1>o. ASSUME NEW o, CancelOnWire(o) PROVE CancelOnWire(o)'
  BY <1>8, <1>o DEF CancelOnWire
<1>11. InTime'
  BY <1>2 DEF SoundInv, InTime
<1>12. SentOnce'
  <2> SUFFICES ASSUME NEW i \in 1..Len(requests'), NEW j \in 1..Len(requests'),
                      requests'[i].kind # "cancel", requests'[j].kind # "cancel",
                      requests'[i].cid = requests'[j].cid
               PROVE  i = j
    BY DEF SentOnce
  <2>1. CASE i \in 1..Len(requests) /\ j \in 1..Len(requests)
    BY <1>8, <2>1 DEF SoundInv, SentOnce
  <2>2. CASE ~(i \in 1..Len(requests) /\ j \in 1..Len(requests))
    BY <1>5, <1>8, <1>9, <1>10, <2>2
  <2> QED BY <2>1, <2>2
<1>13. WireUnheard'
  <2> SUFFICES ASSUME NEW i \in 1..Len(requests'), requests'[i].kind # "cancel"
               PROVE  /\ Unheard(requests[i].cid)'
                      /\ outstanding'[requests'[i].product][requests'[i].cid] =
                           IF requests'[i].kind = "place" THEN requests'[i].lots ELSE None
    BY DEF WireUnheard
  <2>0. PICK d : d = requests'[i].cid
    OBVIOUS
  <2>1. CASE i \in 1..Len(requests)
    <3>1. requests'[i] = requests[i] /\ requests[i].kind # "cancel"
      BY <1>8, <2>1
    <3>2. /\ Unheard(d) /\ d \in Cid /\ d # c /\ placed[d] \in Product
          /\ outstanding[requests[i].product][d] = IF requests[i].kind = "place" THEN requests[i].lots ELSE None
      BY <1>10, <2>0, <2>1, <3>1, RequestFacts DEF SoundInv, WireUnheard
    <3>3. Unheard(d)'
      BY <1>2, <1>8, <3>2 DEF Unheard, Reported
    <3> QED BY <1>2, <2>0, <3>1, <3>2, <3>3
  <2>2. CASE i \notin 1..Len(requests)
    <3>1. requests'[i] = m /\ d = c
      BY <1>5, <1>9, <2>0, <2>2
    <3>2. working[VenueNo[d]] = None /\ ~Reported(d)
      BY <1>2, <3>1, UnplacedUnknown
    <3>3. ASSUME NEW r \in replies PROVE r.cid # d
      <4>1. r.cid <= last_cid
        BY <1>0 DEF MessagesGenuine, ReplyGenuine
      <4> QED BY <1>1, <1>2, <1>i, <3>1, <4>1
    <3>4. Unheard(d)'
      BY <1>2, <1>8, <3>1, <3>2, <3>3 DEF Unheard, Reported
    <3> QED BY <1>2, <1>5, <2>0, <3>1, <3>4
  <2> QED BY <2>1, <2>2
<1>14. CancelAfterPlace'
  <2> SUFFICES ASSUME NEW i \in 1..Len(requests'), NEW q \in Product, requests'[i].kind = "cancel"
               PROVE  requests'[i].cid \notin place_waiting'[q]
    BY DEF CancelAfterPlace
  <2>1. i \in 1..Len(requests) /\ requests'[i] = requests[i]
    BY <1>5, <1>9
  <2> QED BY <1>2, <1>10, <2>1 DEF SoundInv, CancelAfterPlace
<1>15. RefusalTrue' /\ CanceledTrue'
  BY <1>2, <1>8 DEF SoundInv, RefusalTrue, CanceledTrue
<1>16. CancelPending'
  BY <1>2, <1>o DEF SoundInv, CancelPending
<1>17. NumberedUnlessWaiting'
  BY <1>2 DEF SoundInv, NumberedUnlessWaiting
<1>18. Covered'
  <2> SUFFICES ASSUME NEW d \in Cid, working[VenueNo[d]] # None, ~CancelOnWire(VenueNo[d])'
               PROVE  /\ outstanding[placed'[d]][d] # None
                      /\ Covers(feed, working[VenueNo[d]].lots, d, outstanding[placed'[d]][d])
    BY <1>2 DEF Covered
  <2>1. placed[d] # None
    BY UnplacedUnknown
  <2>2. placed'[d] = placed[d]
    BY <1>2, <2>1
  <2> QED BY <1>o, <2>2 DEF SoundInv, Covered
<1>19. DoneEmpty'
  BY <1>2 DEF DoneEmpty
<1>20. OneQuote'
  <2>1. \A i \in 1..Len(R) : R[i].kind # "place"
    BY <1>5, <1>7
  <2> QED BY <1>2, <1>7, <2>1, NoMoreQuotes
<1> QED BY <1>11, <1>12, <1>13, <1>14, <1>15, <1>16, <1>17, <1>18, <1>19, <1>20 DEF SoundInv

\* Whatever else the venue does, an order on the wire stays unheard of.
LEMMA StaysUnheard ==
  ASSUME NEW c \in Cid, Unheard(c), Grown, UNCHANGED <<placed, cid_to_product, place_waiting>>,
         working'[VenueNo[c]] = None, \A r \in replies' : r \in replies \/ r.cid # c,
         \A k \in (Len(feed) + 1)..Len(feed') : feed'[k].order_no # VenueNo[c]
  PROVE  Unheard(c)'
<1>1. \A k \in 1..Len(feed') : \/ k \in 1..Len(feed) /\ feed'[k] = feed[k]
                             \/ k \in (Len(feed) + 1)..Len(feed')
  BY DEF Grown
<1>2. ~Reported(c)'
  BY <1>1 DEF Unheard, Reported
<1> QED BY <1>2 DEF Unheard

\* What the venue has done when it has taken request q, every cancel being obeyed.
Served(q) ==
  /\ \A o \in OrderNo : working'[o] # None =>
       \/ working[o] # None /\ working'[o] = working[o] /\ ~(q.kind = "cancel" /\ q.order_no = o)
       \/ q.kind = "place" /\ o = VenueNo[q.cid] /\ working'[o] = OrderOf(q)
  /\ Grown
  /\ \A k \in (Len(feed) + 1)..Len(feed') :
       \/ feed'[k].kind = "position" /\ feed'[k].order_no = None
       \/ /\ q.kind # "cancel" /\ feed'[k].order_no = VenueNo[q.cid] /\ feed'[k].kind # "canceled"
          /\ q.kind = "place" => feed'[k].kind = "new"
          /\ feed'[k].kind = "new" => k = Len(feed) + 1
       \/ /\ feed'[k].kind = "canceled" /\ feed'[k].order_no \in OrderNo
          /\ working[feed'[k].order_no] # None /\ working'[feed'[k].order_no] = None
  /\ EchoesCid => \A o \in OrderNo : working[o] # None /\ working'[o] = None =>
       \E k \in (Len(feed) + 1)..Len(feed') : feed'[k].kind = "canceled" /\ feed'[k].order_no = o
  /\ \E r : /\ replies' = replies \cup {r} /\ r.of = q.kind /\ r.cid = q.cid
            /\ ~r.success => working[VenueNo[q.cid]] = None /\ UNCHANGED <<working, feed>>

\* With no cancel refused, the venue serves each request it takes.
LEMMA TakesServes ==
  ASSUME BaseInv, SoundInv, Sound, VenueTakes
  PROVE  \E q : Taken(q) /\ Served(q)
<1>0. working \in [OrderNo -> Working \cup {None}] /\ SysTypes
  BY DEF BaseInv, SysTypes
<1>1. PICK q : Taken(q) /\ (Accepted(q) \/ RefusedNow(q) \/ (\E n : Crossed(q, n))
                            \/ CanceledNow(q) \/ GoneAlready(q))
  BY TakesEffect
<1>2. q.cid \in Cid /\ VenueNo[q.cid] \in OrderNo /\ q = requests[1] /\ 1 \in 1..Len(requests)
  BY <1>1, VenueAssumption DEF Taken, RequestMsg
<1>3. q.kind # "cancel" => Unheard(q.cid)
  BY <1>2 DEF SoundInv, WireUnheard
<1>4. CASE Accepted(q)
  <2>1. /\ q.kind = "place" /\ working' = [working EXCEPT ![VenueNo[q.cid]] = OrderOf(q)]
        /\ replies' = replies \cup {Reply("place", q.cid, TRUE, FALSE, VenueNo[q.cid])}
        /\ Grown /\ Len(feed') = Len(feed) + 1 /\ Len(feed) \in Nat
        /\ feed'[Len(feed) + 1].kind = "new" /\ feed'[Len(feed) + 1].order_no = VenueNo[q.cid]
    BY <1>4 DEF Accepted, ReportAt, Grown
  <2>2. \A k \in (Len(feed) + 1)..Len(feed') : k = Len(feed) + 1
    BY <2>1
  <2>3. ASSUME NEW o \in OrderNo, working'[o] # None
        PROVE  \/ working[o] # None /\ working'[o] = working[o] /\ ~(q.kind = "cancel" /\ q.order_no = o)
               \/ q.kind = "place" /\ o = VenueNo[q.cid] /\ working'[o] = OrderOf(q)
    BY <1>0, <1>2, <2>1, <2>3
  <2>4. \E r : replies' = replies \cup {r} /\ r.of = q.kind /\ r.cid = q.cid /\ r.success
    <3>1. PICK r : r = Reply("place", q.cid, TRUE, FALSE, VenueNo[q.cid])
      OBVIOUS
    <3>2. r.of = q.kind /\ r.cid = q.cid /\ r.success = TRUE
      BY <2>1, <3>1 DEF Reply
    <3>3. replies' = replies \cup {r}
      BY <2>1, <3>1
    <3> QED BY <3>2, <3>3
  <2>x. ASSUME NEW o \in OrderNo, working[o] # None PROVE working'[o] # None
    <3>1. o # VenueNo[q.cid]
      BY <1>3, <2>1, <2>x DEF Unheard
    <3> QED BY <1>0, <2>1, <2>x, <3>1
  <2>5. Served(q)
    BY <2>1, <2>2, <2>3, <2>4, <2>x DEF Served
  <2> QED BY <1>1, <2>5
<1>5. CASE RefusedNow(q)
  <2>1. q.kind # "cancel" /\ working' = working /\ feed' = feed
        /\ replies' = replies \cup {Reply(q.kind, q.cid, FALSE, FALSE, None)}
    BY <1>5 DEF RefusedNow, Sound
  <2>2. Grown /\ Len(feed) \in Nat
    BY <1>0, <2>1, GrownBy DEF Grown
  <2>3. \A k \in (Len(feed) + 1)..Len(feed') : FALSE
    BY <2>1, <2>2
  <2>4. \E r : replies' = replies \cup {r} /\ r.of = q.kind /\ r.cid = q.cid
    <3>1. PICK r : r = Reply(q.kind, q.cid, FALSE, FALSE, None)
      OBVIOUS
    <3>2. r.of = q.kind /\ r.cid = q.cid /\ r.success = FALSE
      BY <2>1, <3>1 DEF Reply
    <3>3. replies' = replies \cup {r}
      BY <2>1, <3>1
    <3> QED BY <3>2, <3>3
  <2>5. working[VenueNo[q.cid]] = None
    BY <1>3, <2>1 DEF Unheard
  <2>6. Served(q)
    BY <2>1, <2>2, <2>3, <2>4, <2>5 DEF Served
  <2> QED BY <1>1, <2>6
<1>6. ASSUME NEW n, Crossed(q, n) PROVE Served(q)
  <2>1. /\ q.kind = "market" /\ working' = working
        /\ replies' = replies \cup {Reply("market", q.cid, TRUE, FALSE, VenueNo[q.cid])}
        /\ Grown /\ Len(feed) \in Nat /\ Len(feed') \in Nat
        /\ ReportAt(Len(feed) + 1, "new", q.product, q.cid, q.lots)
        /\ FillAt(Len(feed) + 2, q.product, q.cid, n)
    BY <1>6 DEF Crossed, Grown
  <2>2. ASSUME NEW k \in (Len(feed) + 1)..Len(feed')
        PROVE  \/ feed'[k].kind = "position" /\ feed'[k].order_no = None
               \/ /\ feed'[k].order_no = VenueNo[q.cid] /\ feed'[k].kind # "canceled"
                  /\ feed'[k].kind = "new" => k = Len(feed) + 1
    <3>1. k = Len(feed) + 1 \/ k = Len(feed) + 2
          \/ (k = (Len(feed) + 2) + 1 /\ Len(feed') = (Len(feed) + 2) + 1)
      BY <2>1, <2>2 DEF FillAt
    <3> QED BY <2>1, <3>1 DEF FillAt, ReportAt
  <2>3. \E r : replies' = replies \cup {r} /\ r.of = q.kind /\ r.cid = q.cid /\ r.success
    <3>1. PICK r : r = Reply("market", q.cid, TRUE, FALSE, VenueNo[q.cid])
      OBVIOUS
    <3>2. r.of = q.kind /\ r.cid = q.cid /\ r.success = TRUE
      BY <2>1, <3>1 DEF Reply
    <3>3. replies' = replies \cup {r}
      BY <2>1, <3>1
    <3> QED BY <3>2, <3>3
  <2> QED BY <2>1, <2>2, <2>3 DEF Served
<1>7. CASE CanceledNow(q)
  <2> DEFINE o == q.order_no
  <2>1. /\ q.kind = "cancel" /\ o \in OrderNo /\ working[o] # None
        /\ working' = [working EXCEPT ![o] = None] /\ Grown /\ Len(feed) \in Nat
        /\ replies' = replies \cup {Reply("cancel", q.cid, TRUE, FALSE, q.order_no)}
        /\ \/ Len(feed') = Len(feed) + 1
              /\ ReportAt(Len(feed) + 1, "canceled", working[o].product, working[o].cid, 0)
           \/ ~EchoesCid /\ UNCHANGED feed
    BY <1>7 DEF CanceledNow, Ended, Grown
  <2>2. o = VenueNo[working[o].cid]
    BY <2>1, WorkingFacts
  <2>3. ASSUME NEW k \in (Len(feed) + 1)..Len(feed')
        PROVE  feed'[k].kind = "canceled" /\ feed'[k].order_no = o
    <3>1. k = Len(feed) + 1 /\ Len(feed') = Len(feed) + 1
      BY <2>1, <2>3
    <3>2. feed' # feed
      BY <2>1, <3>1
    <3> QED BY <2>1, <2>2, <3>1, <3>2 DEF ReportAt
  <2>4. \E r : replies' = replies \cup {r} /\ r.of = q.kind /\ r.cid = q.cid /\ r.success
    <3>1. PICK r : r = Reply("cancel", q.cid, TRUE, FALSE, q.order_no)
      OBVIOUS
    <3>2. r.of = q.kind /\ r.cid = q.cid /\ r.success = TRUE
      BY <2>1, <3>1 DEF Reply
    <3>3. replies' = replies \cup {r}
      BY <2>1, <3>1
    <3> QED BY <3>2, <3>3
  <2>5. ASSUME NEW n \in OrderNo, working'[n] # None PROVE n # o /\ working'[n] = working[n]
    BY <1>0, <2>1, <2>5
  <2>6. working'[o] = None
    BY <1>0, <2>1
  <2>x. ASSUME EchoesCid, NEW n \in OrderNo, working[n] # None, working'[n] = None
        PROVE  \E k \in (Len(feed) + 1)..Len(feed') : feed'[k].kind = "canceled" /\ feed'[k].order_no = n
    <3>1. n = o
      BY <1>0, <2>1, <2>x
    <3>2. Len(feed) + 1 \in (Len(feed) + 1)..Len(feed')
      BY <2>1, <2>x
    <3> QED BY <2>3, <3>1, <3>2
  <2>7. Served(q)
    BY <2>1, <2>3, <2>4, <2>5, <2>6, <2>x DEF Served
  <2> QED BY <1>1, <2>7
<1>8. CASE GoneAlready(q)
  <2>1. q.kind = "cancel" /\ working[q.order_no] = None /\ working' = working /\ feed' = feed
        /\ replies' = replies \cup {Reply("cancel", q.cid, FALSE, EchoesCid, None)}
    BY <1>8 DEF GoneAlready
  <2>2. Grown /\ Len(feed) \in Nat
    BY <1>0, <2>1, GrownBy DEF Grown
  <2>3. \A k \in (Len(feed) + 1)..Len(feed') : FALSE
    BY <2>1, <2>2
  <2>4. \E r : replies' = replies \cup {r} /\ r.of = q.kind /\ r.cid = q.cid
    <3>1. PICK r : r = Reply("cancel", q.cid, FALSE, EchoesCid, None)
      OBVIOUS
    <3>2. r.of = q.kind /\ r.cid = q.cid /\ r.success = FALSE
      BY <2>1, <3>1 DEF Reply
    <3>3. replies' = replies \cup {r}
      BY <2>1, <3>1
    <3> QED BY <3>2, <3>3
  <2>5. working[VenueNo[q.cid]] = None
    <3>1. CASE placed[q.cid] = None
      BY <1>2, <3>1, UnplacedUnknown
    <3>2. CASE placed[q.cid] # None
      BY <1>1, <2>1, <3>2 DEF Taken, RequestGenuine, Bears
    <3> QED BY <3>1, <3>2
  <2>6. Served(q)
    BY <2>1, <2>2, <2>3, <2>4, <2>5 DEF Served
  <2> QED BY <1>1, <2>6
<1> QED BY <1>1, <1>4, <1>5, <1>6, <1>7, <1>8

\* The venue's taking a request keeps track of every order.
LEMMA TakesKeepsSound ==
  ASSUME BaseInv, SoundInv, Sound, VenueTakes
  PROVE  SoundInv'
<1>0. TypeOK /\ IndexInv /\ WaitInv /\ SysTypes /\ MessagesGenuine
  BY DEF BaseInv
<1>1. PICK q : Taken(q) /\ Served(q)
  BY TakesServes
<1>2. /\ UNCHANGED <<placed, outstanding, cid_to_order_no, cid_to_product, place_waiting,
                     cancel_waiting, waiting_since, phase, last_cid>>
      /\ UNCHANGED <<world, session>>
  BY TakesEffect DEF vars, orderVars, waitVars, controlVars
<1>3. /\ q = requests[1] /\ 1 \in 1..Len(requests) /\ Len(requests) \in Nat
      /\ Len(requests') = Len(requests) - 1
      /\ \A i \in 1..Len(requests') : i + 1 \in 1..Len(requests) /\ requests'[i] = requests[i + 1]
  BY <1>1 DEF Taken
<1>4. /\ q.cid \in Cid /\ VenueNo[q.cid] \in OrderNo /\ q.lots \in Nat
      /\ q.kind \in {"place", "market", "cancel"} /\ q.product \in Product
      /\ q.kind # "cancel" => placed[q.cid] = q.product
  BY <1>3, RequestFacts, VenueAssumption
<1>5. q.kind # "cancel" => /\ Unheard(q.cid)
                           /\ outstanding[q.product][q.cid] = IF q.kind = "place" THEN q.lots ELSE None
  BY <1>3 DEF SoundInv, WireUnheard
<1>w. \A o \in OrderNo : working'[o] # None =>
        \/ working[o] # None /\ working'[o] = working[o] /\ ~(q.kind = "cancel" /\ q.order_no = o)
        \/ q.kind = "place" /\ o = VenueNo[q.cid] /\ working'[o] = OrderOf(q)
  BY <1>1 DEF Served
<1>g. Grown /\ Len(feed) \in Nat /\ Len(feed') \in Nat
  BY <1>1 DEF Served, Grown
<1>6. \A k \in (Len(feed) + 1)..Len(feed') :
        \/ feed'[k].kind = "position" /\ feed'[k].order_no = None
        \/ /\ q.kind # "cancel" /\ feed'[k].order_no = VenueNo[q.cid] /\ feed'[k].kind # "canceled"
           /\ q.kind = "place" => feed'[k].kind = "new"
        \/ /\ feed'[k].kind = "canceled" /\ feed'[k].order_no \in OrderNo
           /\ working[feed'[k].order_no] # None /\ working'[feed'[k].order_no] = None
  BY <1>1 DEF Served
<1>r. \A r \in replies' : r \in replies \/
        (r.cid = q.cid /\ (~r.success => working[VenueNo[q.cid]] = None /\ working' = working))
  BY <1>1 DEF Served
<1>7. \A k \in 1..Len(feed') : \/ k \in 1..Len(feed) /\ feed'[k] = feed[k]
                               \/ k \in (Len(feed) + 1)..Len(feed')
  BY <1>g DEF Grown
<1>8. \* a cancel of an order that works is still to come
      ASSUME NEW o \in OrderNo, working[o] # None, working'[o] # None,
             NEW i \in 1..Len(requests), requests[i].kind = "cancel", requests[i].order_no = o
      PROVE  i > 1 /\ i - 1 \in 1..Len(requests') /\ requests'[i - 1] = requests[i]
  <2>1. i # 1
    <3> SUFFICES ASSUME i = 1 PROVE FALSE
      OBVIOUS
    <3> QED BY <1>3, <1>w, <1>8
  <2>2. i - 1 \in 1..Len(requests') /\ (i - 1) + 1 = i /\ i > 1
    BY <1>3, <2>1
  <2> QED BY <1>3, <2>2
<1>o. ASSUME NEW o \in OrderNo, working[o] # None, working'[o] # None, CancelOnWire(o)
      PROVE  CancelOnWire(o)'
  BY <1>8, <1>o DEF CancelOnWire
<1>9. \* what is left on the wire is of other orders
      ASSUME NEW i \in 1..Len(requests'), requests'[i].kind # "cancel", NEW d, d = requests'[i].cid
      PROVE  /\ d \in Cid /\ d # q.cid /\ Unheard(d)
             /\ outstanding[requests'[i].product][d] =
                  IF requests'[i].kind = "place" THEN requests'[i].lots ELSE None
             /\ placed[d] \in Product
  <2>1. i + 1 \in 1..Len(requests) /\ requests'[i] = requests[i + 1] /\ i + 1 # 1
    BY <1>3
  <2>2. /\ d \in Cid /\ Unheard(d) /\ placed[d] \in Product
        /\ outstanding[requests'[i].product][d] =
             IF requests'[i].kind = "place" THEN requests'[i].lots ELSE None
    BY <1>9, <2>1, RequestFacts DEF SoundInv, WireUnheard
  <2>3. CASE q.kind # "cancel"
    BY <1>3, <1>9, <2>1, <2>2, <2>3 DEF SoundInv, SentOnce
  <2>4. CASE q.kind = "cancel"
    <3>1. q.cid \notin place_waiting[placed[d]]
      BY <1>3, <2>2, <2>4 DEF SoundInv, CancelAfterPlace
    <3> QED BY <2>2, <3>1 DEF Unheard
  <2> QED BY <2>2, <2>3, <2>4
<1>10. InTime' /\ NumberedUnlessWaiting' /\ DoneEmpty'
  BY <1>2 DEF SoundInv, InTime, NumberedUnlessWaiting, DoneEmpty, NoOrdersOutstanding, Outstanding
<1>11. SentOnce'
  <2> SUFFICES ASSUME NEW i \in 1..Len(requests'), NEW j \in 1..Len(requests'),
                      requests'[i].kind # "cancel", requests'[j].kind # "cancel",
                      requests'[i].cid = requests'[j].cid
               PROVE  i = j
    BY DEF SentOnce
  <2>1. i + 1 = j + 1
    BY <1>3 DEF SoundInv, SentOnce
  <2> QED BY <1>3, <2>1
<1>12. WireUnheard'
  <2> SUFFICES ASSUME NEW i \in 1..Len(requests'), requests'[i].kind # "cancel"
               PROVE  /\ Unheard(requests[i].cid)'
                      /\ outstanding'[requests'[i].product][requests'[i].cid] =
                           IF requests'[i].kind = "place" THEN requests'[i].lots ELSE None
    BY DEF WireUnheard
  <2>1. PICK d : d = requests'[i].cid
    OBVIOUS
  <2>2. /\ d \in Cid /\ d # q.cid /\ Unheard(d)
        /\ outstanding[requests'[i].product][d] =
             IF requests'[i].kind = "place" THEN requests'[i].lots ELSE None
    BY <1>9, <2>1
  <2>3. VenueNo[d] # VenueNo[q.cid] /\ VenueNo[d] \in OrderNo /\ working[VenueNo[d]] = None /\ VenueNo[d] # None
    BY <1>4, <2>2, VenueAssumption, NoneAssumption DEF Unheard
  <2>4. working'[VenueNo[d]] = None
    BY <1>w, <2>3
  <2>5. \A k \in (Len(feed) + 1)..Len(feed') : feed'[k].order_no # VenueNo[d]
    BY <1>6, <2>3
  <2>6. \A r \in replies' : r \in replies \/ r.cid # d
    BY <1>r, <2>2
  <2>7. Unheard(d)'
    BY <1>2, <1>g, <2>2, <2>4, <2>5, <2>6, StaysUnheard
  <2> QED BY <1>2, <2>1, <2>2, <2>7
<1>13. CancelAfterPlace'
  BY <1>2, <1>3 DEF SoundInv, CancelAfterPlace
<1>14. RefusalTrue'
  <2> SUFFICES ASSUME NEW r \in replies', ~r.success PROVE working'[VenueNo[r.cid]] = None
    BY DEF RefusalTrue
  <2>1. CASE r \in replies
    <3>1. working[VenueNo[r.cid]] = None /\ r.cid \in Cid /\ VenueNo[r.cid] \in OrderNo
      BY <1>0, <2>1, VenueAssumption DEF SoundInv, RefusalTrue, SysTypes, AnswerMsg
    <3>2. q.kind = "place" => r.cid # q.cid
      BY <1>5, <2>1 DEF Unheard
    <3>3. q.kind = "place" => VenueNo[r.cid] # VenueNo[q.cid]
      BY <1>4, <3>1, <3>2, VenueAssumption
    <3> QED BY <1>w, <3>1, <3>3
  <2>2. CASE r \notin replies
    BY <1>r, <2>2
  <2> QED BY <2>1, <2>2
<1>15. CanceledTrue'
  <2> SUFFICES ASSUME NEW k \in 1..Len(feed'), feed'[k].kind = "canceled"
               PROVE  working'[feed'[k].order_no] = None
    BY DEF CanceledTrue
  <2>1. CASE k \in 1..Len(feed) /\ feed'[k] = feed[k]
    <3>1. working[feed[k].order_no] = None
      BY <2>1 DEF SoundInv, CanceledTrue
    <3>2. feed[k] \in FeedMsg /\ ReportGenuine(feed[k])
      BY <1>0, <2>1, ElementOfSeq DEF SysTypes, MessagesGenuine
    <3>3. feed[k].order_no \in OrderNo
      BY <2>1, <3>2, VenueAssumption DEF ReportGenuine, OnOrder
    <3>4. q.kind = "place" => feed[k].order_no # VenueNo[q.cid]
      BY <1>5, <2>1 DEF Unheard, Reported
    <3> QED BY <1>w, <2>1, <3>1, <3>3, <3>4
  <2>2. CASE k \in (Len(feed) + 1)..Len(feed')
    BY <1>6, <2>2
  <2> QED BY <1>7, <2>1, <2>2
<1>16. CancelPending'
  <2> SUFFICES ASSUME NEW p \in Product, NEW c \in Cid, c \in cancel_waiting[p], working'[VenueNo[c]] # None
               PROVE  CancelOnWire(VenueNo[c])'
    BY <1>2 DEF CancelPending
  <2>0. VenueNo[c] \in OrderNo
    BY VenueAssumption
  <2>1. cid_to_product[c] = p /\ cid_to_order_no[p][c] # None
    BY <1>0 DEF WaitInv, CancelWaitIsForKnownOrder
  <2>2. q.kind = "place" => c # q.cid
    <3> SUFFICES ASSUME q.kind = "place", c = q.cid PROVE FALSE
      OBVIOUS
    <3>1. q.cid \in place_waiting[q.product] /\ cid_to_product[q.cid] = q.product
      BY <1>4, <1>5 DEF Unheard
    <3> QED BY <1>0, <1>4, <2>1, <3>1 DEF WaitInv, CancelWaitIsForKnownOrder
  <2>3. working[VenueNo[c]] # None
    BY <1>4, <1>w, <2>0, <2>2, VenueAssumption
  <2>4. CancelOnWire(VenueNo[c])
    BY <2>3 DEF SoundInv, CancelPending
  <2> QED BY <1>o, <2>0, <2>3, <2>4
<1>17. Covered'
  <2> SUFFICES ASSUME NEW d \in Cid, working'[VenueNo[d]] # None, ~CancelOnWire(VenueNo[d])'
               PROVE  /\ outstanding[placed[d]][d] # None
                      /\ Covers(feed', working'[VenueNo[d]].lots, d, outstanding[placed[d]][d])
    BY <1>2 DEF Covered
  <2>0. VenueNo[d] \in OrderNo
    BY VenueAssumption
  <2>1. CASE q.kind = "place" /\ d = q.cid
    <3>1. working[VenueNo[d]] = None /\ ~Reported(d) /\ placed[d] = q.product
          /\ outstanding[placed[d]][d] = q.lots /\ outstanding[placed[d]][d] # None
      BY <1>4, <1>5, <2>1, NoneAssumption DEF Unheard
    <3>2. working'[VenueNo[d]].lots = q.lots
      BY <1>w, <2>0, <3>1 DEF OrderOf
    <3>3. ASSUME NEW k \in 1..Len(feed') PROVE FillLots(feed'[k], d) = 0
      <4>1. CASE k \in 1..Len(feed) /\ feed'[k] = feed[k]
        BY <3>1, <4>1 DEF Reported, FillLots, About
      <4>2. CASE k \in (Len(feed) + 1)..Len(feed')
        BY <1>6, <2>1, <4>2 DEF FillLots, About
      <4> QED BY <1>7, <4>1, <4>2
    <3>4. Covers(feed', q.lots, d, q.lots)
      BY <1>4, <1>g, <3>3, CoversUnreported DEF Grown
    <3> QED BY <3>1, <3>2, <3>4
  <2>2. CASE ~(q.kind = "place" /\ d = q.cid)
    <3>1. working[VenueNo[d]] # None /\ working'[VenueNo[d]] = working[VenueNo[d]]
      BY <1>4, <1>w, <2>0, <2>2, VenueAssumption
    <3>2. ~CancelOnWire(VenueNo[d])
      BY <1>o, <2>0, <3>1
    <3>3. /\ outstanding[placed[d]][d] # None
          /\ Covers(feed, working[VenueNo[d]].lots, d, outstanding[placed[d]][d])
      BY <3>1, <3>2 DEF SoundInv, Covered
    <3>4. working[VenueNo[d]].lots \in Nat
      BY <2>0, <3>1, WorkingFacts
    <3>5. outstanding[placed[d]][d] \in Nat
      <4>1. placed[d] \in Product
        BY <1>0, <3>1, UnplacedUnknown DEF TypeOK
      <4> QED BY <1>0, <3>3, <4>1 DEF TypeOK
    <3>6. VenueNo[d] # VenueNo[q.cid] \/ q.kind = "cancel"
      BY <1>5, <3>1 DEF Unheard
    <3>7. \A k \in (Len(feed) + 1)..Len(feed') : FillLots(feed'[k], d) = IF k = Len(feed) + 1 THEN 0 ELSE 0
      BY <1>6, <3>6 DEF FillLots, About
    <3>8. 0 \in Nat /\ 0 <= working[VenueNo[d]].lots /\ working[VenueNo[d]].lots - 0 = working[VenueNo[d]].lots
      BY <3>4
    <3>9. Covers(feed', working[VenueNo[d]].lots - 0, d, outstanding[placed[d]][d])
      BY <1>g, <3>3, <3>4, <3>5, <3>7, <3>8, CoversGrown
    <3> QED BY <3>1, <3>3, <3>8, <3>9
  <2> QED BY <2>1, <2>2
<1>18. OneQuote'
  <2> SUFFICES ASSUME world.singleQuote
               PROVE  /\ \A o, n \in OrderNo :
                           working'[o] # None /\ working'[n] # None /\ working'[o].product = working'[n].product => o = n
                      /\ \A j \in 1..Len(requests') : requests'[j].kind = "place" =>
                           /\ \A i \in 1..Len(requests') :
                                requests'[i].kind = "place" /\ requests'[i].product = requests'[j].product => i = j
                           /\ \A o \in OrderNo : working'[o] # None /\ working'[o].product = requests'[j].product =>
                                \E i \in 1..(j - 1) : requests'[i].kind = "cancel" /\ requests'[i].order_no = o
    BY <1>2 DEF OneQuote
  <2>1. /\ \A o, n \in OrderNo :
             working[o] # None /\ working[n] # None /\ working[o].product = working[n].product => o = n
        /\ \A j \in 1..Len(requests) : requests[j].kind = "place" =>
             /\ \A i \in 1..Len(requests) :
                  requests[i].kind = "place" /\ requests[i].product = requests[j].product => i = j
             /\ \A o \in OrderNo : working[o] # None /\ working[o].product = requests[j].product =>
                  \E i \in 1..(j - 1) : requests[i].kind = "cancel" /\ requests[i].order_no = o
    BY DEF SoundInv, OneQuote
  <2>2. \* nothing of its product works when a quote is taken
        ASSUME q.kind = "place", NEW o \in OrderNo, working[o] # None, working[o].product = q.product
        PROVE  FALSE
    <3>1. \E i \in 1..(1 - 1) : requests[i].kind = "cancel" /\ requests[i].order_no = o
      BY <1>3, <2>1, <2>2
    <3> QED BY <3>1
  <2>3. OrderOf(q).product = q.product
    BY DEF OrderOf
  <2>4. ASSUME NEW o \in OrderNo, NEW n \in OrderNo, working'[o] # None, working'[n] # None,
               working'[o].product = working'[n].product
        PROVE  o = n
    BY <1>w, <2>1, <2>2, <2>3, <2>4
  <2>5. ASSUME NEW j \in 1..Len(requests'), requests'[j].kind = "place",
               NEW i \in 1..Len(requests'), requests'[i].kind = "place",
               requests'[i].product = requests'[j].product
        PROVE  i = j
    <3>1. i + 1 \in 1..Len(requests) /\ j + 1 \in 1..Len(requests)
          /\ requests'[i] = requests[i + 1] /\ requests'[j] = requests[j + 1]
      BY <1>3
    <3>2. i + 1 = j + 1
      BY <2>1, <2>5, <3>1
    <3> QED BY <1>3, <3>2
  <2>6. ASSUME NEW j \in 1..Len(requests'), requests'[j].kind = "place",
               NEW o \in OrderNo, working'[o] # None, working'[o].product = requests'[j].product
        PROVE  \E i \in 1..(j - 1) : requests'[i].kind = "cancel" /\ requests'[i].order_no = o
    <3>1. j + 1 \in 1..Len(requests) /\ requests'[j] = requests[j + 1] /\ j + 1 # 1 /\ j \in Nat
      BY <1>3
    <3>2. ~(q.kind = "place" /\ o = VenueNo[q.cid] /\ working'[o] = OrderOf(q))
      <4> SUFFICES ASSUME q.kind = "place", working'[o] = OrderOf(q) PROVE FALSE
        OBVIOUS
      <4>1. 1 = j + 1
        BY <1>3, <2>1, <2>3, <2>6, <3>1
      <4> QED BY <3>1, <4>1
    <3>3. working[o] # None /\ working'[o] = working[o]
      BY <1>w, <2>6, <3>2
    <3>4. PICK i \in 1..((j + 1) - 1) : requests[i].kind = "cancel" /\ requests[i].order_no = o
      <4>1. requests[j + 1].kind = "place" /\ working[o].product = requests[j + 1].product
        BY <2>6, <3>1, <3>3
      <4> QED BY <2>1, <3>1, <3>3, <4>1
    <3>5. i \in 1..Len(requests) /\ i \in Nat
      BY <1>3, <3>1, <3>4
    <3>6. i > 1 /\ requests'[i - 1] = requests[i]
      BY <1>8, <2>6, <3>3, <3>4, <3>5
    <3>7. i - 1 \in 1..(j - 1)
      BY <3>1, <3>4, <3>5, <3>6
    <3> QED BY <3>4, <3>6, <3>7
  <2> QED BY <2>4, <2>5, <2>6
<1> QED BY <1>10, <1>11, <1>12, <1>13, <1>14, <1>15, <1>16, <1>17, <1>18 DEF SoundInv

\* The venue fills n lots of order o, or ends it (n = 0): the wire is as it was.
Eased(o, n) ==
  /\ o \in OrderNo /\ working[o] # None /\ n \in Nat /\ n <= working[o].lots
  /\ Grown /\ Len(feed') > Len(feed)
  /\ \A x \in OrderNo : working'[x] # None =>
       /\ working[x] # None /\ working'[x].product = working[x].product
       /\ working'[x].lots = IF x = o THEN working[o].lots - n ELSE working[x].lots
  /\ \A x \in OrderNo : working[x] # None /\ working'[x] = None =>
       /\ x = o
       /\ \/ working[o].lots = n
          \/ \E k \in (Len(feed) + 1)..Len(feed') : feed'[k].kind = "canceled" /\ feed'[k].order_no = o
  /\ \A k \in (Len(feed) + 1)..Len(feed') :
       /\ feed'[k].order_no \in {o, None} /\ feed'[k].kind # "new"
       /\ feed'[k].kind = "canceled" => feed'[k].order_no = o /\ working'[o] = None
       /\ feed'[k].kind = "fill" <=> k = Len(feed) + 1 /\ n > 0
       /\ feed'[k].kind = "fill" => feed'[k].order_no = o /\ feed'[k].qty = n

\* A fill takes lots off an order.
LEMMA FillsEases ==
  ASSUME BaseInv, VenueFills
  PROVE  \E o, n : Eased(o, n)
<1>0. working \in [OrderNo -> Working \cup {None}]
  BY DEF BaseInv, SysTypes
<1>1. PICK o \in Ours, n \in Nat : Filled(o, n)
  BY FillsEffect
<1>2. /\ working[o] # None /\ n \in Nat /\ n > 0 /\ n <= working[o].lots
      /\ working' = [working EXCEPT ![o] =
           IF working[o].lots = n THEN None ELSE [working[o] EXCEPT !.lots = working[o].lots - n]]
      /\ Grown /\ FillAt(Len(feed) + 1, working[o].product, working[o].cid, n)
  BY <1>1 DEF Filled
<1>3. /\ o \in OrderNo /\ o = VenueNo[working[o].cid] /\ working[o] \in Working
      /\ working[o].lots \in Nat
  BY <1>2, WorkingFacts, VenueAssumption DEF Ours
<1>4. ASSUME NEW x \in OrderNo, working'[x] # None
      PROVE  /\ working[x] # None /\ working'[x].product = working[x].product
             /\ working'[x].lots = IF x = o THEN working[o].lots - n ELSE working[x].lots
  <2>1. CASE x # o
    BY <1>0, <1>2, <1>4, <2>1
  <2>2. CASE x = o
    <3>1. working'[o] = [working[o] EXCEPT !.lots = working[o].lots - n]
      BY <1>0, <1>2, <1>3, <1>4, <2>2
    <3> QED BY <1>2, <1>3, <2>2, <3>1 DEF Working
  <2> QED BY <2>1, <2>2
<1>5. Len(feed) \in Nat
  BY <1>2 DEF Grown
<1>6. ASSUME NEW k \in (Len(feed) + 1)..Len(feed')
      PROVE  /\ feed'[k].order_no \in {o, None} /\ feed'[k].kind # "new"
             /\ feed'[k].kind = "canceled" => feed'[k].order_no = o /\ working'[o] = None
             /\ feed'[k].kind = "fill" <=> k = Len(feed) + 1 /\ n > 0
             /\ feed'[k].kind = "fill" => feed'[k].order_no = o /\ feed'[k].qty = n
  <2>1. \/ k = Len(feed) + 1
        \/ k = (Len(feed) + 1) + 1 /\ Len(feed') = (Len(feed) + 1) + 1 /\ k # Len(feed) + 1
    BY <1>2, <1>5, <1>6 DEF FillAt
  <2>2. CASE k = Len(feed) + 1
    BY <1>2, <1>3, <2>2 DEF FillAt, ReportAt
  <2>3. CASE k = (Len(feed) + 1) + 1 /\ Len(feed') = (Len(feed) + 1) + 1 /\ k # Len(feed) + 1
    BY <1>2, <2>3 DEF FillAt
  <2> QED BY <2>1, <2>2, <2>3
<1>7. ASSUME NEW x \in OrderNo, working[x] # None, working'[x] = None
      PROVE  x = o /\ working[o].lots = n
  <2>1. x = o
    BY <1>0, <1>2, <1>7
  <2>2. [working[o] EXCEPT !.lots = working[o].lots - n] \in Working
    BY <1>2, <1>3 DEF Working
  <2>3. working'[o] = IF working[o].lots = n THEN None ELSE [working[o] EXCEPT !.lots = working[o].lots - n]
    BY <1>0, <1>2, <1>3
  <2> QED BY <1>7, <2>1, <2>2, <2>3, SystemAssumption
<1>8. Len(feed') > Len(feed)
  BY <1>2, <1>5 DEF FillAt
<1>9. Eased(o, n)
  BY <1>2, <1>3, <1>4, <1>6, <1>7, <1>8 DEF Eased
<1> QED BY <1>9

\* The venue's ending an order takes all its lots off.
LEMMA ExpiresEases ==
  ASSUME BaseInv, VenueExpires
  PROVE  \E o, n : Eased(o, n)
<1>0. working \in [OrderNo -> Working \cup {None}]
  BY DEF BaseInv, SysTypes
<1>1. PICK o \in Ours : Ended(o) /\ EchoesCid
  BY ExpiresEffect
<1>2. /\ working[o] # None /\ working' = [working EXCEPT ![o] = None]
      /\ Grown /\ Len(feed') = Len(feed) + 1 /\ Len(feed) \in Nat
      /\ ReportAt(Len(feed) + 1, "canceled", working[o].product, working[o].cid, 0)
  BY <1>1 DEF Ended, Grown
<1>3. o \in OrderNo /\ o = VenueNo[working[o].cid]
  BY <1>2, WorkingFacts, VenueAssumption DEF Ours
<1>4. ASSUME NEW x \in OrderNo, working'[x] # None PROVE x # o /\ working'[x] = working[x]
  BY <1>0, <1>2, <1>3, <1>4
<1>5. working'[o] = None
  BY <1>0, <1>2, <1>3
<1>6. ASSUME NEW k \in (Len(feed) + 1)..Len(feed')
      PROVE  feed'[k].kind = "canceled" /\ feed'[k].order_no = o
  <2>1. k = Len(feed) + 1
    BY <1>2
  <2> QED BY <1>2, <1>3, <2>1 DEF ReportAt
<1>7. working[o].lots \in Nat
  BY <1>2, <1>3, WorkingFacts
<1>8. ASSUME NEW x \in OrderNo, working[x] # None, working'[x] = None PROVE x = o
  BY <1>0, <1>2, <1>8
<1>9. \E k \in (Len(feed) + 1)..Len(feed') : feed'[k].kind = "canceled" /\ feed'[k].order_no = o
  <2>1. Len(feed) + 1 \in (Len(feed) + 1)..Len(feed')
    BY <1>2
  <2> QED BY <1>6, <2>1
<1>10. 0 \in Nat /\ 0 <= working[o].lots /\ Len(feed') > Len(feed)
  BY <1>2, <1>7
<1>11. Eased(o, 0)
  BY <1>2, <1>3, <1>4, <1>5, <1>6, <1>7, <1>8, <1>9, <1>10 DEF Eased
<1> QED BY <1>11

\* An order's having fewer lots, or none, keeps track of every order.
LEMMA EasedKeepsSound ==
  ASSUME BaseInv, SoundInv, Sound, NEW o, NEW n, Eased(o, n),
         UNCHANGED <<vars, world, session, requests, replies>>
  PROVE  SoundInv'
<1>0. TypeOK /\ SysTypes /\ MessagesGenuine
  BY DEF BaseInv
<1>1. UNCHANGED <<placed, outstanding, cid_to_order_no, cid_to_product, place_waiting,
                  cancel_waiting, waiting_since, phase>>
  BY DEF vars, orderVars, waitVars, controlVars
<1>2. /\ o \in OrderNo /\ working[o] # None /\ n \in Nat
      /\ Grown /\ Len(feed) \in Nat /\ Len(feed') \in Nat
  BY DEF Eased, Grown
<1>3. \A x \in OrderNo : working'[x] # None =>
        /\ working[x] # None /\ working'[x].product = working[x].product
        /\ working'[x].lots = IF x = o THEN working[o].lots - n ELSE working[x].lots
        /\ n <= working[o].lots
  BY DEF Eased
<1>4. \A k \in (Len(feed) + 1)..Len(feed') :
        /\ feed'[k].order_no \in {o, None}
        /\ feed'[k].kind = "canceled" => feed'[k].order_no = o /\ working'[o] = None
        /\ feed'[k].kind = "fill" <=> k = Len(feed) + 1 /\ n > 0
        /\ feed'[k].kind = "fill" => feed'[k].order_no = o /\ feed'[k].qty = n
  BY DEF Eased
<1>5. \A k \in 1..Len(feed') : \/ k \in 1..Len(feed) /\ feed'[k] = feed[k]
                               \/ k \in (Len(feed) + 1)..Len(feed')
  BY <1>2 DEF Grown
<1>6. InTime' /\ SentOnce' /\ CancelAfterPlace' /\ NumberedUnlessWaiting' /\ DoneEmpty'
  BY <1>1 DEF SoundInv, InTime, SentOnce, CancelAfterPlace, NumberedUnlessWaiting, DoneEmpty,
              NoOrdersOutstanding, Outstanding
<1>o. ASSUME NEW x, CancelOnWire(x) PROVE CancelOnWire(x)'
  BY <1>o DEF CancelOnWire
<1>7. WireUnheard'
  <2> SUFFICES ASSUME NEW i \in 1..Len(requests), requests[i].kind # "cancel"
               PROVE  /\ Unheard(requests[i].cid)'
                      /\ outstanding'[requests[i].product][requests[i].cid] =
                           IF requests[i].kind = "place" THEN requests[i].lots ELSE None
    BY DEF WireUnheard
  <2>1. PICK d : d = requests[i].cid
    OBVIOUS
  <2>2. /\ d \in Cid /\ Unheard(d)
        /\ outstanding[requests[i].product][d] =
             IF requests[i].kind = "place" THEN requests[i].lots ELSE None
    BY <2>1, RequestFacts DEF SoundInv, WireUnheard
  <2>3. VenueNo[d] \in OrderNo /\ working[VenueNo[d]] = None /\ VenueNo[d] # None
    BY <2>2, VenueAssumption, NoneAssumption DEF Unheard
  <2>4. working'[VenueNo[d]] = None /\ VenueNo[d] # o
    BY <1>2, <1>3, <2>3
  <2>5. \A k \in (Len(feed) + 1)..Len(feed') : feed'[k].order_no # VenueNo[d]
    BY <1>4, <2>3, <2>4
  <2>6. Unheard(d)'
    BY <1>1, <1>2, <2>2, <2>4, <2>5, StaysUnheard
  <2> QED BY <1>1, <2>1, <2>2, <2>6
<1>8. RefusalTrue'
  <2> SUFFICES ASSUME NEW r \in replies, ~r.success PROVE working'[VenueNo[r.cid]] = None
    BY DEF RefusalTrue
  <2>1. working[VenueNo[r.cid]] = None /\ VenueNo[r.cid] \in OrderNo
    BY <1>0, VenueAssumption DEF SoundInv, RefusalTrue, SysTypes, AnswerMsg
  <2> QED BY <1>3, <2>1
<1>9. CanceledTrue'
  <2> SUFFICES ASSUME NEW k \in 1..Len(feed'), feed'[k].kind = "canceled"
               PROVE  working'[feed'[k].order_no] = None
    BY DEF CanceledTrue
  <2>1. CASE k \in 1..Len(feed) /\ feed'[k] = feed[k]
    <3>1. working[feed[k].order_no] = None
      BY <2>1 DEF SoundInv, CanceledTrue
    <3>2. feed[k] \in FeedMsg /\ ReportGenuine(feed[k])
      BY <1>0, <2>1, ElementOfSeq DEF SysTypes, MessagesGenuine
    <3>3. feed[k].order_no \in OrderNo
      BY <2>1, <3>2, VenueAssumption DEF ReportGenuine, OnOrder
    <3> QED BY <1>3, <2>1, <3>1, <3>3
  <2>2. CASE k \in (Len(feed) + 1)..Len(feed')
    BY <1>4, <2>2
  <2> QED BY <1>5, <2>1, <2>2
<1>10. CancelPending'
  <2> SUFFICES ASSUME NEW p \in Product, NEW c \in Cid, c \in cancel_waiting[p], working'[VenueNo[c]] # None
               PROVE  CancelOnWire(VenueNo[c])'
    BY <1>1 DEF CancelPending
  <2>1. working[VenueNo[c]] # None
    BY <1>3, VenueAssumption
  <2> QED BY <1>o, <2>1 DEF SoundInv, CancelPending
<1>11. Covered'
  <2> SUFFICES ASSUME NEW d \in Cid, working'[VenueNo[d]] # None, ~CancelOnWire(VenueNo[d])'
               PROVE  /\ outstanding[placed[d]][d] # None
                      /\ Covers(feed', working'[VenueNo[d]].lots, d, outstanding[placed[d]][d])
    BY <1>1 DEF Covered
  <2>1. VenueNo[d] \in OrderNo /\ VenueNo[d] # None
    BY VenueAssumption, NoneAssumption
  <2>2. /\ working[VenueNo[d]] # None /\ n <= working[o].lots
        /\ working'[VenueNo[d]].lots = IF VenueNo[d] = o THEN working[o].lots - n ELSE working[VenueNo[d]].lots
    BY <1>3, <2>1
  <2>3. /\ outstanding[placed[d]][d] # None
        /\ Covers(feed, working[VenueNo[d]].lots, d, outstanding[placed[d]][d])
    BY <1>o, <2>2 DEF SoundInv, Covered
  <2>4. working[VenueNo[d]].lots \in Nat
    BY <2>1, <2>2, WorkingFacts
  <2>5. outstanding[placed[d]][d] \in Nat
    <3>1. placed[d] \in Product
      BY <1>0, <2>2, UnplacedUnknown DEF TypeOK
    <3> QED BY <1>0, <2>3, <3>1 DEF TypeOK
  <2>6. PICK e : e = IF VenueNo[d] = o THEN n ELSE 0
    OBVIOUS
  <2>7. e \in Nat /\ e <= working[VenueNo[d]].lots /\ working'[VenueNo[d]].lots = working[VenueNo[d]].lots - e
    BY <1>2, <2>2, <2>4, <2>6
  <2>8. ASSUME NEW k \in (Len(feed) + 1)..Len(feed')
        PROVE  FillLots(feed'[k], d) = IF k = Len(feed) + 1 THEN e ELSE 0
    <3>1. CASE feed'[k].kind = "fill"
      BY <1>4, <2>6, <3>1 DEF FillLots, About
    <3>2. CASE feed'[k].kind # "fill"
      BY <1>2, <1>4, <2>6, <3>2 DEF FillLots, About
    <3> QED BY <3>1, <3>2
  <2>9. Covers(feed', working[VenueNo[d]].lots - e, d, outstanding[placed[d]][d])
    BY <1>2, <2>3, <2>4, <2>5, <2>7, <2>8, CoversGrown
  <2> QED BY <2>3, <2>7, <2>9
<1>12. OneQuote'
  BY <1>3 DEF SoundInv, OneQuote
<1> QED BY <1>6, <1>7, <1>8, <1>9, <1>10, <1>11, <1>12 DEF SoundInv

\* No step of a sound system breaks SoundInv.
LEMMA SoundNext ==
  ASSUME BaseInv, SoundInv, Sound, [SysNext]_sysVars
  PROVE  SoundInv'
<1>1. CASE VenueFills
  <2>1. PICK o, n : Eased(o, n)
    BY <1>1, FillsEases
  <2> QED BY <1>1, <2>1, EasedKeepsSound, FillsEffect
<1>2. CASE VenueExpires
  <2>1. PICK o, n : Eased(o, n)
    BY <1>2, ExpiresEases
  <2> QED BY <1>2, <2>1, EasedKeepsSound, ExpiresEffect
<1>3. CASE FeedGap
  <2>1. feed # <<>> /\ feed' = Tail(feed) /\ UNCHANGED <<vars, world, session, requests, replies, working, holding>>
    BY <1>3 DEF FeedGap
  <2>2. UNCHANGED <<placed, outstanding, cid_to_order_no, cid_to_product, place_waiting,
                    cancel_waiting, waiting_since, phase>>
    BY <2>1 DEF vars, orderVars, waitVars, controlVars
  <2> QED BY <2>1, <2>2, SkipKeepsSound
<1>4. ~SessionDown
  BY DEF Sound, SessionDown
<1> QED BY <1>1, <1>2, <1>3, <1>4, StepCases, IdleKeepsSound, ReplyKeepsSound, FeedKeepsSound,
           DecideKeepsSound, CancelRoundKeepsSound, MarketKeepsSound, TakesKeepsSound

\* SoundInv holds when the program starts.
LEMMA SoundInit ==
  ASSUME SysInit
  PROVE  SoundInv
<1>1. Init /\ requests = <<>> /\ replies = {} /\ feed = <<>> /\ session = TRUE
      /\ working = [o \in OrderNo |-> None]
  BY DEF SysInit
<1>2. Len(requests) = 0 /\ Len(feed) = 0
  BY <1>1
<1>3. \A o \in OrderNo : working[o] = None
  BY <1>1
<1>4. \A c \in Cid : working[VenueNo[c]] = None
  BY <1>3, VenueAssumption
<1>5. /\ \A p \in Product : waiting_since[p] # "expired" /\ cancel_waiting[p] = {}
      /\ \A p \in Product, c \in Cid : outstanding[p][c] = None
      /\ phase = "run"
  BY <1>1 DEF Init
<1>6. InTime
  BY <1>1, <1>5 DEF InTime
<1>7. SentOnce /\ WireUnheard /\ CancelAfterPlace /\ RefusalTrue /\ CanceledTrue
  BY <1>1, <1>2 DEF SentOnce, WireUnheard, CancelAfterPlace, RefusalTrue, CanceledTrue
<1>8. CancelPending /\ NumberedUnlessWaiting /\ Covered /\ DoneEmpty /\ OneQuote
  BY <1>2, <1>3, <1>4, <1>5 DEF CancelPending, NumberedUnlessWaiting, Covered, DoneEmpty, OneQuote
<1> QED BY <1>6, <1>7, <1>8 DEF SoundInv

\* Where every request is answered in time, every cancel obeyed and the session
\* holds, the wire, the replies, the feed and the book account for every order.
THEOREM NothingLost == SysSpec => [](Sound => SoundInv)
<1> DEFINE I == Sound => SoundInv
<1>1. SysInit => I
  BY SoundInit
<1>2. BaseInv /\ I /\ [SysNext]_sysVars => I'
  <2> SUFFICES ASSUME BaseInv, I, [SysNext]_sysVars, Sound' PROVE SoundInv'
    OBVIOUS
  <2>1. Sound
    BY WorldStays DEF Sound
  <2> QED BY <2>1, SoundNext
<1> QED BY <1>1, <1>2, MessagesAreGenuine, PTL DEF SysSpec

\* A set whose members are all equal.
LEMMA AtMostOne ==
  ASSUME NEW S, \A x, y \in S : x = y
  PROVE  Cardinality(S) <= 1
<1>1. CASE S = {}
  BY <1>1, FS_EmptySet
<1>2. ASSUME NEW x \in S PROVE Cardinality(S) <= 1
  <2>1. S = {x}
    BY <1>2
  <2> QED BY <2>1, FS_Singleton
<1> QED BY <1>1, <1>2

\* Where requests are answered in time and cancels work, never two quotes of a product
\* work at the venue at once: update_orders' cancels are ahead of its places on the wire.
THEOREM OneQuoteWorks == SysSpec => [](Sound => NeverTwoQuotes)
<1>1. SoundInv => NeverTwoQuotes
  <2> SUFFICES ASSUME SoundInv, world.singleQuote, NEW p \in Product
               PROVE  Cardinality({o \in OrderNo : working[o] # None /\ working[o].product = p}) <= 1
    BY DEF NeverTwoQuotes
  <2>1. \A x, y \in {o \in OrderNo : working[o] # None /\ working[o].product = p} : x = y
    BY DEF SoundInv, OneQuote
  <2> QED BY <2>1, AtMostOne
<1> QED BY <1>1, NothingLost, PTL

\* Under the same conditions, whatever works at the venue once shutdown() is done has its
\* cancel on the wire: the trader forgets no order that is neither over nor being cancelled.
THEOREM ShutdownLeavesNothing == SysSpec => [](Sound => NothingLeftWorking)
<1>1. BaseInv /\ SoundInv => NothingLeftWorking
  <2> SUFFICES ASSUME BaseInv, SoundInv, phase = "done", NEW o \in OrderNo, working[o] # None
               PROVE  \E i \in DOMAIN requests : requests[i].kind = "cancel" /\ requests[i].order_no = o
    BY DEF NothingLeftWorking
  <2>1. PICK c : c = working[o].cid
    OBVIOUS
  <2>2. c \in Cid /\ o = VenueNo[c] /\ placed[c] \in Product
    BY <2>1, WorkingFacts
  <2>3. outstanding[placed[c]][c] = None
    BY <2>2 DEF SoundInv, DoneEmpty, NoOrdersOutstanding, Outstanding
  <2>4. CancelOnWire(o)
    BY <2>2, <2>3 DEF SoundInv, Covered
  <2>5. DOMAIN requests = 1..Len(requests)
    BY LenProperties DEF BaseInv, SysTypes
  <2> QED BY <2>4, <2>5 DEF CancelOnWire
<1> QED BY <1>1, MessagesAreGenuine, NothingLost, PTL

-----------------------------------------------------------------------------
(* Crossing.                                                               *)

Crosses == {"cross_send", "cross_wait"}

\* Order o is cancelled ahead of every market order.
CancelledFirst(o) ==
  \E i \in 1..Len(requests) : /\ requests[i].kind = "cancel" /\ requests[i].order_no = o
                              /\ \A j \in 1..i : requests[j].kind # "market"

CrossInv ==
  /\ phase \in {"run", "cancel", "flatten", "cross_cancel"} =>
       \A i \in 1..Len(requests) : requests[i].kind # "market"
  /\ phase \in Crosses =>
       /\ \A i \in 1..Len(requests) : requests[i].kind # "place"
       /\ \A o \in OrderNo : working[o] # None => CancelledFirst(o)

\* The steps that leave the wire and the venue's book alone, and how they move the phase.
LEMMA PhaseMoves ==
  ASSUME [SysNext]_sysVars, Sound
  PROVE  \/ /\ UNCHANGED <<requests, working>>
            /\ \/ phase' = phase
               \/ phase' \in {"cancel", "flatten", "cross_cancel"} /\ phase \in {"run", "cancel", "flatten"}
               \/ phase' = "cross_send" /\ phase = "cross_cancel" /\ NoOrdersOutstanding
               \/ phase' = "cross_wait" /\ phase = "cross_send"
               \/ phase' \in {"final", "done"}
         \/ Decide \/ SendCancelRound \/ (\E p \in Product : SendMarketFlatten(p))
         \/ VenueTakes \/ VenueFills \/ VenueExpires
<1>1. CASE StartUp \/ TakeReply \/ TakeFeed \/ (\E p \in Product : Clock(p))
  BY <1>1 DEF StartUp, TakeReply, TakeFeed, Clock, OnListenerStatus, OnProductInfo, OnOrderbook,
              OnOrderResponse, OnPosition, OnExecution, TimePasses, controlVars, venueVars
<1>2. CASE Stop \/ EndStage
  <2>1. UNCHANGED <<requests, working>>
    BY <1>2 DEF Stop, EndStage, venueVars
  <2>2. CASE BeginShutdown \/ EndPassiveFlatten \/ MarketFlattenSent \/ EndMarketFlatten
    BY <2>1, <2>2 DEF BeginShutdown, EndPassiveFlatten, MarketFlattenSent, EndMarketFlatten,
                      AfterFlatten, GoTo
  <2>3. CASE AllOrdersCancelled
    BY <2>1, <2>3 DEF AllOrdersCancelled, LeaveCancel, GoTo, AfterCancel, AfterFlatten, CancelPhases
  <2>4. CASE \E p \in Product : SkipMarketFlatten(p)
    BY <2>1, <2>4 DEF SkipMarketFlatten
  <2> QED BY <1>2, <2>2, <2>3, <2>4 DEF Stop, EndStage, Sound
<1>3. CASE SessionUp \/ FeedGap \/ SignalStep \/ Finished \/ UNCHANGED sysVars
  BY <1>3 DEF SessionUp, FeedGap, SignalStep, FirstSignal, FirstStamped, GraceEnds, RepeatSignal,
              Finished, sysVars, vars, controlVars, venueVars
<1>4. ~SessionDown
  BY DEF Sound, SessionDown
<1> QED BY <1>1, <1>2, <1>3, <1>4 DEF SysNext, TraderStep, VenueStep

\* More is sent.
LEMMA SendKeepsCross ==
  ASSUME BaseInv, SoundInv, CrossInv, NEW R \in Seq(RequestMsg), Dispatch(R),
         UNCHANGED <<phase, working>>,
         phase \in Crosses => \A i \in 1..Len(R) : R[i].kind # "place",
         phase # "cross_send" => \A i \in 1..Len(R) : R[i].kind # "market"
  PROVE  CrossInv'
<1>1. /\ Len(requests) \in Nat
      /\ \A i \in 1..Len(requests) : i \in 1..Len(requests') /\ requests'[i] = requests[i]
      /\ \A k \in 1..Len(requests') :
           \/ k \in 1..Len(requests) /\ requests'[k] = requests[k]
           \/ \E i \in 1..Len(R) : k = Len(requests) + i /\ requests'[k] = R[i]
  BY SentBehind
<1>2. ASSUME NEW o, CancelledFirst(o) PROVE CancelledFirst(o)'
  <2>1. PICK i \in 1..Len(requests) : /\ requests[i].kind = "cancel" /\ requests[i].order_no = o
                                      /\ \A j \in 1..i : requests[j].kind # "market"
    BY <1>2 DEF CancelledFirst
  <2>2. \A j \in 1..i : j \in 1..Len(requests)
    BY <1>1
  <2>3. \A j \in 1..i : requests'[j] = requests[j]
    BY <1>1, <2>2
  <2> QED BY <1>1, <2>1, <2>3 DEF CancelledFirst
<1>3. phase \in {"run", "cancel", "flatten", "cross_cancel"} =>
        \A k \in 1..Len(requests') : requests'[k].kind # "market"
  BY <1>1 DEF CrossInv
<1>4. phase \in Crosses => \A k \in 1..Len(requests') : requests'[k].kind # "place"
  BY <1>1 DEF CrossInv
<1> QED BY <1>2, <1>3, <1>4 DEF CrossInv

\* The venue takes the head of the wire.
LEMMA TakesKeepsCross ==
  ASSUME BaseInv, Sound, CrossInv, VenueTakes
  PROVE  CrossInv'
<1>1. phase' = phase
  BY TakesEffect DEF vars, controlVars
<1>2. PICK q : Taken(q) /\ (Accepted(q) \/ RefusedNow(q) \/ (\E n : Crossed(q, n))
                            \/ CanceledNow(q) \/ GoneAlready(q))
  BY TakesEffect
<1>3. /\ Len(requests) \in Nat /\ Len(requests) >= 1 /\ q = requests[1] /\ q \in RequestMsg
      /\ Len(requests') = Len(requests) - 1
      /\ \A i \in 1..Len(requests') : i + 1 \in 1..Len(requests) /\ requests'[i] = requests[i + 1]
  BY <1>2 DEF Taken
<1>4. working \in [OrderNo -> Working \cup {None}]
  BY DEF BaseInv, SysTypes
<1>5. ASSUME phase \in Crosses, NEW o \in OrderNo, working'[o] # None PROVE CancelledFirst(o)'
  <2>1. q.kind # "place"
    BY <1>3, <1>5 DEF CrossInv
  <2>2. working[o] # None /\ ~(q.kind = "cancel" /\ q.order_no = o)
    BY <1>2, <1>4, <1>5, <2>1 DEF Accepted, RefusedNow, Crossed, CanceledNow, Ended, GoneAlready, Sound
  <2>3. PICK i \in 1..Len(requests) : /\ requests[i].kind = "cancel" /\ requests[i].order_no = o
                                      /\ \A j \in 1..i : requests[j].kind # "market"
    BY <1>5, <2>2 DEF CrossInv, CancelledFirst
  <2>4. i # 1
    BY <1>3, <2>2, <2>3
  <2>5. i - 1 \in 1..Len(requests') /\ (i - 1) + 1 = i
    BY <1>3, <2>4
  <2>6. requests'[i - 1] = requests[i]
    BY <1>3, <2>5
  <2>7. ASSUME NEW j \in 1..(i - 1) PROVE requests'[j].kind # "market"
    <3>1. j \in 1..Len(requests') /\ j + 1 \in 1..i
      BY <1>3, <2>5
    <3> QED BY <1>3, <2>3, <3>1
  <2> QED BY <2>3, <2>5, <2>6, <2>7 DEF CancelledFirst
<1>6. phase \in {"run", "cancel", "flatten", "cross_cancel"} =>
        \A i \in 1..Len(requests') : requests'[i].kind # "market"
  BY <1>3 DEF CrossInv
<1>7. phase \in Crosses => \A i \in 1..Len(requests') : requests'[i].kind # "place"
  BY <1>3 DEF CrossInv
<1> QED BY <1>1, <1>5, <1>6, <1>7 DEF CrossInv

\* Once every order is off the trader's book, none is on the wire and each that works
\* has its cancel there.
LEMMA NoneLeftToCross ==
  ASSUME BaseInv, SoundInv, NoOrdersOutstanding
  PROVE  /\ \A i \in 1..Len(requests) : requests[i].kind # "place"
         /\ \A o \in OrderNo : working[o] # None => CancelOnWire(o)
<1>1. \A p \in Product, c \in Cid : outstanding[p][c] = None
  BY DEF NoOrdersOutstanding, Outstanding
<1>2. ASSUME NEW i \in 1..Len(requests), requests[i].kind = "place" PROVE FALSE
  <2>1. requests[i] \in RequestMsg
    BY DEF BaseInv, SysTypes
  <2>2. requests[i].product \in Product /\ requests[i].cid \in Cid /\ requests[i].lots \in Nat
    BY <2>1 DEF RequestMsg
  <2>3. outstanding[requests[i].product][requests[i].cid] = requests[i].lots
    BY <1>2 DEF SoundInv, WireUnheard
  <2> QED BY <1>1, <2>2, <2>3, NoneAssumption
<1>3. ASSUME NEW o \in OrderNo, working[o] # None PROVE CancelOnWire(o)
  <2>1. PICK c : c = working[o].cid
    OBVIOUS
  <2>2. c \in Cid /\ o = VenueNo[c] /\ placed[c] \in Product
    BY <1>3, <2>1, WorkingFacts
  <2> QED BY <1>1, <1>3, <2>2 DEF SoundInv, Covered
<1> QED BY <1>2, <1>3

\* No step of a sound system lets a quote stand beside a market order.
LEMMA CrossNext ==
  ASSUME BaseInv, SoundInv, CrossInv, Sound, [SysNext]_sysVars
  PROVE  CrossInv'
<1>0. TypeOK
  BY DEF BaseInv
<1>1. CASE Decide
  <2>0. PICK p \in Product, lots \in Placements :
          \E cancels \in SUBSET Outstanding(p), bids \in SUBSET DOMAIN lots :
            /\ UpdateOrders(p, cancels, lots) /\ Dispatch(DecisionRequests(p, cancels, lots, bids))
            /\ UNCHANGED working
    BY <1>1 DEF Decide
  <2>1. PICK cancels \in SUBSET Outstanding(p), bids \in SUBSET DOMAIN lots :
          /\ UpdateOrders(p, cancels, lots) /\ Dispatch(DecisionRequests(p, cancels, lots, bids))
          /\ UNCHANGED working
    BY <2>0
  <2>2. PICK R : R = DecisionRequests(p, cancels, lots, bids)
    OBVIOUS
  <2>3. IsDecision(R, p, {c \in cancels : cid_to_order_no[p][c] # None}, lots)
    BY <1>0, <2>2, DecisionFacts
  <2>4. R \in Seq(RequestMsg) /\ \A i \in 1..Len(R) : R[i].kind # "market"
    <3>1. \A c : CancelRequest(p, c).kind = "cancel"
      BY DEF CancelRequest, Request
    <3> QED BY <2>3, <3>1 DEF IsDecision
  <2>5. phase' = phase /\ phase \notin Crosses
    BY <2>1 DEF UpdateOrders, MayDecide, controlVars, Crosses
  <2> QED BY <2>1, <2>2, <2>4, <2>5, SendKeepsCross
<1>2. CASE SendCancelRound
  <2>1. PICK todo \in SetToSeqs({pc \in Product \X Cid : pc[2] \in Cancellable(pc[1])}) :
          Dispatch([i \in DOMAIN todo |-> CancelRequest(todo[i][1], todo[i][2])])
    BY <1>2 DEF SendCancelRound
  <2>2. PICK R : R = [i \in DOMAIN todo |-> CancelRequest(todo[i][1], todo[i][2])]
    OBVIOUS
  <2>3. IsCancelRound(R)
    BY <1>0, <2>2, CancelRoundFacts
  <2>4. R \in Seq(RequestMsg) /\ \A i \in 1..Len(R) : R[i].kind # "market"
    <3>1. \A p, c : CancelRequest(p, c).kind = "cancel"
      BY DEF CancelRequest, Request
    <3> QED BY <2>3, <3>1 DEF IsCancelRound
  <2>5. UNCHANGED <<phase, working>> /\ phase \notin Crosses
    BY <1>2 DEF SendCancelRound, CancelRound, controlVars, CancelPhases, Crosses
  <2> QED BY <2>1, <2>2, <2>4, <2>5, SendKeepsCross
<1>3. ASSUME NEW p \in Product, SendMarketFlatten(p) PROVE CrossInv'
  <2>1. PICK c : c = last_cid + 1
    OBVIOUS
  <2>2. PICK n \in Nat, is_bid \in BOOLEAN :
          /\ Request("market", p, c, None, n, is_bid) \in RequestMsg
          /\ Dispatch(<<Request("market", p, c, None, n, is_bid)>>)
    BY <1>3, <2>1, MarketEffect
  <2>3. PICK R : R = <<Request("market", p, c, None, n, is_bid)>>
    OBVIOUS
  <2>4. R \in Seq(RequestMsg) /\ \A i \in 1..Len(R) : R[i].kind # "place"
    BY <2>2, <2>3 DEF Request
  <2>5. phase' = phase /\ phase = "cross_send" /\ UNCHANGED working
    BY <1>3 DEF SendMarketFlatten, SubmitMarketFlatten
  <2> QED BY <2>2, <2>3, <2>4, <2>5, SendKeepsCross
<1>4. CASE VenueFills \/ VenueExpires
  <2>1. UNCHANGED <<vars, requests>> /\ \E o : (\E n : Filled(o, n)) \/ Ended(o)
    BY <1>4, FillsEffect, ExpiresEffect
  <2>2. phase' = phase
    BY <2>1 DEF vars, controlVars
  <2>3. \A o \in OrderNo : working'[o] # None => working[o] # None
    BY <2>1 DEF Filled, Ended, BaseInv, SysTypes
  <2> QED BY <2>1, <2>2, <2>3 DEF CrossInv, CancelledFirst
<1>5. CASE /\ UNCHANGED <<requests, working>>
           /\ phase' = "cross_send" /\ phase = "cross_cancel" /\ NoOrdersOutstanding
  <2>1. \A o \in OrderNo : working[o] # None => CancelledFirst(o)
    <3> SUFFICES ASSUME NEW o \in OrderNo, working[o] # None PROVE CancelledFirst(o)
      OBVIOUS
    <3>1. PICK i \in 1..Len(requests) : requests[i].kind = "cancel" /\ requests[i].order_no = o
      BY <1>5, NoneLeftToCross DEF CancelOnWire
    <3>2. Len(requests) \in Nat
      BY LenProperties DEF BaseInv, SysTypes
    <3>3. \A j \in 1..i : j \in 1..Len(requests)
      BY <3>2
    <3> QED BY <1>5, <3>1, <3>3 DEF CrossInv, CancelledFirst
  <2> QED BY <1>5, <2>1, NoneLeftToCross DEF CrossInv, CancelledFirst
<1>6. CASE /\ UNCHANGED <<requests, working>>
           /\ \/ phase' = phase
              \/ phase' \in {"cancel", "flatten", "cross_cancel"} /\ phase \in {"run", "cancel", "flatten"}
              \/ phase' = "cross_wait" /\ phase = "cross_send"
              \/ phase' \in {"final", "done"}
  BY <1>6 DEF CrossInv, CancelledFirst, Crosses
<1> QED BY <1>1, <1>2, <1>3, <1>4, <1>5, <1>6, PhaseMoves, TakesKeepsCross

\* Where requests are answered in time and cancels obeyed, no quote, a decision tick's
\* or the liquidation's, can fill beside a market order of submit_market_flatten.
THEOREM CrossesAlone == SysSpec => [](Sound => PulledBeforeCrossing)
<1> DEFINE I == Sound => CrossInv
<1>1. SysInit => I
  <2> SUFFICES ASSUME SysInit PROVE CrossInv
    OBVIOUS
  <2>1. Len(requests) = 0 /\ phase = "run"
    BY DEF SysInit, Init
  <2> QED BY <2>1 DEF CrossInv, Crosses
<1>2. BaseInv /\ (Sound => SoundInv) /\ I /\ [SysNext]_sysVars => I'
  <2> SUFFICES ASSUME BaseInv, Sound => SoundInv, I, [SysNext]_sysVars, Sound' PROVE CrossInv'
    OBVIOUS
  <2>1. Sound
    BY WorldStays DEF Sound
  <2> QED BY <2>1, CrossNext
<1>3. BaseInv /\ I => (Sound => PulledBeforeCrossing)
  <2> SUFFICES ASSUME BaseInv, CrossInv PROVE PulledBeforeCrossing
    OBVIOUS
  <2>1. DOMAIN requests = 1..Len(requests)
    BY LenProperties DEF BaseInv, SysTypes
  <2> QED BY <2>1 DEF CrossInv, CancelledFirst, PulledBeforeCrossing, Crosses
<1> QED BY <1>1, <1>2, <1>3, MessagesAreGenuine, NothingLost, PTL DEF SysSpec

-----------------------------------------------------------------------------
(* The books.                                                              *)

\* Nothing is told or done at the venue, and no order comes onto the book.
LEMMA AccountedStays ==
  ASSUME NEW c \in Cid, Accounted(c), UNCHANGED <<feed, working>>, Due(c)' => Due(c),
         \A p \in Product, x \in Cid :
           Tracks(p, x, c)' => Tracks(p, x, c) /\ outstanding'[p][x] = outstanding[p][x]
  PROVE  Accounted(c)'
<1>1. PICK left \in [0..Len(feed) -> Nat] :
    /\ Accounts(feed, working[VenueNo[c]], c, left)
    /\ \A p \in Product, x \in Cid : Tracks(p, x, c) => outstanding[p][x] = left[0]
    /\ Due(c) => working[VenueNo[c]] # None \/ Over(feed, c, left)
  BY DEF Accounted
<1>2. left \in [0..Len(feed') -> Nat]
  OBVIOUS
<1>3. Accounts(feed', working'[VenueNo[c]], c, left)
  BY <1>1
<1>4. \A p \in Product, x \in Cid : Tracks(p, x, c)' => outstanding'[p][x] = left[0]
  BY <1>1
<1>5. Due(c)' => working'[VenueNo[c]] # None \/ Over(feed', c, left)
  BY <1>1
<1> QED BY <1>2, <1>3, <1>4, <1>5 DEF Accounted

\* The venue adds reports, d lots of the order filled with the first of them.
LEMMA AccountedGrown ==
  ASSUME NEW c \in Cid, Accounted(c), Grown, UNCHANGED <<outstanding, cid_to_order_no>>,
         Due(c)' => Due(c), NEW d \in Nat,
         d = 0 \/ (working[VenueNo[c]] # None /\ working[VenueNo[c]].lots \in Nat
                   /\ d <= working[VenueNo[c]].lots /\ Len(feed') > Len(feed)),
         \A k \in (Len(feed) + 1)..Len(feed') :
           /\ FillLots(feed'[k], c) = IF k = Len(feed) + 1 THEN d ELSE 0
           /\ ~About(feed'[k], "new", c),
         working'[VenueNo[c]] # None =>
           working[VenueNo[c]] # None /\ working'[VenueNo[c]].lots = working[VenueNo[c]].lots - d,
         working[VenueNo[c]] # None /\ working'[VenueNo[c]] = None =>
           \/ working[VenueNo[c]].lots = d
           \/ \E k \in (Len(feed) + 1)..Len(feed') : About(feed'[k], "canceled", c)
  PROVE  Accounted(c)'
<1>1. /\ Len(feed) \in Nat /\ Len(feed') \in Nat /\ Len(feed) <= Len(feed')
      /\ \A i \in 1..Len(feed) : i \in 1..Len(feed') /\ feed'[i] = feed[i]
  BY DEF Grown
<1>2. PICK left \in [0..Len(feed) -> Nat] :
    /\ Accounts(feed, working[VenueNo[c]], c, left)
    /\ \A p \in Product, x \in Cid : Tracks(p, x, c) => outstanding[p][x] = left[0]
    /\ Due(c) => working[VenueNo[c]] # None \/ Over(feed, c, left)
  BY DEF Accounted
<1>3. PICK L : L = Len(feed)
  OBVIOUS
<1>4. left[L] \in Nat /\ d <= left[L]
  BY <1>1, <1>2, <1>3 DEF Accounts
<1> DEFINE new == [i \in 0..Len(feed') |-> IF i <= L THEN left[i] ELSE left[L] - d]
<1>5. new \in [0..Len(feed') -> Nat]
  <2> SUFFICES ASSUME NEW i \in 0..Len(feed') PROVE (IF i <= L THEN left[i] ELSE left[L] - d) \in Nat
    OBVIOUS
  <2> QED BY <1>1, <1>2, <1>3, <1>4
<1>6. \A i \in 0..L : new[i] = left[i]
  BY <1>1, <1>3
<1>7. \A i \in (L + 1)..Len(feed') : new[i] = left[L] - d
  BY <1>1, <1>3
<1> HIDE DEF new
<1>8. new[0] = left[0] /\ new[Len(feed')] = left[L] - d
  <2>1. 0 \in 0..L
    BY <1>1, <1>3
  <2>2. CASE Len(feed') = L
    <3>1. d = 0
      BY <1>1, <1>3, <2>2
    <3>2. L \in 0..L /\ left[L] - d = left[L]
      BY <1>1, <1>3, <1>4, <3>1
    <3> QED BY <1>6, <2>1, <2>2, <3>2
  <2>3. CASE Len(feed') > L
    <3>1. Len(feed') \in (L + 1)..Len(feed')
      BY <1>1, <1>3, <2>3
    <3> QED BY <1>6, <1>7, <2>1, <3>1
  <2> QED BY <1>1, <1>3, <2>2, <2>3
<1>9. ASSUME NEW i \in 1..Len(feed')
      PROVE  /\ new[i] + FillLots(feed'[i], c) = new[i - 1]
             /\ About(feed'[i], "new", c) => new[i] = feed'[i].qty
  <2>1. CASE i \in 1..L
    <3>1. i \in 0..L /\ i - 1 \in 0..L /\ feed'[i] = feed[i] /\ i \in 1..Len(feed)
      BY <1>1, <1>3, <2>1
    <3> QED BY <1>2, <1>6, <3>1 DEF Accounts
  <2>2. CASE i = L + 1
    <3>1. i \in (L + 1)..Len(feed') /\ i - 1 = L /\ L \in 0..L
      BY <1>1, <1>3, <2>2
    <3>2. FillLots(feed'[i], c) = d /\ ~About(feed'[i], "new", c)
      BY <1>3, <2>2, <3>1
    <3>3. new[i] = left[L] - d /\ new[i - 1] = left[L]
      BY <1>6, <1>7, <3>1
    <3> QED BY <1>4, <3>2, <3>3
  <2>3. CASE i > L + 1
    <3>1. i \in (L + 1)..Len(feed') /\ i - 1 \in (L + 1)..Len(feed') /\ i # L + 1
      BY <1>1, <1>3, <2>3
    <3>2. FillLots(feed'[i], c) = 0 /\ ~About(feed'[i], "new", c)
      BY <1>3, <3>1
    <3>3. new[i] = left[L] - d /\ new[i - 1] = left[L] - d
      BY <1>7, <3>1
    <3> QED BY <1>4, <3>2, <3>3
  <2> QED BY <1>1, <1>3, <2>1, <2>2, <2>3
<1>10. working'[VenueNo[c]] # None => new[Len(feed')] = working'[VenueNo[c]].lots
  BY <1>2, <1>3, <1>8 DEF Accounts
<1>11. Accounts(feed', working'[VenueNo[c]], c, new)
  BY <1>9, <1>10 DEF Accounts
<1>12. \A p \in Product, x \in Cid : Tracks(p, x, c)' => outstanding'[p][x] = new[0]
  BY <1>2, <1>8 DEF Tracks
<1>13. ASSUME Due(c)', working'[VenueNo[c]] = None PROVE Over(feed', c, new)
  <2>1. working[VenueNo[c]] # None \/ Over(feed, c, left)
    BY <1>2, <1>13
  <2>2. CASE working[VenueNo[c]] # None
    <3>1. CASE working[VenueNo[c]].lots = d
      BY <1>2, <1>3, <1>4, <1>8, <2>2, <3>1 DEF Accounts, Over
    <3>2. ASSUME NEW k \in (Len(feed) + 1)..Len(feed'), About(feed'[k], "canceled", c)
          PROVE  Over(feed', c, new)
      <4>1. k \in 1..Len(feed')
        BY <1>1
      <4> QED BY <3>2, <4>1 DEF Over
    <3> QED BY <1>13, <2>2, <3>1, <3>2
  <2>3. CASE working[VenueNo[c]] = None /\ left[Len(feed)] = 0
    <3>1. d = 0
      BY <2>3
    <3> QED BY <1>3, <1>8, <2>3, <3>1 DEF Over
  <2>4. CASE \E i \in 1..Len(feed) : About(feed[i], "canceled", c)
    BY <1>1, <2>4 DEF Over
  <2> QED BY <2>1, <2>2, <2>3, <2>4 DEF Over
<1> QED BY <1>5, <1>11, <1>12, <1>13 DEF Accounted

\* The trader takes a report.
LEMMA AccountedTail ==
  ASSUME BaseInv, TypeOK', feed # <<>>, feed' = Tail(feed), UNCHANGED working,
         NEW c \in Cid, Accounted(c),
         \A p \in Product, x \in Cid : Tracks(p, x, c)' =>
           \/ Tracks(p, x, c) /\ outstanding'[p][x] + FillLots(feed[1], c) = outstanding[p][x]
           \/ About(feed[1], "new", c) /\ outstanding'[p][x] = feed[1].qty,
         Due(c)' => Due(c) /\ ~About(feed[1], "canceled", c)
  PROVE  Accounted(c)'
<1>1. /\ Len(feed) \in Nat /\ Len(feed) >= 1 /\ feed[1] \in FeedMsg /\ Len(feed') = Len(feed) - 1
      /\ \A i \in 1..Len(feed') : i + 1 \in 1..Len(feed) /\ feed'[i] = feed[i + 1]
  BY FeedTail DEF BaseInv
<1>2. FillLots(feed[1], c) \in Nat
  <2>1. ReportGenuine(feed[1])
    BY <1>1 DEF BaseInv, MessagesGenuine
  <2> QED BY <1>1, <2>1, FillLotsNat
<1>3. PICK left \in [0..Len(feed) -> Nat] :
    /\ Accounts(feed, working[VenueNo[c]], c, left)
    /\ \A p \in Product, x \in Cid : Tracks(p, x, c) => outstanding[p][x] = left[0]
    /\ Due(c) => working[VenueNo[c]] # None \/ Over(feed, c, left)
  BY DEF Accounted
<1>4. /\ left[0] \in Nat /\ left[1] \in Nat /\ left[1] + FillLots(feed[1], c) = left[0]
      /\ About(feed[1], "new", c) => left[1] = feed[1].qty
  <2>1. 1 \in 1..Len(feed) /\ 1 \in 0..Len(feed) /\ 0 \in 0..Len(feed) /\ 1 - 1 = 0
    BY <1>1
  <2>2. left[1] + FillLots(feed[1], c) = left[1 - 1]
    BY <1>3, <2>1 DEF Accounts
  <2> QED BY <1>3, <2>1, <2>2 DEF Accounts
<1> DEFINE new == [i \in 0..Len(feed') |-> left[i + 1]]
<1>5. new \in [0..Len(feed') -> Nat] /\ \A i \in 0..Len(feed') : new[i] = left[i + 1]
  <2>1. \A i \in 0..Len(feed') : i + 1 \in 0..Len(feed)
    BY <1>1
  <2> QED BY <1>3, <2>1
<1> HIDE DEF new
<1>6. new[0] = left[1] /\ new[Len(feed')] = left[Len(feed)]
  <2>1. 0 \in 0..Len(feed') /\ 0 + 1 = 1 /\ Len(feed') \in 0..Len(feed') /\ Len(feed') + 1 = Len(feed)
    BY <1>1
  <2> QED BY <1>5, <2>1
<1>7. ASSUME NEW i \in 1..Len(feed')
      PROVE  /\ new[i] + FillLots(feed'[i], c) = new[i - 1]
             /\ About(feed'[i], "new", c) => new[i] = feed'[i].qty
  <2>1. i \in 0..Len(feed') /\ i - 1 \in 0..Len(feed') /\ (i - 1) + 1 = i /\ (i + 1) - 1 = i
    BY <1>1
  <2>2. i + 1 \in 1..Len(feed) /\ feed'[i] = feed[i + 1]
    BY <1>1
  <2>3. left[i + 1] + FillLots(feed[i + 1], c) = left[(i + 1) - 1]
        /\ (About(feed[i + 1], "new", c) => left[i + 1] = feed[i + 1].qty)
    BY <1>3, <2>2 DEF Accounts
  <2>4. new[i] = left[i + 1] /\ new[i - 1] = left[i]
    BY <1>5, <2>1
  <2> QED BY <2>1, <2>2, <2>3, <2>4
<1>8. Accounts(feed', working'[VenueNo[c]], c, new)
  BY <1>3, <1>6, <1>7 DEF Accounts
<1>9. ASSUME NEW p \in Product, NEW x \in Cid, Tracks(p, x, c)' PROVE outstanding'[p][x] = new[0]
  <2>1. outstanding'[p][x] \in Nat
    BY <1>9 DEF TypeOK, Tracks
  <2>2. CASE Tracks(p, x, c) /\ outstanding'[p][x] + FillLots(feed[1], c) = outstanding[p][x]
    <3>1. outstanding'[p][x] + FillLots(feed[1], c) = left[0]
      BY <1>3, <2>2
    <3> QED BY <1>2, <1>4, <1>6, <2>1, <3>1
  <2>3. CASE About(feed[1], "new", c) /\ outstanding'[p][x] = feed[1].qty
    BY <1>4, <1>6, <2>3
  <2> QED BY <1>9, <2>2, <2>3
<1>10. ASSUME Due(c)', working'[VenueNo[c]] = None PROVE Over(feed', c, new)
  <2>1. Over(feed, c, left)
    BY <1>3, <1>10
  <2>2. CASE left[Len(feed)] = 0
    BY <1>6, <2>2 DEF Over
  <2>3. ASSUME NEW i \in 1..Len(feed), About(feed[i], "canceled", c) PROVE Over(feed', c, new)
    <3>1. i # 1
      BY <1>10, <2>3
    <3>2. i - 1 \in 1..Len(feed') /\ (i - 1) + 1 = i
      BY <1>1, <3>1
    <3>3. feed'[i - 1] = feed[i]
      BY <1>1, <3>2
    <3> QED BY <2>3, <3>2, <3>3 DEF Over
  <2> QED BY <2>1, <2>2, <2>3 DEF Over
<1> QED BY <1>5, <1>8, <1>9, <1>10 DEF Accounted

\* on_execution takes a report on order c to be on whatever order of the book tracks it.
LEMMA TrackerIsTarget ==
  ASSUME BaseInv, EchoesCid, NEW m \in FeedMsg, NEW c \in Cid, OnOrder(m, c)
  PROVE  /\ \A p \in Product, x \in Cid : Tracks(p, x, c) => p = TargetProduct(m) /\ x = TargetCid(m)
         /\ TargetCid(m) = None => cid_to_product[c] = None
<1>0. m.client_order_id = c /\ m.order_no = VenueNo[c] /\ c # None /\ None \notin Product /\ VenueNo[c] \in OrderNo
  BY VenueAssumption, NoneAssumption DEF OnOrder, Cid
<1>1. HaveCid(m) <=> cid_to_product[c] # None
  BY <1>0 DEF HaveCid
<1>2. TargetCid(m) = None => cid_to_product[c] = None
  BY <1>0, <1>1 DEF TargetCid
<1>3. ASSUME NEW p \in Product, NEW x \in Cid, Tracks(p, x, c)
      PROVE  p = TargetProduct(m) /\ x = TargetCid(m)
  <2>1. CASE x = c
    <3>1. cid_to_product[c] = p
      BY <1>3, <2>1, OutstandingKnown DEF Tracks
    <3> QED BY <1>0, <1>1, <2>1, <3>1 DEF TargetCid, TargetProduct
  <2>2. CASE x # c
    <3>1. cid_to_order_no[p][x] = VenueNo[c]
      BY <1>3, <2>2 DEF Tracks
    <3>2. cid_to_product[c] = None
      BY <2>2, <3>1 DEF BaseInv, IndexInv, OneCidPerNumber
    <3>3. order_no_to_cid[p][VenueNo[c]] = x /\ x # None
      BY <1>0, <3>1, NoneAssumption DEF BaseInv, IndexInv, IndexesInverse, Cid
    <3>4. order_no_to_product[VenueNo[c]] = p
      BY <1>0, <3>3 DEF BaseInv, IndexInv, IndexesInverse
    <3>5. ~HaveCid(m)
      BY <1>1, <3>2
    <3>6. TargetProduct(m) = p
      BY <1>0, <3>4, <3>5 DEF TargetProduct
    <3> QED BY <1>0, <3>3, <3>5, <3>6 DEF TargetCid
  <2> QED BY <2>1, <2>2
<1> QED BY <1>2, <1>3

\* Nothing of an order is filled in what is on the feed.
LEMMA AccountedFlat ==
  ASSUME NEW c \in Cid, NEW n \in Nat, Len(feed') \in Nat,
         \A i \in 1..Len(feed') :
           FillLots(feed'[i], c) = 0 /\ (About(feed'[i], "new", c) => feed'[i].qty = n),
         working'[VenueNo[c]] # None => working'[VenueNo[c]].lots = n,
         \A p \in Product, x \in Cid : Tracks(p, x, c)' => outstanding'[p][x] = n,
         Due(c)' => working'[VenueNo[c]] # None
  PROVE  Accounted(c)'
<1> DEFINE left == [i \in 0..Len(feed') |-> n]
<1>1. left \in [0..Len(feed') -> Nat] /\ \A i \in 0..Len(feed') : left[i] = n
  OBVIOUS
<1>2. left[0] = n /\ left[Len(feed')] = n
  <2>1. 0 \in 0..Len(feed') /\ Len(feed') \in 0..Len(feed')
    OBVIOUS
  <2> QED BY <1>1, <2>1
<1> HIDE DEF left
<1>3. ASSUME NEW i \in 1..Len(feed')
      PROVE  /\ left[i] + FillLots(feed'[i], c) = left[i - 1]
             /\ About(feed'[i], "new", c) => left[i] = feed'[i].qty
  <2>1. i \in 0..Len(feed') /\ i - 1 \in 0..Len(feed')
    OBVIOUS
  <2> QED BY <1>1, <2>1
<1>4. Accounts(feed', working'[VenueNo[c]], c, left)
  BY <1>2, <1>3 DEF Accounts
<1> QED BY <1>1, <1>2, <1>4 DEF Accounted

\* An order that has just been sent: the book has all of it, or nothing yet.
LEMMA AccountedNew ==
  ASSUME NEW c \in Cid, NEW n \in Nat, OnWire(c)', working'[VenueNo[c]] = None, ~Reported(c)',
         Len(feed') \in Nat,
         \A p \in Product, x \in Cid : Tracks(p, x, c)' => outstanding'[p][x] = n
  PROVE  Accounted(c)'
<1>1. \A i \in 1..Len(feed') : feed'[i].order_no # VenueNo[c]
  BY DEF Reported
<1>2. ASSUME NEW i \in 1..Len(feed')
      PROVE  FillLots(feed'[i], c) = 0 /\ ~About(feed'[i], "new", c)
  BY <1>1 DEF FillLots, About
<1>3. ~Due(c)'
  BY DEF Due
<1> QED BY <1>2, <1>3, AccountedFlat

\* An order stays accounted for when others are sent.
LEMMA AccountedSent ==
  ASSUME NEW c \in Cid, Accounted(c), UNCHANGED <<feed, working, replies>>,
         OnWire(c) => OnWire(c)', cid_to_product'[c] = cid_to_product[c],
         \A p \in Product, x \in Cid :
           Tracks(p, x, c)' => Tracks(p, x, c) /\ outstanding'[p][x] = outstanding[p][x]
  PROVE  Accounted(c)'
<1>1. Refused(c)' <=> Refused(c)
  BY DEF Refused
<1>2. Announces(feed', c) => Announces(feed, c)
  BY DEF Announces
<1>3. Due(c)' => Due(c)
  BY <1>1, <1>2 DEF Due
<1> QED BY <1>3, AccountedStays

\* Nothing happens.
LEMMA IdleKeepsBooks ==
  ASSUME BaseInv, BooksInv, Idle
  PROVE  BooksInv'
<1>1. /\ UNCHANGED <<outstanding, cid_to_order_no, cid_to_product, place_waiting, cancel_waiting>>
      /\ UNCHANGED <<placed, requests, replies, feed, working>>
  BY DEF Idle, orderVars, venueVars
<1>2. PlaceAnswered' /\ RefusedUnheard' /\ PlacedBeforeCanceled' /\ CancelOutstanding'
      /\ LotsLeftOver' /\ NewFirst'
  BY <1>1 DEF BooksInv, PlaceAnswered, OnWire, RefusedUnheard, Reported, PlacedBeforeCanceled,
              CancelOutstanding, LotsLeftOver, NewFirst
<1>3. ASSUME NEW c \in Cid, placed[c] # None PROVE Accounted(c)'
  <2>1. OnWire(c) => OnWire(c)'
    BY <1>1 DEF OnWire
  <2>2. \A p \in Product, x \in Cid :
          Tracks(p, x, c)' => Tracks(p, x, c) /\ outstanding'[p][x] = outstanding[p][x]
    BY <1>1 DEF Tracks
  <2>3. Accounted(c)
    BY <1>3 DEF BooksInv, OrdersAccounted
  <2> QED BY <1>1, <2>1, <2>2, <2>3, AccountedSent
<1>4. OrdersAccounted'
  BY <1>1, <1>3 DEF OrdersAccounted
<1> QED BY <1>2, <1>4 DEF BooksInv

\* A round of cancels leaves the places, and what is left of each order, alone.
LEMMA CancelRoundKeepsBooks ==
  ASSUME BaseInv, SoundInv, BooksInv, SendCancelRound
  PROVE  BooksInv'
<1>0. TypeOK
  BY DEF BaseInv
<1>1. PICK todo \in SetToSeqs({pc \in Product \X Cid : pc[2] \in Cancellable(pc[1])}) :
        Dispatch([i \in DOMAIN todo |-> CancelRequest(todo[i][1], todo[i][2])])
  BY DEF SendCancelRound
<1>2. CancelRound /\ UNCHANGED <<feed, working>>
  BY DEF SendCancelRound
<1>3. /\ \A p \in Product : cancel_waiting'[p] = cancel_waiting[p] \cup Cancellable(p)
      /\ UNCHANGED <<placed, outstanding, cid_to_order_no, cid_to_product, place_waiting>>
  BY <1>0, <1>2, CancelRoundEffect
<1>4. PICK R : R = [i \in DOMAIN todo |-> CancelRequest(todo[i][1], todo[i][2])]
  OBVIOUS
<1>5. R \in Seq(RequestMsg) /\ Dispatch(R)
  BY <1>0, <1>1, <1>4, CancelRoundFacts DEF IsCancelRound
<1>6. /\ replies' = replies
      /\ \A i \in 1..Len(requests) : i \in 1..Len(requests') /\ requests'[i] = requests[i]
  BY <1>5, SentBehind
<1>7. \A c \in Cid : OnWire(c) => OnWire(c)'
  BY <1>6 DEF OnWire
<1>8. PlaceAnswered'
  BY <1>3, <1>6, <1>7 DEF BooksInv, PlaceAnswered
<1>9. RefusedUnheard' /\ PlacedBeforeCanceled' /\ LotsLeftOver' /\ NewFirst'
  BY <1>2, <1>3, <1>6 DEF BooksInv, RefusedUnheard, Reported, PlacedBeforeCanceled, LotsLeftOver, NewFirst
<1>10. CancelOutstanding'
  BY <1>3 DEF BooksInv, CancelOutstanding, Cancellable, Outstanding
<1>11. ASSUME NEW c \in Cid, placed[c] # None PROVE Accounted(c)'
  <2>1. \A p \in Product, x \in Cid :
          Tracks(p, x, c)' => Tracks(p, x, c) /\ outstanding'[p][x] = outstanding[p][x]
    BY <1>3 DEF Tracks
  <2>2. Accounted(c)
    BY <1>11 DEF BooksInv, OrdersAccounted
  <2> QED BY <1>2, <1>3, <1>6, <1>7, <2>1, <2>2, AccountedSent
<1>12. OrdersAccounted'
  BY <1>3, <1>11 DEF OrdersAccounted
<1> QED BY <1>8, <1>9, <1>10, <1>12 DEF BooksInv

\* Nothing tracks an order that has not been sent.
LEMMA UnplacedUntracked ==
  ASSUME BaseInv, NEW c \in Cid, placed[c] = None, NEW p \in Product, NEW x \in Cid
  PROVE  cid_to_order_no[p][x] # VenueNo[c]
<1> SUFFICES ASSUME cid_to_order_no[p][x] = VenueNo[c] PROVE FALSE
  OBVIOUS
<1>1. VenueNo[c] \in OrderNo
  BY VenueAssumption
<1>2. Home(VenueNo[c], p)
  BY <1>1 DEF BaseInv, IndexInv, NumbersAtHome
<1>3. placed[c] = p
  BY <1>2 DEF Home
<1> QED BY <1>3, NoneAssumption

\* A market order is on no book until the venue has told of it.
LEMMA MarketKeepsBooks ==
  ASSUME BaseInv, SoundInv, BooksInv, NEW p \in Product, SendMarketFlatten(p)
  PROVE  BooksInv'
<1>0. TypeOK /\ IndexInv /\ WaitInv /\ SysTypes /\ MessagesGenuine
  BY DEF BaseInv
<1>1. PICK c : c = last_cid + 1
  OBVIOUS
<1>2. /\ c \in Cid /\ placed[c] = None
      /\ \A q \in Product : outstanding[q][c] = None /\ cid_to_order_no[q][c] = None
      /\ \A a \in Cid : /\ placed'[a] = IF a = c THEN p ELSE placed[a]
                        /\ cid_to_product'[a] = IF a = c THEN p ELSE cid_to_product[a]
      /\ \A q \in Product, a \in Cid :
           a \in place_waiting'[q] <=> a \in place_waiting[q] \/ (q = p /\ a = c)
      /\ UNCHANGED <<outstanding, cid_to_order_no, cancel_waiting, feed, working>>
      /\ \E n \in Nat, is_bid \in BOOLEAN :
              /\ n > 0 /\ Request("market", p, c, None, n, is_bid) \in RequestMsg
              /\ Dispatch(<<Request("market", p, c, None, n, is_bid)>>)
  BY <1>1, MarketEffect
<1>3. PICK n \in Nat, is_bid \in BOOLEAN :
              /\ n > 0 /\ Request("market", p, c, None, n, is_bid) \in RequestMsg
              /\ Dispatch(<<Request("market", p, c, None, n, is_bid)>>)
  BY <1>2
<1>4. PICK R : R = <<Request("market", p, c, None, n, is_bid)>>
  OBVIOUS
<1>5. R \in Seq(RequestMsg) /\ Dispatch(R) /\ Len(R) = 1 /\ R[1].kind = "market" /\ R[1].cid = c
  BY <1>3, <1>4 DEF Request
<1>6. /\ replies' = replies /\ Len(requests) \in Nat
      /\ \A i \in 1..Len(requests) : i \in 1..Len(requests') /\ requests'[i] = requests[i]
      /\ \A i \in 1..Len(R) : Len(requests) + i \in 1..Len(requests') /\ requests'[Len(requests) + i] = R[i]
  BY <1>5, SentBehind
<1>7. \A a \in Cid : OnWire(a) => OnWire(a)'
  BY <1>6 DEF OnWire
<1>8. OnWire(c)'
  <2>1. Len(requests) + 1 \in 1..Len(requests') /\ requests'[Len(requests) + 1] = R[1]
    BY <1>5, <1>6
  <2> QED BY <1>5, <2>1 DEF OnWire
<1>9. PlaceAnswered'
  BY <1>2, <1>6, <1>7, <1>8 DEF BooksInv, PlaceAnswered
<1>10. ASSUME NEW r \in replies
       PROVE  r.cid \in Cid /\ r.cid # c /\ (r.of # "cancel" => placed[r.cid] \in Product)
  <2>1. r.cid \in Cid /\ r.cid <= last_cid /\ (r.of # "cancel" => placed[r.cid] # None)
    BY <1>0 DEF SysTypes, AnswerMsg, MessagesGenuine, ReplyGenuine
  <2>2. last_cid \in Int /\ r.cid \in Int
    BY <1>0, <2>1, BoundsAssumption DEF TypeOK, Cid
  <2> QED BY <1>0, <1>1, <2>1, <2>2 DEF TypeOK
<1>11. RefusedUnheard'
  <2> SUFFICES ASSUME NEW r \in replies, r.of # "cancel", ~r.success
               PROVE  /\ r.cid \in place_waiting'[placed'[r.cid]] /\ ~Reported(r.cid)'
                      /\ \A s \in replies : s.cid = r.cid => s = r
    BY <1>6 DEF RefusedUnheard
  <2>1. /\ r.cid \in place_waiting[placed[r.cid]] /\ ~Reported(r.cid)
        /\ \A s \in replies : s.cid = r.cid => s = r
    BY DEF BooksInv, RefusedUnheard
  <2>2. ~Reported(r.cid)'
    BY <1>2, <2>1 DEF Reported
  <2> QED BY <1>2, <1>10, <2>1, <2>2
<1>12. PlacedBeforeCanceled'
  BY <1>2, <1>6, <1>10 DEF BooksInv, PlacedBeforeCanceled
<1>13. CancelOutstanding' /\ LotsLeftOver' /\ NewFirst'
  BY <1>2 DEF BooksInv, CancelOutstanding, LotsLeftOver, NewFirst
<1>14. ASSUME NEW a \in Cid, placed'[a] # None PROVE Accounted(a)'
  <2>1. CASE a # c
    <3>1. \A q \in Product, x \in Cid :
            Tracks(q, x, a)' => Tracks(q, x, a) /\ outstanding'[q][x] = outstanding[q][x]
      BY <1>2 DEF Tracks
    <3>2. Accounted(a)
      BY <1>2, <1>14, <2>1 DEF BooksInv, OrdersAccounted
    <3> QED BY <1>2, <1>6, <1>7, <2>1, <3>1, <3>2, AccountedSent
  <2>2. CASE a = c
    <3>1. working[VenueNo[c]] = None /\ ~Reported(c)
      BY <1>2, UnplacedUnknown
    <3>2. ~Reported(c)' /\ Len(feed') \in Nat
      BY <1>0, <1>2, <3>1, LenProperties DEF Reported, SysTypes
    <3>3. \A q \in Product, x \in Cid : ~Tracks(q, x, c)'
      BY <1>2, UnplacedUntracked DEF Tracks
    <3>4. Accounted(c)'
      <4>1. 0 \in Nat
        OBVIOUS
      <4> QED BY <1>2, <1>8, <3>1, <3>2, <3>3, <4>1, AccountedNew
    <3> QED BY <2>2, <3>4
  <2> QED BY <2>1, <2>2
<1>15. OrdersAccounted'
  BY <1>14 DEF OrdersAccounted
<1> QED BY <1>9, <1>11, <1>12, <1>13, <1>15 DEF BooksInv

\* A decision enters each order it places with the lots it sends.
LEMMA DecideKeepsBooks ==
  ASSUME BaseInv, SoundInv, BooksInv, Decide
  PROVE  BooksInv'
<1>0. TypeOK /\ IndexInv /\ WaitInv /\ SysTypes /\ MessagesGenuine
  BY DEF BaseInv
<1>1. PICK p \in Product, lots \in Placements :
        \E cancels \in SUBSET Outstanding(p), bids \in SUBSET DOMAIN lots :
          /\ UpdateOrders(p, cancels, lots)
          /\ Dispatch(DecisionRequests(p, cancels, lots, bids))
          /\ UNCHANGED <<feed, working>>
  BY DEF Decide
<1>2. PICK cancels \in SUBSET Outstanding(p), bids \in SUBSET DOMAIN lots :
          /\ UpdateOrders(p, cancels, lots)
          /\ Dispatch(DecisionRequests(p, cancels, lots, bids))
          /\ UNCHANGED <<feed, working>>
  BY <1>1
<1>3. PICK sent : sent = {c \in cancels : cid_to_order_no[p][c] # None}
  OBVIOUS
<1>4. PICK new : new = DOMAIN lots
  OBVIOUS
<1>d. Decided(p, sent, new, lots)
  BY <1>0, <1>2, <1>3, <1>4, DecisionEffect
<1>5. /\ new \subseteq Cid /\ sent \subseteq Outstanding(p)
      /\ \A a \in Cid : a \in new <=> a > last_cid /\ a <= last_cid'
      /\ \A a \in new : /\ placed[a] = None /\ cid_to_product[a] = None
                        /\ lots[a] \in Nat /\ lots[a] > 0
                        /\ \A q \in Product : outstanding[q][a] = None /\ cid_to_order_no[q][a] = None
      /\ \A a \in Cid : /\ placed'[a] = IF a \in new THEN p ELSE placed[a]
                        /\ cid_to_product'[a] = IF a \in new THEN p ELSE cid_to_product[a]
      /\ \A q \in Product, a \in Cid :
           outstanding'[q][a] = IF q = p /\ a \in new THEN lots[a] ELSE outstanding[q][a]
      /\ \A q \in Product :
           /\ place_waiting'[q] = IF q = p THEN new ELSE place_waiting[q]
           /\ cancel_waiting'[q] = IF q = p THEN sent ELSE cancel_waiting[q]
      /\ UNCHANGED cid_to_order_no
      /\ Waiting(p) = {} \/ waiting_since[p] = "expired"
  BY <1>d DEF Decided
<1>w. place_waiting[p] = {}
  BY <1>5 DEF SoundInv, InTime, Waiting
<1>i. last_cid \in Int /\ \A a \in Cid : a \in Int
  BY <1>0, BoundsAssumption DEF TypeOK, Cid
<1>6. PICK R : R = DecisionRequests(p, cancels, lots, bids)
  OBVIOUS
<1>7. IsDecision(R, p, sent, lots)
  BY <1>0, <1>2, <1>3, <1>6, DecisionFacts
<1>8. R \in Seq(RequestMsg) /\ Dispatch(R)
  BY <1>2, <1>6, <1>7 DEF IsDecision
<1>9. /\ replies' = replies /\ Len(requests) \in Nat
      /\ \A i \in 1..Len(requests) : i \in 1..Len(requests') /\ requests'[i] = requests[i]
      /\ \A i \in 1..Len(R) : Len(requests) + i \in 1..Len(requests') /\ requests'[Len(requests) + i] = R[i]
  BY <1>8, SentBehind
<1>10. \A a \in Cid : OnWire(a) => OnWire(a)'
  BY <1>9 DEF OnWire
<1>11. ASSUME NEW a \in new PROVE OnWire(a)'
  <2>1. PICK i \in 1..Len(R) : R[i].kind = "place" /\ R[i].cid = a
    BY <1>4, <1>7 DEF IsDecision
  <2>2. Len(requests) + i \in 1..Len(requests') /\ requests'[Len(requests) + i] = R[i]
    BY <1>9, <2>1
  <2> QED BY <2>1, <2>2 DEF OnWire
<1>12. PlaceAnswered'
  <2> SUFFICES ASSUME NEW q \in Product, NEW a \in Cid, a \in place_waiting'[q]
               PROVE  OnWire(a)' \/ \E r \in replies' : r.cid = a /\ r.of # "cancel"
    BY DEF PlaceAnswered
  <2>1. CASE q = p
    BY <1>5, <1>11, <2>1
  <2>2. CASE q # p
    BY <1>5, <1>9, <1>10, <2>2 DEF BooksInv, PlaceAnswered
  <2> QED BY <2>1, <2>2
<1>13. ASSUME NEW r \in replies
       PROVE  r.cid \in Cid /\ r.cid \notin new /\ (r.of # "cancel" => placed[r.cid] \in Product)
  <2>1. r.cid \in Cid /\ r.cid <= last_cid /\ (r.of # "cancel" => placed[r.cid] # None)
    BY <1>0 DEF SysTypes, AnswerMsg, MessagesGenuine, ReplyGenuine
  <2> QED BY <1>0, <1>5, <1>i, <2>1 DEF TypeOK
<1>14. RefusedUnheard'
  <2> SUFFICES ASSUME NEW r \in replies, r.of # "cancel", ~r.success
               PROVE  /\ r.cid \in place_waiting'[placed'[r.cid]] /\ ~Reported(r.cid)'
                      /\ \A s \in replies : s.cid = r.cid => s = r
    BY <1>9 DEF RefusedUnheard
  <2>1. /\ r.cid \in place_waiting[placed[r.cid]] /\ ~Reported(r.cid)
        /\ \A s \in replies : s.cid = r.cid => s = r
    BY DEF BooksInv, RefusedUnheard
  <2>2. ~Reported(r.cid)'
    BY <1>2, <2>1 DEF Reported
  <2>3. placed[r.cid] # p
    BY <1>w, <2>1
  <2> QED BY <1>5, <1>13, <2>1, <2>2, <2>3
<1>15. PlacedBeforeCanceled'
  BY <1>5, <1>9, <1>13 DEF BooksInv, PlacedBeforeCanceled
<1>16. CancelOutstanding'
  <2> SUFFICES ASSUME NEW q \in Product, NEW a \in Cid, a \in cancel_waiting'[q]
               PROVE  outstanding'[q][a] # None
    BY DEF CancelOutstanding
  <2>1. outstanding[q][a] # None
    BY <1>5 DEF BooksInv, CancelOutstanding, Outstanding
  <2> QED BY <1>5, <2>1, NoneAssumption
<1>17. LotsLeftOver' /\ NewFirst'
  BY <1>2, <1>5 DEF BooksInv, LotsLeftOver, NewFirst
<1>18. ASSUME NEW a \in Cid, placed'[a] # None PROVE Accounted(a)'
  <2>1. CASE a \notin new
    <3>1. ASSUME NEW q \in Product, NEW x \in Cid, Tracks(q, x, a)'
          PROVE  Tracks(q, x, a) /\ outstanding'[q][x] = outstanding[q][x]
      <4>1. outstanding'[q][x] # None /\ (x = a \/ cid_to_order_no[q][x] = VenueNo[a])
        BY <1>5, <3>1 DEF Tracks
      <4>2. VenueNo[a] # None
        BY VenueAssumption, NoneAssumption
      <4>3. x \notin new
        BY <1>5, <2>1, <4>1, <4>2
      <4> QED BY <1>5, <4>1, <4>3 DEF Tracks
    <3>2. Accounted(a)
      BY <1>5, <1>18, <2>1 DEF BooksInv, OrdersAccounted
    <3>3. cid_to_product'[a] = cid_to_product[a]
      BY <1>5, <2>1
    <3> QED BY <1>2, <1>9, <1>10, <3>1, <3>2, <3>3, AccountedSent
  <2>2. CASE a \in new
    <3>0. placed[a] = None /\ lots[a] \in Nat
      BY <1>5, <2>2
    <3>1. working[VenueNo[a]] = None /\ ~Reported(a)
      BY <3>0, UnplacedUnknown
    <3>2. ~Reported(a)' /\ Len(feed') \in Nat /\ working'[VenueNo[a]] = None
      BY <1>0, <1>2, <3>1, LenProperties DEF Reported, SysTypes
    <3>3. ASSUME NEW q \in Product, NEW x \in Cid, Tracks(q, x, a)' PROVE outstanding'[q][x] = lots[a]
      <4>1. outstanding'[q][x] # None /\ x = a
        BY <1>5, <3>0, <3>3, UnplacedUntracked DEF Tracks
      <4> QED BY <1>5, <2>2, <4>1
    <3> QED BY <1>11, <2>2, <3>0, <3>2, <3>3, AccountedNew
  <2> QED BY <2>1, <2>2
<1>19. OrdersAccounted'
  BY <1>18 DEF OrdersAccounted
<1> QED BY <1>12, <1>14, <1>15, <1>16, <1>17, <1>19 DEF BooksInv

\* A reply binds, keeps or drops its order; what the feed still owes the book stays owed.
LEMMA ReplyKeepsBooks ==
  ASSUME BaseInv, SoundInv, BooksInv, EchoesCid, NoWaitOutlivesItsOrder, TakeReply
  PROVE  BooksInv'
<1>0. TypeOK /\ IndexInv /\ WaitInv /\ SysTypes /\ MessagesGenuine
  BY DEF BaseInv
<1>1. PICK r \in replies : /\ OnOrderResponse(r) /\ replies' = replies \ {r}
                           /\ UNCHANGED <<requests, feed, working>>
  BY DEF TakeReply
<1>2. r \in AnswerMsg /\ ReplyGenuine(r)
  BY <1>0, <1>1 DEF SysTypes, MessagesGenuine
<1>3. PICK c : c = r.cid
  OBVIOUS
<1>4. PICK p : p = cid_to_product[r.cid]
  OBVIOUS
<1>e. /\ c \in Cid /\ p \in Product \cup {None} /\ placed' = placed
      /\ \/ p = None /\ Untouched
         \/ /\ p \in Product /\ Only(p, c)
            /\ c \notin place_waiting'[p] /\ c \notin cancel_waiting'[p]
            /\ \/ c \in cancel_waiting[p] /\ Forgotten(p, c)
               \/ c \in cancel_waiting[p] /\ Kept(p, c)
               \/ c \notin cancel_waiting[p] /\ r.success /\ Bound(p, c, r.order_no)
               \/ /\ c \notin cancel_waiting[p] /\ ~r.success /\ c \in place_waiting[p]
                  /\ Forgotten(p, c)
               \/ c \notin cancel_waiting[p] /\ c \notin place_waiting[p] /\ Kept(p, c)
  BY <1>0, <1>1, <1>2, <1>3, <1>4, ReplyEffect DEF ReplyGenuine
<1>n. None \notin Product /\ None # 0 /\ p = cid_to_product[c]
  BY <1>3, <1>4, NoneAssumption
<1>5. \A q \in Product, a \in Cid :
        /\ a \in place_waiting'[q] => a \in place_waiting[q]
        /\ a \in cancel_waiting'[q] => a \in cancel_waiting[q]
        /\ outstanding'[q][a] \in {outstanding[q][a], None}
  BY <1>e DEF Untouched, Only, Forgotten, Kept, Bound
<1>6. \A q \in Product, a \in Cid : a # c =>
        /\ outstanding'[q][a] = outstanding[q][a] /\ cid_to_product'[a] = cid_to_product[a]
        /\ a \in place_waiting'[q] <=> a \in place_waiting[q]
        /\ cid_to_order_no'[q][a] = cid_to_order_no[q][a]
  BY <1>e DEF Untouched, Only
<1>7. \A q \in Product : c \notin place_waiting'[q]
  <2> SUFFICES ASSUME NEW q \in Product, c \in place_waiting'[q] PROVE FALSE
    OBVIOUS
  <2>1. c \in place_waiting[q]
    BY <1>5, <1>e
  <2>2. p = q
    BY <1>n, <2>1 DEF NoWaitOutlivesItsOrder, Waiting
  <2> QED BY <1>e, <1>n, <2>2
<1>8. PlaceAnswered'
  <2> SUFFICES ASSUME NEW q \in Product, NEW a \in Cid, a \in place_waiting'[q], ~OnWire(a)'
               PROVE  \E s \in replies' : s.cid = a /\ s.of # "cancel"
    BY DEF PlaceAnswered
  <2>1. a \in place_waiting[q] /\ a # c
    BY <1>5, <1>7
  <2>2. ~OnWire(a)
    BY <1>1 DEF OnWire
  <2>3. PICK s \in replies : s.cid = a /\ s.of # "cancel"
    BY <2>1, <2>2 DEF BooksInv, PlaceAnswered
  <2>4. s \in replies'
    BY <1>1, <1>3, <2>1, <2>3
  <2> QED BY <2>3, <2>4
<1>9. \* a refused place
      ASSUME NEW s \in replies, s.of # "cancel", ~s.success
      PROVE  /\ s.cid \in Cid /\ placed[s.cid] \in Product
             /\ s.cid \in place_waiting[placed[s.cid]] /\ ~Reported(s.cid)
             /\ \A u \in replies : u.cid = s.cid => u = s
  <2>1. s.cid \in Cid /\ placed[s.cid] # None
    BY <1>0, <1>9 DEF SysTypes, AnswerMsg, MessagesGenuine, ReplyGenuine
  <2> QED BY <1>0, <1>9, <2>1 DEF BooksInv, RefusedUnheard, TypeOK
<1>10. RefusedUnheard'
  <2> SUFFICES ASSUME NEW s \in replies', s.of # "cancel", ~s.success
               PROVE  /\ s.cid \in place_waiting'[placed[s.cid]] /\ ~Reported(s.cid)'
                      /\ \A u \in replies' : u.cid = s.cid => u = s
    BY <1>e DEF RefusedUnheard
  <2>1. s \in replies /\ s # r
    BY <1>1
  <2>2. /\ s.cid \in Cid /\ placed[s.cid] \in Product
        /\ s.cid \in place_waiting[placed[s.cid]] /\ ~Reported(s.cid)
        /\ \A u \in replies : u.cid = s.cid => u = s
    BY <1>9, <2>1
  <2>3. s.cid # c
    BY <1>1, <1>3, <2>1, <2>2
  <2>4. ~Reported(s.cid)'
    BY <1>1, <2>2 DEF Reported
  <2> QED BY <1>1, <1>6, <2>2, <2>3, <2>4
<1>11. PlacedBeforeCanceled'
  <2> SUFFICES ASSUME NEW s \in replies', NEW q \in Product, s.of = "cancel", s.cid \in place_waiting'[q]
               PROVE  FALSE
    BY DEF PlacedBeforeCanceled
  <2>1. s \in replies /\ s.cid \in Cid
    BY <1>0, <1>1 DEF SysTypes, AnswerMsg
  <2> QED BY <1>5, <2>1 DEF BooksInv, PlacedBeforeCanceled
<1>12. CancelOutstanding'
  <2> SUFFICES ASSUME NEW q \in Product, NEW a \in Cid, a \in cancel_waiting'[q]
               PROVE  outstanding'[q][a] # None
    BY DEF CancelOutstanding
  <2>1. a \in cancel_waiting[q] /\ outstanding[q][a] # None
    BY <1>5 DEF BooksInv, CancelOutstanding
  <2> QED BY <1>e, <2>1 DEF Untouched, Only
<1>13. LotsLeftOver' /\ NewFirst'
  BY <1>1, <1>5, <1>n DEF BooksInv, LotsLeftOver, NewFirst
<1>14. ASSUME NEW d \in Cid, placed[d] # None PROVE Accounted(d)'
  <2>0. VenueNo[d] \in OrderNo /\ VenueNo[d] # None
    BY VenueAssumption, NoneAssumption
  <2>1. ASSUME NEW q \in Product, NEW x \in Cid, Tracks(q, x, d)'
        PROVE  Tracks(q, x, d) /\ outstanding'[q][x] = outstanding[q][x]
    <3>1. outstanding'[q][x] # None /\ (x = d \/ cid_to_order_no'[q][x] = VenueNo[d])
      BY <2>1 DEF Tracks
    <3>2. outstanding'[q][x] = outstanding[q][x]
      BY <1>5, <3>1
    <3>3. CASE x = d
      BY <3>1, <3>2, <3>3 DEF Tracks
    <3>4. CASE x # d /\ cid_to_order_no'[q][x] = cid_to_order_no[q][x]
      BY <3>1, <3>2, <3>4 DEF Tracks
    <3>5. CASE x # d /\ cid_to_order_no'[q][x] # cid_to_order_no[q][x]
      <4>1. x = c /\ q = p /\ p \in Product
        BY <1>e, <3>5 DEF Untouched, Only
      <4>2. r.success /\ cid_to_order_no'[p][c] = r.order_no
        BY <1>e, <2>0, <3>1, <3>5, <4>1 DEF Untouched, Forgotten, Kept, Bound
      <4>3. Bears(c, r.order_no)
        BY <1>2, <1>3, <4>2 DEF ReplyGenuine
      <4>4. placed[c] # None
        BY <1>n, <3>5, <4>1, <4>2, <4>3 DEF Bears
      <4>5. VenueNo[c] = VenueNo[d]
        BY <3>1, <3>5, <4>1, <4>2, <4>3, <4>4 DEF Bears
      <4> QED BY <1>e, <3>5, <4>1, <4>5, VenueAssumption
    <3> QED BY <3>3, <3>4, <3>5
  <2>2. Due(d)' => Due(d)
    <3> SUFFICES ASSUME Due(d)' PROVE Due(d)
      OBVIOUS
    <3>1. /\ ~OnWire(d)' /\ ~Refused(d)'
          /\ \/ \E q \in Product, x \in Cid : Tracks(q, x, d)'
             \/ cid_to_product'[d] = None /\ Announces(feed', d)
      BY DEF Due
    <3>2. ~OnWire(d)
      BY <1>1, <3>1 DEF OnWire
    <3>3. ~Refused(d)
      <4> SUFFICES ASSUME Refused(d) PROVE FALSE
        OBVIOUS
      <4>1. d = c /\ r.of # "cancel" /\ ~r.success
        BY <1>1, <1>3, <3>1 DEF Refused
      <4>2. /\ placed[c] \in Product /\ c \in place_waiting[placed[c]] /\ ~Reported(c)
        BY <1>1, <1>3, <1>9, <4>1
      <4>3. p = placed[c] /\ p \in Product
        BY <1>n, <4>2 DEF NoWaitOutlivesItsOrder, Waiting
      <4>4. c \notin cancel_waiting[p]
        BY <1>0, <1>e, <4>2, <4>3 DEF WaitInv, CancelWaitIsForKnownOrder
      <4>5. Forgotten(p, c)
        BY <1>e, <1>n, <4>1, <4>2, <4>3, <4>4
      <4>6. ~Announces(feed', d)
        BY <1>1, <4>1, <4>2 DEF Announces, About, Reported
      <4>7. PICK q \in Product, x \in Cid : Tracks(q, x, d)'
        BY <3>1, <4>6
      <4>8. Tracks(q, x, d) /\ outstanding'[q][x] # None
        BY <2>1, <4>7 DEF Tracks
      <4>9. x # c
        <5> SUFFICES ASSUME x = c PROVE FALSE
          OBVIOUS
        <5>1. outstanding[q][c] # None
          BY <4>8 DEF Tracks
        <5>2. q = p
          BY <1>e, <1>n, <5>1, OutstandingKnown
        <5> QED BY <4>5, <4>8, <5>2 DEF Forgotten
      <4>10. cid_to_order_no[q][x] = VenueNo[c]
        BY <4>1, <4>8, <4>9 DEF Tracks
      <4>11. cid_to_product[c] = None
        BY <1>0, <1>e, <4>9, <4>10 DEF IndexInv, OneCidPerNumber
      <4> QED BY <1>n, <4>3, <4>11
    <3>4. CASE \E q \in Product, x \in Cid : Tracks(q, x, d)'
      BY <2>1, <3>2, <3>3, <3>4 DEF Due
    <3>5. CASE cid_to_product'[d] = None /\ Announces(feed', d)
      <4>1. Announces(feed, d)
        BY <1>1, <3>5
      <4>2. CASE cid_to_product[d] = None
        BY <3>2, <3>3, <4>1, <4>2 DEF Due
      <4>3. CASE cid_to_product[d] # None
        <5>1. d = c /\ p \in Product
          BY <1>e, <1>n, <3>5, <4>3 DEF Untouched, Only
        <5>2. CASE c \in cancel_waiting[p]
          <6>1. outstanding[p][c] # None
            BY <1>e, <5>1, <5>2 DEF BooksInv, CancelOutstanding
          <6>2. Tracks(p, c, d)
            BY <5>1, <6>1 DEF Tracks
          <6> QED BY <1>e, <3>2, <3>3, <5>1, <6>2 DEF Due
        <5>3. CASE c \notin cancel_waiting[p]
          <6>1. ~r.success /\ c \in place_waiting[p]
            BY <1>e, <1>n, <3>5, <4>3, <5>1, <5>3 DEF Bound, Kept
          <6>2. r.of # "cancel"
            BY <1>1, <1>3, <5>1, <6>1 DEF BooksInv, PlacedBeforeCanceled
          <6> QED BY <1>1, <1>3, <3>3, <5>1, <6>1, <6>2 DEF Refused
        <5> QED BY <5>2, <5>3
      <4> QED BY <4>2, <4>3
    <3> QED BY <3>1, <3>4, <3>5
  <2>3. Accounted(d)
    BY <1>14 DEF BooksInv, OrdersAccounted
  <2> QED BY <1>1, <2>1, <2>2, <2>3, AccountedStays
<1>15. OrdersAccounted'
  BY <1>e, <1>14 DEF OrdersAccounted
<1> QED BY <1>8, <1>10, <1>11, <1>12, <1>13, <1>15 DEF BooksInv

\* A report is taken: the rest of the feed still announces an order before anything else.
LEMMA NewFirstTail ==
  ASSUME BaseInv, NewFirst, feed # <<>>, feed' = Tail(feed)
  PROVE  NewFirst'
<1>1. /\ Len(feed) \in Nat
      /\ \A i \in 1..Len(feed') : i + 1 \in 1..Len(feed) /\ feed'[i] = feed[i + 1]
  BY FeedTail DEF BaseInv
<1> SUFFICES ASSUME NEW i \in 1..Len(feed'), feed'[i].kind = "new", NEW j \in 1..(i - 1)
             PROVE  feed'[j].order_no # feed'[i].order_no
  BY DEF NewFirst
<1>2. j \in 1..Len(feed') /\ i + 1 \in 1..Len(feed) /\ j + 1 \in 1..((i + 1) - 1)
  BY <1>1
<1>3. feed'[i] = feed[i + 1] /\ feed'[j] = feed[j + 1]
  BY <1>1, <1>2
<1> QED BY <1>2, <1>3 DEF NewFirst

\* A report that only moves the position.
LEMMA PositionKeepsBooks ==
  ASSUME BaseInv, BaseInv', BooksInv, feed # <<>>, feed' = Tail(feed), feed[1].kind = "position",
         UNCHANGED <<placed, outstanding, cid_to_order_no, cid_to_product, place_waiting,
                     cancel_waiting, requests, replies, working>>
  PROVE  BooksInv'
<1>1. /\ Len(feed) \in Nat
      /\ \A i \in 1..Len(feed') : i + 1 \in 1..Len(feed) /\ feed'[i] = feed[i + 1]
  BY FeedTail DEF BaseInv
<1>2. PlaceAnswered' /\ PlacedBeforeCanceled' /\ CancelOutstanding' /\ LotsLeftOver'
  BY DEF BooksInv, PlaceAnswered, OnWire, PlacedBeforeCanceled, CancelOutstanding, LotsLeftOver
<1>3. NewFirst'
  BY NewFirstTail DEF BooksInv
<1>4. RefusedUnheard'
  <2> SUFFICES ASSUME NEW r \in replies, r.of # "cancel", ~r.success
               PROVE  /\ r.cid \in place_waiting[placed[r.cid]] /\ ~Reported(r.cid)'
                      /\ \A s \in replies : s.cid = r.cid => s = r
    BY DEF RefusedUnheard
  <2>1. /\ r.cid \in place_waiting[placed[r.cid]] /\ ~Reported(r.cid)
        /\ \A s \in replies : s.cid = r.cid => s = r
    BY DEF BooksInv, RefusedUnheard
  <2>2. ~Reported(r.cid)'
    BY <1>1, <2>1 DEF Reported
  <2> QED BY <2>1, <2>2
<1>5. ASSUME NEW c \in Cid, placed[c] # None PROVE Accounted(c)'
  <2>1. FillLots(feed[1], c) = 0 /\ ~About(feed[1], "canceled", c)
    BY DEF FillLots, About
  <2>2. ASSUME NEW p \in Product, NEW x \in Cid, Tracks(p, x, c)'
        PROVE  Tracks(p, x, c) /\ outstanding'[p][x] + FillLots(feed[1], c) = outstanding[p][x]
    <3>1. Tracks(p, x, c)
      BY <2>2 DEF Tracks
    <3>2. outstanding[p][x] \in Nat
      BY <3>1 DEF Tracks, BaseInv, TypeOK
    <3> QED BY <2>1, <3>1, <3>2
  <2>3. Due(c)' => Due(c)
    <3>1. Announces(feed', c) => Announces(feed, c)
      BY <1>1 DEF Announces
    <3>2. (OnWire(c) => OnWire(c)') /\ (Refused(c) => Refused(c)')
      BY DEF OnWire, Refused
    <3> QED BY <2>2, <3>1, <3>2 DEF Due
  <2>4. Accounted(c) /\ TypeOK'
    BY <1>5 DEF BooksInv, OrdersAccounted, BaseInv
  <2> QED BY <2>1, <2>2, <2>3, <2>4, AccountedTail
<1>6. OrdersAccounted'
  BY <1>5 DEF OrdersAccounted
<1> QED BY <1>2, <1>3, <1>4, <1>6 DEF BooksInv

\* on_execution does to the book what the report says was done to the order.
LEMMA FeedKeepsBooks ==
  ASSUME BaseInv, BaseInv', BooksInv, EchoesCid, TakeFeed
  PROVE  BooksInv'
<1>0. TypeOK /\ TypeOK' /\ IndexInv /\ WaitInv /\ SysTypes /\ MessagesGenuine
  BY DEF BaseInv
<1>1. /\ feed # <<>> /\ feed' = Tail(feed) /\ UNCHANGED <<requests, replies, working>>
  BY DEF TakeFeed
<1>2. PICK m : m = feed[1]
  OBVIOUS
<1>3. /\ m \in FeedMsg /\ ReportGenuine(m) /\ m = Head(feed) /\ 1 \in 1..Len(feed)
      /\ Len(feed) \in Nat
      /\ \A i \in 1..Len(feed') : i + 1 \in 1..Len(feed) /\ feed'[i] = feed[i + 1]
  BY <1>0, <1>1, <1>2, FeedTail DEF MessagesGenuine
<1>4. IF m.kind = "position" THEN OnPosition(m.product, m.qty) ELSE OnExecution(m)
  BY <1>3 DEF TakeFeed
<1>5. CASE m.kind = "position"
  <2>1. UNCHANGED <<placed, outstanding, cid_to_order_no, cid_to_product, place_waiting, cancel_waiting>>
    BY <1>4, <1>5 DEF OnPosition, orderVars, waitVars
  <2> QED BY <1>1, <1>2, <1>5, <2>1, PositionKeepsBooks
<1>6. CASE m.kind # "position"
  <2>1. OnExecution(m)
    BY <1>4, <1>6
  <2>2. PICK c \in Cid : OnOrder(m, c)
    BY <1>3, <1>6 DEF ReportGenuine
  <2>3. /\ m.order_no = VenueNo[c] /\ m.qty \in Nat /\ placed[c] # None
        /\ m.kind = "new" => m.qty > 0
    BY <1>3, <1>6, <2>2, NoneAssumption DEF OnOrder, ReportGenuine, FeedMsg
  <2>4. PICK t : t = TargetCid(m)
    OBVIOUS
  <2>5. PICK p : p = TargetProduct(m)
    OBVIOUS
  <2>n. VenueNo[c] \in OrderNo /\ VenueNo[c] # None /\ None \notin Cid /\ None \notin Nat
    BY VenueAssumption, NoneAssumption DEF Cid
  <2>6. /\ p \in Product /\ t \in Cid \cup {None} /\ UNCHANGED placed
        /\ t # None => cid_to_order_no[p][t] = VenueNo[c] \/ t = c
        /\ \/ /\ t # None /\ m.kind = "canceled" /\ Only(p, t) /\ Forgotten(p, t)
              /\ t \notin cancel_waiting'[p] /\ (t \in place_waiting'[p] <=> t \in place_waiting[p])
           \/ /\ t # None /\ m.kind = "new" /\ Only(p, t) /\ Bound(p, t, VenueNo[c])
              /\ t \notin place_waiting'[p] /\ (t \in cancel_waiting'[p] <=> t \in cancel_waiting[p])
           \/ t = None /\ m.kind = "new" /\ Adopted(p, VenueNo[c], m.qty)
           \/ /\ t # None /\ m.kind = "fill" /\ Only(p, t) /\ Forgotten(p, t)
              /\ t \notin cancel_waiting'[p] /\ t \notin place_waiting'[p]
           \/ /\ t # None /\ m.kind = "fill"
              /\ outstanding[p][t] \in Nat /\ outstanding[p][t] > m.qty
              /\ \A q \in Product, a \in Cid : outstanding'[q][a] =
                   IF q = p /\ a = t THEN outstanding[p][t] - m.qty ELSE outstanding[q][a]
              /\ UNCHANGED <<cid_to_order_no, cid_to_product, place_waiting, cancel_waiting>>
           \/ t = None /\ m.kind \in {"fill", "canceled"} /\ Untouched
    BY <1>0, <1>3, <1>6, <2>1, <2>3, <2>4, <2>5, ReportEffect
  <2>7. \A q \in Product, a \in Cid :
          /\ a \in place_waiting'[q] => a \in place_waiting[q]
          /\ a \in cancel_waiting'[q] => a \in cancel_waiting[q]
    BY <2>6 DEF Untouched, Only, Adopted
  <2>8. \* another order of ours
        ASSUME NEW a \in Cid, placed[a] # None
        PROVE  /\ a = t => a = c
               /\ a # last_cid + 1
               /\ a # t => /\ cid_to_product'[a] = cid_to_product[a]
                           /\ \A q \in Product : a \in place_waiting'[q] <=> a \in place_waiting[q]
    <3>1. a = t => a = c
      BY <2>6, <2>8, <2>n, OwnTarget
    <3>2. a # last_cid + 1
      <4>1. a \in Int /\ last_cid \in Int
        BY <1>0, BoundsAssumption DEF TypeOK, Cid
      <4> QED BY <1>0, <2>8, <4>1 DEF IndexInv, Fresh
    <3> QED BY <2>6, <3>1, <3>2 DEF Untouched, Only, Adopted
  <2>9. PlaceAnswered'
    BY <1>1, <2>7 DEF BooksInv, PlaceAnswered, OnWire
  <2>10. RefusedUnheard'
    <3> SUFFICES ASSUME NEW r \in replies, r.of # "cancel", ~r.success
                 PROVE  /\ r.cid \in place_waiting'[placed[r.cid]] /\ ~Reported(r.cid)'
                        /\ \A s \in replies : s.cid = r.cid => s = r
      BY <1>1, <2>6 DEF RefusedUnheard
    <3>1. /\ r.cid \in place_waiting[placed[r.cid]] /\ ~Reported(r.cid)
          /\ \A s \in replies : s.cid = r.cid => s = r
      BY DEF BooksInv, RefusedUnheard
    <3>2. r.cid \in Cid /\ placed[r.cid] # None /\ placed[r.cid] \in Product
      BY <1>0 DEF SysTypes, AnswerMsg, MessagesGenuine, ReplyGenuine, TypeOK
    <3>3. ~Reported(r.cid)'
      BY <1>3, <3>1 DEF Reported
    <3>4. r.cid # c
      BY <1>2, <1>3, <2>3, <3>1 DEF Reported
    <3> QED BY <2>8, <3>1, <3>2, <3>3, <3>4
  <2>11. PlacedBeforeCanceled'
    <3> SUFFICES ASSUME NEW r \in replies, NEW q \in Product, r.of = "cancel", r.cid \in place_waiting'[q]
                 PROVE  FALSE
      BY <1>1 DEF PlacedBeforeCanceled
    <3>1. r.cid \in Cid
      BY <1>0 DEF SysTypes, AnswerMsg
    <3> QED BY <2>7, <3>1 DEF BooksInv, PlacedBeforeCanceled
  <2>12. CancelOutstanding'
    <3> SUFFICES ASSUME NEW q \in Product, NEW a \in Cid, a \in cancel_waiting'[q]
                 PROVE  outstanding'[q][a] # None
      BY DEF CancelOutstanding
    <3>1. a \in cancel_waiting[q] /\ outstanding[q][a] # None
      BY <2>7 DEF BooksInv, CancelOutstanding
    <3>2. CASE t # None /\ Only(p, t) /\ (q # p \/ a # t)
      BY <3>1, <3>2 DEF Only
    <3>3. CASE t # None /\ q = p /\ a = t /\ Only(p, t)
      <4>1. CASE outstanding'[p][t] = outstanding[p][t]
        BY <3>1, <3>3, <4>1
      <4>2. CASE outstanding[p][t] \in Nat /\ outstanding[p][t] > m.qty /\ outstanding'[p][t] = outstanding[p][t] - m.qty
        <5>1. outstanding'[p][t] \in Nat
          BY <2>3, <4>2
        <5> QED BY <2>n, <3>3, <5>1
      <4> QED BY <2>6, <3>3, <4>1, <4>2 DEF Bound
    <3>4. CASE t = None
      BY <2>3, <2>6, <2>n, <3>1, <3>4 DEF Untouched, Adopted
    <3>5. CASE t # None /\ ~Only(p, t)
      <4>1. /\ outstanding[p][t] \in Nat /\ outstanding[p][t] > m.qty
            /\ outstanding'[q][a] = IF q = p /\ a = t THEN outstanding[p][t] - m.qty ELSE outstanding[q][a]
        BY <2>6, <3>5
      <4>2. outstanding[p][t] - m.qty \in Nat
        BY <2>3, <4>1
      <4> QED BY <2>n, <3>1, <4>1, <4>2
    <3> QED BY <3>2, <3>3, <3>4, <3>5
  <2>13. LotsLeftOver'
    <3> SUFFICES ASSUME NEW q \in Product, NEW a \in Cid PROVE outstanding'[q][a] # 0
      BY DEF LotsLeftOver
    <3>1. outstanding[q][a] # 0
      BY DEF BooksInv, LotsLeftOver
    <3>2. CASE t # None /\ Only(p, t) /\ (q # p \/ a # t)
      BY <3>1, <3>2 DEF Only
    <3>3. CASE t # None /\ q = p /\ a = t /\ Only(p, t)
      <4>1. CASE outstanding'[p][t] = None
        BY <2>n, <3>3, <4>1
      <4>2. CASE outstanding'[p][t] = outstanding[p][t]
        BY <3>1, <3>3, <4>2
      <4>3. CASE outstanding[p][t] \in Nat /\ outstanding[p][t] > m.qty /\ outstanding'[p][t] = outstanding[p][t] - m.qty
        BY <2>3, <3>3, <4>3
      <4> QED BY <2>6, <3>3, <4>1, <4>2, <4>3 DEF Forgotten, Bound
    <3>4. CASE t = None
      BY <2>3, <2>6, <2>n, <3>1, <3>4 DEF Untouched, Adopted
    <3>5. CASE t # None /\ ~Only(p, t)
      <4>1. /\ outstanding[p][t] \in Nat /\ outstanding[p][t] > m.qty
            /\ outstanding'[q][a] = IF q = p /\ a = t THEN outstanding[p][t] - m.qty ELSE outstanding[q][a]
        BY <2>6, <3>5
      <4>2. outstanding[p][t] - m.qty # 0
        BY <2>3, <4>1
      <4> QED BY <3>1, <4>1, <4>2
    <3> QED BY <3>2, <3>3, <3>4, <3>5
  <2>14. NewFirst'
    BY <1>1, NewFirstTail DEF BooksInv
  <2>15. \* the report that c is new is not still to come
         ~Announces(feed', c)
    <3> SUFFICES ASSUME NEW i \in 1..Len(feed'), feed'[i].kind = "new", feed'[i].order_no = VenueNo[c]
                 PROVE  FALSE
      BY DEF Announces, About
    <3>1. i + 1 \in 1..Len(feed) /\ feed'[i] = feed[i + 1] /\ 1 \in 1..((i + 1) - 1)
      BY <1>3
    <3>2. feed[1].order_no # feed[i + 1].order_no
      BY <3>1 DEF BooksInv, NewFirst
    <3> QED BY <1>2, <2>3, <3>1, <3>2
  <2>16. ASSUME NEW d \in Cid, placed[d] # None PROVE Accounted(d)'
    <3>0. (OnWire(d) => OnWire(d)') /\ (Refused(d) => Refused(d)')
      BY <1>1 DEF OnWire, Refused
    <3>a. Accounted(d)
      BY <2>16 DEF BooksInv, OrdersAccounted
    <3>1. CASE d # c
      <4>1. VenueNo[d] # VenueNo[c] /\ d # t
        BY <2>8, <2>16, <3>1, VenueAssumption
      <4>2. FillLots(m, d) = 0 /\ ~About(m, "canceled", d)
        BY <2>3, <4>1 DEF FillLots, About
      <4>3. ASSUME NEW q \in Product, NEW x \in Cid, Tracks(q, x, d)'
            PROVE  Tracks(q, x, d) /\ outstanding'[q][x] + FillLots(m, d) = outstanding[q][x]
        <5>1. outstanding'[q][x] # None /\ (x = d \/ cid_to_order_no'[q][x] = VenueNo[d])
          BY <4>3 DEF Tracks
        <5>2. ~(t # None /\ q = p /\ x = t)
          <6> SUFFICES ASSUME t # None, q = p, x = t PROVE FALSE
            OBVIOUS
          <6>1. cid_to_order_no'[p][t] = VenueNo[d]
            BY <4>1, <5>1
          <6>2. cid_to_order_no[p][t] = VenueNo[d]
            BY <2>6, <2>n, <4>1, <5>1, <6>1 DEF Forgotten, Bound
          <6>3. t = c
            BY <2>6, <4>1, <6>2
          <6>4. VenueNo[d] # None
            BY VenueAssumption, NoneAssumption
          <6> QED BY <1>0, <2>3, <2>6, <4>1, <6>2, <6>3, <6>4 DEF IndexInv, OwnNumber
        <5>3. ~(t = None /\ m.kind = "new" /\ q = p /\ x = last_cid + 1)
          BY <2>6, <2>8, <2>16, <4>1, <5>1 DEF Adopted
        <5>4. /\ outstanding'[q][x] = outstanding[q][x]
              /\ cid_to_order_no'[q][x] = cid_to_order_no[q][x]
          BY <2>6, <5>2, <5>3 DEF Untouched, Only, Adopted
        <5>5. outstanding[q][x] \in Nat
          BY <1>0, <5>1, <5>4 DEF TypeOK
        <5> QED BY <4>2, <5>1, <5>4, <5>5 DEF Tracks
      <4>4. Due(d)' => Due(d)
        <5>1. Announces(feed', d) => Announces(feed, d)
          BY <1>3 DEF Announces
        <5>2. cid_to_product'[d] = cid_to_product[d]
          BY <2>8, <2>16, <4>1
        <5> QED BY <3>0, <4>3, <5>1, <5>2 DEF Due
      <4> QED BY <1>0, <1>1, <1>2, <3>a, <4>2, <4>3, <4>4, AccountedTail
    <3>2. CASE d = c
      <4>1. /\ \A q \in Product, x \in Cid : Tracks(q, x, c) => q = p /\ x = t
            /\ t = None => cid_to_product[c] = None
        BY <1>3, <2>2, <2>4, <2>5, TrackerIsTarget
      <4>2. ASSUME NEW q \in Product, NEW x \in Cid, Tracks(q, x, c)'
            PROVE  /\ \/ Tracks(q, x, c) /\ outstanding'[q][x] + FillLots(m, c) = outstanding[q][x]
                      \/ About(m, "new", c) /\ outstanding'[q][x] = m.qty /\ t = None
                   /\ m.kind # "canceled"
        <5>1. outstanding'[q][x] # None /\ (x = c \/ cid_to_order_no'[q][x] = VenueNo[c])
          BY <4>2 DEF Tracks
        <5>2. CASE t = None
          <6>1. CASE m.kind = "new" /\ q = p /\ x = last_cid + 1
            BY <2>3, <2>6, <5>2, <6>1 DEF Adopted, About
          <6>2. CASE ~(m.kind = "new" /\ q = p /\ x = last_cid + 1)
            <7>1. /\ outstanding'[q][x] = outstanding[q][x]
                  /\ cid_to_order_no'[q][x] = cid_to_order_no[q][x]
              BY <2>6, <5>2, <6>2 DEF Untouched, Adopted
            <7>2. Tracks(q, x, c)
              BY <5>1, <7>1 DEF Tracks
            <7> QED BY <2>n, <4>1, <5>2, <7>2
          <6> QED BY <6>1, <6>2
        <5>3. CASE t # None
          <6>1. q = p /\ x = t
            <7> SUFFICES ASSUME ~(q = p /\ x = t) PROVE FALSE
              OBVIOUS
            <7>1. /\ outstanding'[q][x] = outstanding[q][x]
                  /\ cid_to_order_no'[q][x] = cid_to_order_no[q][x]
              BY <2>6, <5>3 DEF Only
            <7> QED BY <4>1, <5>1, <7>1 DEF Tracks
          <6>2. outstanding'[p][t] # None
            BY <5>1, <6>1
          <6>3. CASE m.kind = "new"
            <7>1. outstanding'[p][t] = outstanding[p][t]
              BY <2>6, <5>3, <6>3 DEF Bound
            <7>2. outstanding[p][t] \in Nat
              BY <1>0, <2>6, <5>3, <6>2, <7>1 DEF TypeOK
            <7>3. FillLots(m, c) = 0
              BY <6>3 DEF FillLots, About
            <7>4. Tracks(p, t, c)
              BY <2>6, <5>3, <6>2, <7>1 DEF Tracks
            <7> QED BY <6>1, <6>3, <7>1, <7>2, <7>3, <7>4
          <6>4. CASE m.kind # "new"
            <7>1. /\ m.kind = "fill" /\ outstanding[p][t] \in Nat
                  /\ outstanding'[p][t] = outstanding[p][t] - m.qty
              BY <2>6, <5>3, <6>2, <6>4 DEF Forgotten
            <7>2. FillLots(m, c) = m.qty
              BY <2>3, <7>1 DEF FillLots, About
            <7>3. Tracks(p, t, c)
              BY <2>6, <2>n, <5>3, <7>1 DEF Tracks
            <7>4. (outstanding[p][t] - m.qty) + m.qty = outstanding[p][t]
              BY <2>3, <7>1
            <7> QED BY <6>1, <7>1, <7>2, <7>3, <7>4
          <6> QED BY <6>3, <6>4
        <5> QED BY <5>2, <5>3
      <4>3. Due(c)' => Due(c) /\ ~About(m, "canceled", c)
        <5> SUFFICES ASSUME Due(c)' PROVE Due(c) /\ ~About(m, "canceled", c)
          OBVIOUS
        <5>1. PICK q \in Product, x \in Cid : Tracks(q, x, c)'
          BY <2>15 DEF Due
        <5>2. ~OnWire(c) /\ ~Refused(c)
          BY <3>0, <3>2 DEF Due
        <5>3. CASE Tracks(q, x, c)
          BY <4>2, <5>1, <5>2, <5>3 DEF Due, About
        <5>4. CASE ~Tracks(q, x, c)
          <6>1. About(m, "new", c) /\ t = None
            BY <4>2, <5>1, <5>4
          <6>2. Announces(feed, c)
            BY <1>2, <1>3, <6>1 DEF Announces
          <6> QED BY <4>1, <5>2, <6>1, <6>2 DEF Due, About
        <5> QED BY <5>3, <5>4
      <4>4. Accounted(c)
        BY <3>2, <3>a
      <4>5. Accounted(c)'
        BY <1>0, <1>1, <1>2, <4>2, <4>3, <4>4, AccountedTail
      <4> QED BY <3>2, <4>5
    <3> QED BY <3>1, <3>2
  <2>17. OrdersAccounted'
    BY <2>6, <2>16 DEF OrdersAccounted
  <2> QED BY <2>9, <2>10, <2>11, <2>12, <2>13, <2>14, <2>17 DEF BooksInv
<1> QED BY <1>5, <1>6

\* The venue fills some of an order or ends it, and says so.
LEMMA EasedKeepsBooks ==
  ASSUME BaseInv, SoundInv, BooksInv, NEW o, NEW n, Eased(o, n),
         UNCHANGED <<vars, world, session, requests, replies>>
  PROVE  BooksInv'
<1>0. TypeOK /\ SysTypes /\ MessagesGenuine
  BY DEF BaseInv
<1>1. UNCHANGED <<placed, outstanding, cid_to_order_no, cid_to_product, place_waiting, cancel_waiting>>
  BY DEF vars, orderVars, waitVars
<1>2. /\ o \in OrderNo /\ working[o] # None /\ n \in Nat /\ n <= working[o].lots
      /\ Grown /\ Len(feed') > Len(feed) /\ Len(feed) \in Nat /\ Len(feed') \in Nat
  BY DEF Eased, Grown
<1>3. \A x \in OrderNo : working'[x] # None =>
        /\ working[x] # None
        /\ working'[x].lots = IF x = o THEN working[o].lots - n ELSE working[x].lots
  BY DEF Eased
<1>4. \A x \in OrderNo : working[x] # None /\ working'[x] = None =>
        /\ x = o
        /\ \/ working[o].lots = n
           \/ \E k \in (Len(feed) + 1)..Len(feed') : feed'[k].kind = "canceled" /\ feed'[k].order_no = o
  BY DEF Eased
<1>5. \A k \in (Len(feed) + 1)..Len(feed') :
        /\ feed'[k].order_no \in {o, None} /\ feed'[k].kind # "new"
        /\ feed'[k].kind = "fill" <=> k = Len(feed) + 1 /\ n > 0
        /\ feed'[k].kind = "fill" => feed'[k].order_no = o /\ feed'[k].qty = n
  BY DEF Eased
<1>6. \A k \in 1..Len(feed') : \/ k \in 1..Len(feed) /\ feed'[k] = feed[k]
                               \/ k \in (Len(feed) + 1)..Len(feed')
  BY <1>2 DEF Grown
<1>7. PlaceAnswered' /\ PlacedBeforeCanceled' /\ CancelOutstanding' /\ LotsLeftOver'
  BY <1>1 DEF BooksInv, PlaceAnswered, OnWire, PlacedBeforeCanceled, CancelOutstanding, LotsLeftOver
<1>8. RefusedUnheard'
  <2> SUFFICES ASSUME NEW r \in replies, r.of # "cancel", ~r.success
               PROVE  /\ r.cid \in place_waiting[placed[r.cid]] /\ ~Reported(r.cid)'
                      /\ \A s \in replies : s.cid = r.cid => s = r
    BY <1>1 DEF RefusedUnheard
  <2>1. /\ r.cid \in place_waiting[placed[r.cid]] /\ ~Reported(r.cid)
        /\ \A s \in replies : s.cid = r.cid => s = r
    BY DEF BooksInv, RefusedUnheard
  <2>2. r.cid \in Cid /\ VenueNo[r.cid] # None /\ working[VenueNo[r.cid]] = None
    BY <1>0, VenueAssumption, NoneAssumption DEF SysTypes, AnswerMsg, SoundInv, RefusalTrue
  <2>3. \A k \in (Len(feed) + 1)..Len(feed') : feed'[k].order_no # VenueNo[r.cid]
    BY <1>2, <1>5, <2>2
  <2>4. ~Reported(r.cid)'
    BY <1>6, <2>1, <2>3 DEF Reported
  <2> QED BY <2>1, <2>4
<1>9. NewFirst'
  <2> SUFFICES ASSUME NEW i \in 1..Len(feed'), feed'[i].kind = "new", NEW j \in 1..(i - 1)
               PROVE  feed'[j].order_no # feed'[i].order_no
    BY DEF NewFirst
  <2>1. i \in 1..Len(feed) /\ feed'[i] = feed[i]
    BY <1>5, <1>6
  <2>2. j \in 1..Len(feed)
    BY <1>2, <2>1
  <2>3. feed'[j] = feed[j]
    BY <1>2, <2>2 DEF Grown
  <2> QED BY <2>1, <2>3 DEF BooksInv, NewFirst
<1>10. ASSUME NEW d \in Cid, placed[d] # None PROVE Accounted(d)'
  <2>1. VenueNo[d] \in OrderNo /\ VenueNo[d] # None
    BY VenueAssumption, NoneAssumption
  <2>2. working[VenueNo[d]] # None => working[VenueNo[d]].lots \in Nat
    BY <2>1, WorkingFacts
  <2>3. PICK e : e = IF VenueNo[d] = o THEN n ELSE 0
    OBVIOUS
  <2>4. /\ e \in Nat
        /\ e = 0 \/ (working[VenueNo[d]] # None /\ working[VenueNo[d]].lots \in Nat
                     /\ e <= working[VenueNo[d]].lots /\ Len(feed') > Len(feed))
    BY <1>2, <2>2, <2>3
  <2>5. ASSUME NEW k \in (Len(feed) + 1)..Len(feed')
        PROVE  /\ FillLots(feed'[k], d) = IF k = Len(feed) + 1 THEN e ELSE 0
               /\ ~About(feed'[k], "new", d)
    <3>1. CASE feed'[k].kind = "fill"
      BY <1>5, <2>3, <3>1 DEF FillLots, About
    <3>2. CASE feed'[k].kind # "fill"
      BY <1>2, <1>5, <2>3, <3>2 DEF FillLots, About
    <3> QED BY <3>1, <3>2
  <2>6. working'[VenueNo[d]] # None =>
          working[VenueNo[d]] # None /\ working'[VenueNo[d]].lots = working[VenueNo[d]].lots - e
    <3>1. working[VenueNo[d]] # None => working[VenueNo[d]].lots - 0 = working[VenueNo[d]].lots
      BY <2>2
    <3> QED BY <1>3, <2>1, <2>3, <3>1
  <2>7. working[VenueNo[d]] # None /\ working'[VenueNo[d]] = None =>
          \/ working[VenueNo[d]].lots = e
          \/ \E k \in (Len(feed) + 1)..Len(feed') : About(feed'[k], "canceled", d)
    BY <1>4, <2>1, <2>3 DEF About
  <2>8. Due(d)' => Due(d)
    <3>1. Announces(feed', d) => Announces(feed, d)
      BY <1>6, <2>5 DEF Announces
    <3>2. (OnWire(d) => OnWire(d)') /\ (Refused(d) => Refused(d)')
      BY DEF OnWire, Refused
    <3>3. \A p \in Product, x \in Cid : Tracks(p, x, d)' => Tracks(p, x, d)
      BY <1>1 DEF Tracks
    <3> QED BY <1>1, <3>1, <3>2, <3>3 DEF Due
  <2>9. Accounted(d)
    BY <1>10 DEF BooksInv, OrdersAccounted
  <2> QED BY <1>1, <1>2, <2>4, <2>5, <2>6, <2>7, <2>8, <2>9, AccountedGrown
<1>11. OrdersAccounted'
  BY <1>1, <1>10 DEF OrdersAccounted
<1> QED BY <1>7, <1>8, <1>9, <1>11 DEF BooksInv

\* The order whose place the venue has just answered.
LEMMA AccountedTaken ==
  ASSUME BaseInv, SoundInv, Sound, EchoesCid, VenueTakes, NEW q, Taken(q), q.kind # "cancel",
         NEW c, c = q.cid
  PROVE  Accounted(c)'
<1>0. SysTypes /\ IndexInv /\ working \in [OrderNo -> Working \cup {None}]
  BY DEF BaseInv, SysTypes
<1>1. /\ UNCHANGED <<vars, world, session>>
      /\ \E u : Taken(u) /\ (Accepted(u) \/ RefusedNow(u) \/ (\E n : Crossed(u, n))
                                \/ CanceledNow(u) \/ GoneAlready(u))
  BY TakesEffect
<1>2. Accepted(q) \/ RefusedNow(q) \/ (\E n : Crossed(q, n))
  BY <1>1 DEF Taken, CanceledNow, GoneAlready
<1>3. UNCHANGED <<placed, outstanding, cid_to_order_no, cid_to_product>>
  BY <1>1 DEF vars, orderVars
<1>4. q = requests[1] /\ 1 \in 1..Len(requests)
  BY DEF Taken
<1>5. /\ c \in Cid /\ VenueNo[c] \in OrderNo /\ VenueNo[c] # None /\ q.product \in Product
      /\ q.lots \in Nat /\ placed[c] = q.product /\ None \notin Nat
  BY <1>4, RequestFacts, VenueAssumption, NoneAssumption
<1>6. /\ cid_to_product[c] = q.product /\ working[VenueNo[c]] = None /\ ~Reported(c)
      /\ outstanding[q.product][c] = IF q.kind = "place" THEN q.lots ELSE None
  BY <1>4, <1>5 DEF SoundInv, WireUnheard, Unheard
<1>7. ASSUME NEW p \in Product, NEW x \in Cid, Tracks(p, x, c)'
      PROVE  outstanding'[p][x] = q.lots /\ q.kind = "place"
  <2>1. outstanding[p][x] # None /\ (x = c \/ cid_to_order_no[p][x] = VenueNo[c])
    BY <1>3, <1>7 DEF Tracks
  <2>2. x = c
    <3> SUFFICES ASSUME x # c PROVE FALSE
      OBVIOUS
    <3>1. cid_to_product[c] = None
      BY <1>0, <1>5, <2>1 DEF IndexInv, OneCidPerNumber
    <3> QED BY <1>5, <1>6, <3>1, NoneAssumption
  <2>3. p = q.product
    BY <1>5, <1>6, <2>1, <2>2, OutstandingKnown
  <2> QED BY <1>3, <1>6, <2>1, <2>2, <2>3
<1>8. \A i \in 1..Len(feed) : feed[i].order_no # VenueNo[c]
  BY <1>6 DEF Reported
<1>9. CASE Accepted(q)
  <2>1. /\ working' = [working EXCEPT ![VenueNo[c]] = OrderOf(q)]
        /\ Grown /\ Len(feed') = Len(feed) + 1 /\ Len(feed) \in Nat /\ Len(feed') \in Nat
        /\ feed'[Len(feed) + 1].kind = "new" /\ feed'[Len(feed) + 1].qty = q.lots
    BY <1>9 DEF Accepted, ReportAt, Grown
  <2>2. ASSUME NEW i \in 1..Len(feed')
        PROVE  FillLots(feed'[i], c) = 0 /\ (About(feed'[i], "new", c) => feed'[i].qty = q.lots)
    <3>1. CASE i \in 1..Len(feed)
      <4>1. feed'[i] = feed[i]
        BY <2>1, <3>1 DEF Grown
      <4> QED BY <1>8, <3>1, <4>1 DEF FillLots, About
    <3>2. CASE i = Len(feed) + 1
      BY <2>1, <3>2 DEF FillLots, About
    <3> QED BY <2>1, <3>1, <3>2
  <2>3. working'[VenueNo[c]] = OrderOf(q) /\ OrderOf(q).lots = q.lots /\ OrderOf(q) \in Working
    BY <1>0, <1>5, <2>1 DEF OrderOf, Taken, RequestMsg, Working
  <2>4. working'[VenueNo[c]] # None
    BY <2>3, SystemAssumption
  <2> QED BY <1>5, <1>7, <2>1, <2>2, <2>3, <2>4, AccountedFlat
<1>10. CASE RefusedNow(q)
  <2>1. /\ replies' = replies \cup {Reply(q.kind, q.cid, FALSE, FALSE, None)}
        /\ working' = working /\ feed' = feed
    BY <1>10 DEF RefusedNow
  <2>2. Refused(c)'
    <3>1. PICK r : r = Reply(q.kind, q.cid, FALSE, FALSE, None)
      OBVIOUS
    <3>2. r \in replies' /\ r.cid = c /\ r.of # "cancel" /\ r.success = FALSE
      BY <2>1, <3>1 DEF Reply
    <3> QED BY <3>2 DEF Refused
  <2>3. ~Due(c)'
    BY <2>2 DEF Due
  <2>4. ASSUME NEW i \in 1..Len(feed')
        PROVE  FillLots(feed'[i], c) = 0 /\ (About(feed'[i], "new", c) => feed'[i].qty = q.lots)
    BY <1>8, <2>1 DEF FillLots, About
  <2>5. Len(feed') \in Nat
    BY <1>0, <2>1, LenProperties DEF SysTypes
  <2>6. working'[VenueNo[c]] = None
    BY <1>6, <2>1
  <2> QED BY <1>5, <1>7, <2>3, <2>4, <2>5, <2>6, AccountedFlat
<1>11. ASSUME NEW n, Crossed(q, n) PROVE Accounted(c)'
  <2>1. /\ q.kind = "market" /\ n \in Nat /\ n <= q.lots /\ working' = working
        /\ Grown /\ Len(feed) \in Nat /\ Len(feed') \in Nat
        /\ feed'[Len(feed) + 1].kind = "new" /\ feed'[Len(feed) + 1].qty = q.lots
    BY <1>11 DEF Crossed, ReportAt, Grown
  <2>2. /\ Len(feed') \in {Len(feed) + 2, (Len(feed) + 2) + 1}
        /\ feed'[Len(feed) + 2].kind = "fill" /\ feed'[Len(feed) + 2].order_no = VenueNo[c]
        /\ feed'[Len(feed) + 2].qty = n
        /\ Len(feed') = (Len(feed) + 2) + 1 => feed'[(Len(feed) + 2) + 1].kind = "position"
    BY <1>11 DEF Crossed, FillAt, ReportAt
  <2>3. PICK L : L = Len(feed) + 1
    OBVIOUS
  <2> DEFINE left == [i \in 0..Len(feed') |-> IF i <= L THEN q.lots ELSE q.lots - n]
  <2>4. /\ left \in [0..Len(feed') -> Nat]
        /\ \A i \in 0..Len(feed') : left[i] = IF i <= L THEN q.lots ELSE q.lots - n
    BY <1>5, <2>1
  <2> HIDE DEF left
  <2>5. ASSUME NEW i \in 1..Len(feed')
        PROVE  /\ left[i] + FillLots(feed'[i], c) = left[i - 1]
               /\ About(feed'[i], "new", c) => left[i] = feed'[i].qty
    <3>0. i \in 0..Len(feed') /\ i - 1 \in 0..Len(feed')
      BY <2>1
    <3>1. CASE i \in 1..Len(feed)
      <4>1. feed'[i] = feed[i]
        BY <2>1, <3>1 DEF Grown
      <4>2. FillLots(feed'[i], c) = 0 /\ ~About(feed'[i], "new", c)
        BY <1>8, <3>1, <4>1 DEF FillLots, About
      <4>3. left[i] = q.lots /\ left[i - 1] = q.lots
        BY <2>1, <2>3, <2>4, <3>0, <3>1
      <4> QED BY <1>5, <4>2, <4>3
    <3>2. CASE i = Len(feed) + 1
      <4>1. FillLots(feed'[i], c) = 0 /\ feed'[i].qty = q.lots
        BY <2>1, <3>2 DEF FillLots, About
      <4>2. left[i] = q.lots /\ left[i - 1] = q.lots
        BY <2>1, <2>3, <2>4, <3>0, <3>2
      <4> QED BY <1>5, <4>1, <4>2
    <3>3. CASE i = Len(feed) + 2
      <4>1. FillLots(feed'[i], c) = n /\ ~About(feed'[i], "new", c)
        BY <2>2, <3>3 DEF FillLots, About
      <4>2. left[i] = q.lots - n /\ left[i - 1] = q.lots
        BY <2>1, <2>3, <2>4, <3>0, <3>3
      <4> QED BY <1>5, <2>1, <4>1, <4>2
    <3>4. CASE i = (Len(feed) + 2) + 1
      <4>0. Len(feed') = (Len(feed) + 2) + 1
        BY <2>1, <2>2, <3>4
      <4>1. FillLots(feed'[i], c) = 0 /\ ~About(feed'[i], "new", c)
        BY <2>2, <3>4, <4>0 DEF FillLots, About
      <4>2. left[i] = q.lots - n /\ left[i - 1] = q.lots - n
        BY <2>1, <2>3, <2>4, <3>0, <3>4
      <4> QED BY <1>5, <2>1, <4>1, <4>2
    <3> QED BY <2>1, <2>2, <3>1, <3>2, <3>3, <3>4
  <2>6. working'[VenueNo[c]] = None
    BY <1>6, <2>1
  <2>7. Accounts(feed', working'[VenueNo[c]], c, left)
    BY <2>5, <2>6 DEF Accounts
  <2>8. \A p \in Product, x \in Cid : ~Tracks(p, x, c)'
    BY <1>7, <2>1
  <2>9. ~Due(c)'
    BY <1>3, <1>5, <1>6, <2>8, NoneAssumption DEF Due
  <2> QED BY <2>4, <2>7, <2>8, <2>9 DEF Accounted
<1> QED BY <1>2, <1>9, <1>10, <1>11

\* The venue takes a request: it says on the feed and in its answer what it has done.
LEMMA TakesKeepsBooks ==
  ASSUME BaseInv, SoundInv, Sound, BooksInv, EchoesCid, VenueTakes
  PROVE  BooksInv'
<1>0. TypeOK /\ IndexInv /\ WaitInv /\ SysTypes /\ MessagesGenuine
  BY DEF BaseInv
<1>1. PICK q : Taken(q) /\ Served(q)
  BY TakesServes
<1>2. UNCHANGED <<placed, outstanding, cid_to_order_no, cid_to_product, place_waiting, cancel_waiting>>
  BY TakesEffect DEF vars, orderVars, waitVars
<1>3. /\ q = requests[1] /\ 1 \in 1..Len(requests) /\ Len(requests) \in Nat
      /\ Len(requests') = Len(requests) - 1
      /\ \A i \in 1..Len(requests') : i + 1 \in 1..Len(requests) /\ requests'[i] = requests[i + 1]
  BY <1>1 DEF Taken
<1>4. /\ q.cid \in Cid /\ VenueNo[q.cid] \in OrderNo
      /\ q.kind # "cancel" => placed[q.cid] = q.product
  BY <1>3, RequestFacts, VenueAssumption
<1>5. q.kind # "cancel" => Unheard(q.cid)
  BY <1>3 DEF SoundInv, WireUnheard
<1>c. q.kind = "cancel" => \A p \in Product : q.cid \notin place_waiting[p]
  BY <1>3 DEF SoundInv, CancelAfterPlace
<1>w. \A o \in OrderNo : working'[o] # None =>
        \/ working[o] # None /\ working'[o] = working[o]
        \/ q.kind = "place" /\ o = VenueNo[q.cid]
  BY <1>1 DEF Served
<1>x. \A o \in OrderNo : working[o] # None /\ working'[o] = None =>
        \E k \in (Len(feed) + 1)..Len(feed') : feed'[k].kind = "canceled" /\ feed'[k].order_no = o
  BY <1>1 DEF Served
<1>g. Grown /\ Len(feed) \in Nat /\ Len(feed') \in Nat
  BY <1>1 DEF Served, Grown
<1>6. \A k \in (Len(feed) + 1)..Len(feed') :
        \/ feed'[k].kind = "position" /\ feed'[k].order_no = None
        \/ /\ q.kind # "cancel" /\ feed'[k].order_no = VenueNo[q.cid] /\ feed'[k].kind # "canceled"
           /\ feed'[k].kind = "new" => k = Len(feed) + 1
        \/ /\ feed'[k].kind = "canceled" /\ feed'[k].order_no \in OrderNo
           /\ working[feed'[k].order_no] # None
  BY <1>1 DEF Served
<1>7. \A k \in 1..Len(feed') : \/ k \in 1..Len(feed) /\ feed'[k] = feed[k]
                               \/ k \in (Len(feed) + 1)..Len(feed')
  BY <1>g DEF Grown
<1>r. PICK r : /\ replies' = replies \cup {r} /\ r.of = q.kind /\ r.cid = q.cid
               /\ ~r.success => UNCHANGED <<working, feed>>
  BY <1>1 DEF Served
<1>8. \* what else is on the wire stays there
      ASSUME NEW d \in Cid, OnWire(d), ~(q.kind # "cancel" /\ d = q.cid) PROVE OnWire(d)'
  <2>1. PICK i \in 1..Len(requests) : requests[i].kind # "cancel" /\ requests[i].cid = d
    BY <1>8 DEF OnWire
  <2>2. i # 1
    BY <1>3, <1>8, <2>1
  <2>3. i - 1 \in 1..Len(requests') /\ (i - 1) + 1 = i
    BY <1>3, <2>2
  <2>4. requests'[i - 1] = requests[i]
    BY <1>3, <2>3
  <2> QED BY <2>1, <2>3, <2>4 DEF OnWire
<1>9. PlaceAnswered'
  <2> SUFFICES ASSUME NEW p \in Product, NEW a \in Cid, a \in place_waiting[p]
               PROVE  OnWire(a)' \/ \E s \in replies' : s.cid = a /\ s.of # "cancel"
    BY <1>2 DEF PlaceAnswered
  <2>1. OnWire(a) \/ \E s \in replies : s.cid = a /\ s.of # "cancel"
    BY DEF BooksInv, PlaceAnswered
  <2>2. CASE \E s \in replies : s.cid = a /\ s.of # "cancel"
    BY <1>r, <2>2
  <2>3. CASE OnWire(a) /\ q.kind # "cancel" /\ a = q.cid
    <3>1. r \in replies' /\ r.cid = a /\ r.of # "cancel"
      BY <1>r, <2>3
    <3> QED BY <3>1
  <2>4. CASE OnWire(a) /\ ~(q.kind # "cancel" /\ a = q.cid)
    BY <1>8, <2>4
  <2> QED BY <2>1, <2>2, <2>3, <2>4
<1>10. RefusedUnheard'
  <2> SUFFICES ASSUME NEW s \in replies', s.of # "cancel", ~s.success
               PROVE  /\ s.cid \in place_waiting[placed[s.cid]] /\ ~Reported(s.cid)'
                      /\ \A u \in replies' : u.cid = s.cid => u = s
    BY <1>2 DEF RefusedUnheard
  <2>1. CASE s \in replies
    <3>1. /\ s.cid \in place_waiting[placed[s.cid]] /\ ~Reported(s.cid)
          /\ \A u \in replies : u.cid = s.cid => u = s
      BY <2>1 DEF BooksInv, RefusedUnheard
    <3>2. /\ s.cid \in Cid /\ VenueNo[s.cid] # None /\ working[VenueNo[s.cid]] = None
          /\ placed[s.cid] \in Product
      <4>1. s.cid \in Cid /\ placed[s.cid] # None
        BY <1>0, <2>1 DEF SysTypes, AnswerMsg, MessagesGenuine, ReplyGenuine
      <4> QED BY <1>0, <2>1, <4>1, VenueAssumption, NoneAssumption DEF SoundInv, RefusalTrue, TypeOK
    <3>3. s.cid # q.cid
      BY <1>5, <1>c, <2>1, <3>1, <3>2 DEF Unheard
    <3>4. VenueNo[s.cid] # VenueNo[q.cid]
      BY <1>4, <3>2, <3>3, VenueAssumption
    <3>5. \A k \in (Len(feed) + 1)..Len(feed') : feed'[k].order_no # VenueNo[s.cid]
      BY <1>6, <3>2, <3>4
    <3>6. ~Reported(s.cid)'
      BY <1>7, <3>1, <3>5 DEF Reported
    <3>7. \A u \in replies' : u.cid = s.cid => u = s
      BY <1>r, <3>1, <3>3
    <3> QED BY <3>1, <3>6, <3>7
  <2>2. CASE s \notin replies
    <3>1. s = r /\ q.kind # "cancel" /\ feed' = feed
      BY <1>r, <2>2
    <3>2. q.cid \in place_waiting[placed[q.cid]] /\ ~Reported(q.cid) /\ \A u \in replies : u.cid # q.cid
      BY <1>5, <3>1 DEF Unheard
    <3>3. ~Reported(q.cid)'
      BY <3>1, <3>2 DEF Reported
    <3>4. s.cid = q.cid
      BY <1>r, <3>1
    <3>5. ~Reported(s.cid)'
      BY <3>1, <3>2, <3>4 DEF Reported
    <3>6. \A u \in replies' : u.cid = s.cid => u = s
      BY <1>r, <3>1, <3>2, <3>4
    <3> QED BY <3>2, <3>4, <3>5, <3>6
  <2> QED BY <2>1, <2>2
<1>11. PlacedBeforeCanceled'
  BY <1>2, <1>c, <1>r DEF BooksInv, PlacedBeforeCanceled
<1>12. CancelOutstanding' /\ LotsLeftOver'
  BY <1>2 DEF BooksInv, CancelOutstanding, LotsLeftOver
<1>13. NewFirst'
  <2> SUFFICES ASSUME NEW i \in 1..Len(feed'), feed'[i].kind = "new", NEW j \in 1..(i - 1)
               PROVE  feed'[j].order_no # feed'[i].order_no
    BY DEF NewFirst
  <2>1. CASE i \in 1..Len(feed) /\ feed'[i] = feed[i]
    <3>1. j \in 1..Len(feed)
      BY <1>g, <2>1
    <3>2. feed'[j] = feed[j]
      BY <1>g, <3>1 DEF Grown
    <3> QED BY <2>1, <3>2 DEF BooksInv, NewFirst
  <2>2. CASE i \in (Len(feed) + 1)..Len(feed')
    <3>1. q.kind # "cancel" /\ feed'[i].order_no = VenueNo[q.cid] /\ i = Len(feed) + 1
      BY <1>6, <2>2
    <3>2. j \in 1..Len(feed)
      BY <1>g, <3>1
    <3>3. feed'[j] = feed[j]
      BY <1>g, <3>2 DEF Grown
    <3> QED BY <1>5, <3>1, <3>2, <3>3 DEF Unheard, Reported
  <2> QED BY <1>7, <2>1, <2>2
<1>14. ASSUME NEW d \in Cid, placed[d] # None, ~(q.kind # "cancel" /\ d = q.cid) PROVE Accounted(d)'
  <2>1. VenueNo[d] \in OrderNo /\ VenueNo[d] # None /\ (q.kind # "cancel" => VenueNo[d] # VenueNo[q.cid])
    BY <1>4, <1>14, VenueAssumption, NoneAssumption
  <2>2. working[VenueNo[d]] # None =>
          working[VenueNo[d]].lots \in Nat /\ working[VenueNo[d]].lots - 0 = working[VenueNo[d]].lots
    BY <2>1, WorkingFacts
  <2>3. ASSUME NEW k \in (Len(feed) + 1)..Len(feed')
        PROVE  /\ FillLots(feed'[k], d) = IF k = Len(feed) + 1 THEN 0 ELSE 0
               /\ ~About(feed'[k], "new", d)
    BY <1>6, <2>1, <2>3 DEF FillLots, About
  <2>4. working'[VenueNo[d]] # None =>
          working[VenueNo[d]] # None /\ working'[VenueNo[d]].lots = working[VenueNo[d]].lots - 0
    BY <1>w, <2>1, <2>2
  <2>5. working[VenueNo[d]] # None /\ working'[VenueNo[d]] = None =>
          \/ working[VenueNo[d]].lots = 0
          \/ \E k \in (Len(feed) + 1)..Len(feed') : About(feed'[k], "canceled", d)
    BY <1>x, <2>1 DEF About
  <2>6. Due(d)' => Due(d)
    <3>1. Announces(feed', d) => Announces(feed, d)
      BY <1>7, <2>3 DEF Announces
    <3>2. OnWire(d) => OnWire(d)'
      BY <1>8, <1>14
    <3>3. Refused(d) => Refused(d)'
      BY <1>r DEF Refused
    <3>4. \A p \in Product, x \in Cid : Tracks(p, x, d)' => Tracks(p, x, d)
      BY <1>2 DEF Tracks
    <3> QED BY <1>2, <3>1, <3>2, <3>3, <3>4 DEF Due
  <2>7. Accounted(d) /\ 0 \in Nat
    BY <1>14 DEF BooksInv, OrdersAccounted
  <2> QED BY <1>2, <1>g, <2>3, <2>4, <2>5, <2>6, <2>7, AccountedGrown
<1>15. q.kind # "cancel" => Accounted(q.cid)'
  <2>1. PICK c : c = q.cid
    OBVIOUS
  <2>2. q.kind # "cancel" => Accounted(c)'
    BY <1>1, <2>1, AccountedTaken
  <2> QED BY <2>1, <2>2
<1>16. OrdersAccounted'
  BY <1>2, <1>14, <1>15 DEF OrdersAccounted
<1> QED BY <1>9, <1>10, <1>11, <1>12, <1>13, <1>16 DEF BooksInv

\* Every step keeps the books accounted for, where the feed loses nothing.
LEMMA BooksNext ==
  ASSUME BaseInv, BaseInv', SoundInv, Sound, BooksInv, EchoesCid, ~world.feedGaps,
         NoWaitOutlivesItsOrder, [SysNext]_sysVars
  PROVE  BooksInv'
<1>1. CASE VenueFills
  <2>1. PICK o, n : Eased(o, n)
    BY <1>1, FillsEases
  <2> QED BY <1>1, <2>1, EasedKeepsBooks, FillsEffect
<1>2. CASE VenueExpires
  <2>1. PICK o, n : Eased(o, n)
    BY <1>2, ExpiresEases
  <2> QED BY <1>2, <2>1, EasedKeepsBooks, ExpiresEffect
<1>3. ~SessionDown /\ ~FeedGap
  BY DEF Sound, SessionDown, FeedGap
<1> QED BY <1>1, <1>2, <1>3, StepCases, IdleKeepsBooks, ReplyKeepsBooks, FeedKeepsBooks,
           DecideKeepsBooks, CancelRoundKeepsBooks, MarketKeepsBooks, TakesKeepsBooks

\* At first nothing has been placed.
LEMMA BooksInit ==
  ASSUME SysInit
  PROVE  BooksInv
<1>1. Init /\ requests = <<>> /\ replies = {} /\ feed = <<>>
  BY DEF SysInit
<1>2. Len(feed) = 0
  BY <1>1
<1>3. /\ \A p \in Product : place_waiting[p] = {} /\ cancel_waiting[p] = {}
      /\ \A p \in Product, c \in Cid : outstanding[p][c] = None
      /\ \A c \in Cid : placed[c] = None
  BY <1>1 DEF Init
<1>4. PlaceAnswered /\ RefusedUnheard /\ PlacedBeforeCanceled /\ CancelOutstanding
  BY <1>1, <1>3 DEF PlaceAnswered, RefusedUnheard, PlacedBeforeCanceled, CancelOutstanding
<1>5. LotsLeftOver /\ NewFirst /\ OrdersAccounted
  BY <1>2, <1>3, NoneAssumption DEF LotsLeftOver, NewFirst, OrdersAccounted
<1> QED BY <1>4, <1>5 DEF BooksInv

\* Every behaviour of that kind.
Reliable == Sound /\ EchoesCid /\ ~world.feedGaps

\* Where no request is late, lost or refused a cancel, and the feed echoes our ids and
\* loses nothing, the reports on the feed and the answers on their way account for all
\* that the trader's book and the venue's differ by, order by order and lot by lot.
THEOREM BooksAccounted == SysSpec => [](Reliable => BooksInv)
<1> DEFINE I == Reliable => BooksInv
<1>1. SysInit => I
  BY BooksInit
<1> DEFINE Known == BaseInv /\ (Sound => SoundInv) /\ (~world.feedGaps => NoWaitOutlivesItsOrder)
<1>2. Known /\ BaseInv' /\ I /\ [SysNext]_sysVars => I'
  <2> SUFFICES ASSUME Known, BaseInv', I, [SysNext]_sysVars, Reliable'
               PROVE  BooksInv'
    OBVIOUS
  <2>1. Reliable
    BY WorldStays DEF Reliable, Sound
  <2> QED BY <2>1, BooksNext DEF Reliable
<1> QED BY <1>1, <1>2, MessagesAreGenuine, NothingLost, NoWaitOutlives, PTL DEF SysSpec

\* With nothing in flight an order on the book works at the venue, with its lots.
LEMMA QuietTracked ==
  ASSUME BaseInv, SoundInv, BooksInv, EchoesCid, Quiet, NEW p \in Product, NEW c \in Outstanding(p)
  PROVE  LET o == cid_to_order_no[p][c]
         IN  o \in OrderNo /\ working[o] # None /\ working[o].lots = outstanding[p][c]
<1>0. /\ requests = <<>> /\ replies = {} /\ feed = <<>> /\ Len(requests) = 0 /\ Len(feed) = 0
  BY DEF Quiet
<1>1. c \in Cid /\ outstanding[p][c] # None
  BY DEF Outstanding
<1>2. \A d \in Cid : ~OnWire(d) /\ ~Refused(d)
  BY <1>0 DEF OnWire, Refused
<1>3. c \notin place_waiting[p]
  BY <1>0, <1>1, <1>2 DEF BooksInv, PlaceAnswered
<1>4. cid_to_order_no[p][c] # None
  BY <1>1, <1>3 DEF SoundInv, NumberedUnlessWaiting
<1>5. PICK d \in Cid : cid_to_order_no[p][c] = VenueNo[d]
  BY <1>1, <1>4 DEF BaseInv, OursOnly, Ours
<1>6. VenueNo[d] \in OrderNo
  BY VenueAssumption
<1>7. placed[d] = p /\ placed[d] # None
  BY <1>1, <1>5, <1>6, NoneAssumption DEF BaseInv, IndexInv, NumbersAtHome, Home
<1>8. Tracks(p, c, d)
  BY <1>1, <1>5 DEF Tracks
<1>9. Due(d)
  BY <1>1, <1>2, <1>8 DEF Due
<1>10. PICK left \in [0..Len(feed) -> Nat] :
    /\ Accounts(feed, working[VenueNo[d]], d, left)
    /\ \A q \in Product, x \in Cid : Tracks(q, x, d) => outstanding[q][x] = left[0]
    /\ Due(d) => working[VenueNo[d]] # None \/ Over(feed, d, left)
  BY <1>7 DEF BooksInv, OrdersAccounted, Accounted
<1>11. outstanding[p][c] = left[0]
  BY <1>1, <1>8, <1>10
<1>12. left[0] # 0
  BY <1>1, <1>11 DEF BooksInv, LotsLeftOver
<1>13. ~Over(feed, d, left)
  BY <1>0, <1>12 DEF Over
<1>14. working[VenueNo[d]] # None
  BY <1>9, <1>10, <1>13
<1>15. working[VenueNo[d]].lots = left[0]
  BY <1>0, <1>10, <1>14 DEF Accounts
<1> QED BY <1>5, <1>6, <1>11, <1>14, <1>15

\* There, whenever nothing is in flight, the trader's outstanding orders are the venue's
\* working ones, lot for lot: replies, NEW reports, partial fills and cancels may overtake
\* each other on the two channels in any way, for any number of orders and products.
THEOREM TheBooksAgree == SysSpec => [](Reliable => BooksAgree)
<1>1. BaseInv /\ (Sound => SoundInv) /\ (Reliable => BooksInv) => (Reliable => BooksAgree)
  <2> SUFFICES ASSUME BaseInv, SoundInv, BooksInv, EchoesCid, Quiet PROVE Tracked = AtVenue
    BY DEF Reliable, BooksAgree
  <2>1. ASSUME NEW p \in Product, NEW c \in Outstanding(p)
        PROVE  <<cid_to_order_no[p][c], outstanding[p][c]>> \in AtVenue
    <3>1. PICK o : o = cid_to_order_no[p][c]
      OBVIOUS
    <3>2. o \in OrderNo /\ working[o] # None /\ working[o].lots = outstanding[p][c]
      BY <3>1, QuietTracked
    <3> QED BY <3>1, <3>2 DEF AtVenue
  <2>2. ASSUME NEW o \in OrderNo, working[o] # None PROVE <<o, working[o].lots>> \in Tracked
    <3>1. PICK c : c = working[o].cid
      OBVIOUS
    <3>2. c \in Cid /\ o = VenueNo[c] /\ placed[c] \in Product /\ placed[c] # None
      BY <2>2, <3>1, WorkingFacts, NoneAssumption
    <3>3. Len(requests) = 0
      BY DEF Quiet
    <3>4. outstanding[placed[c]][c] # None
      BY <2>2, <3>2, <3>3 DEF SoundInv, Covered, CancelOnWire
    <3>5. c \in Outstanding(placed[c])
      BY <3>2, <3>4 DEF Outstanding
    <3>6. PICK n : n = cid_to_order_no[placed[c]][c]
      OBVIOUS
    <3>7. n \in OrderNo /\ working[n] # None /\ working[n].lots = outstanding[placed[c]][c]
      BY <3>2, <3>5, <3>6, QuietTracked
    <3>8. n \in {VenueNo[c], None}
      BY <3>2, <3>6 DEF BaseInv, IndexInv, OwnNumber
    <3>9. n = o
      BY <3>2, <3>7, <3>8, NoneAssumption
    <3>10. <<o, working[o].lots>> \in {<<cid_to_order_no[placed[c]][x], outstanding[placed[c]][x]>> :
                                          x \in Outstanding(placed[c])}
      BY <3>5, <3>6, <3>7, <3>9
    <3> QED BY <3>2, <3>10 DEF Tracked
  <2>3. Tracked \subseteq AtVenue
    BY <2>1 DEF Tracked
  <2>4. AtVenue \subseteq Tracked
    BY <2>2 DEF AtVenue
  <2> QED BY <2>3, <2>4
<1> QED BY <1>1, MessagesAreGenuine, NothingLost, BooksAccounted, PTL
=============================================================================
