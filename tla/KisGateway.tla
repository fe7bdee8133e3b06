----------------------------- MODULE KisGateway -----------------------------
(***************************************************************************)
(* The KIS order gateway: BaseOrderGateway and KoreanStockOrderGateway     *)
(* (trader/order_gateway/kis) over SerialTaskRunner.  place_order,         *)
(* amend_order and cancel_order differ in what they write into the request *)
(* and are one action here; the request itself is its number.              *)
(***************************************************************************)
EXTENDS TaskRunner

CONSTANT MaxAsks   \* bound: requests made by each poster

ASSUME GatewayAssumption == MaxAsks \in Nat

VARIABLES
  asked,    \* per poster: requests made
  carried,  \* per poster: the request that each accepted task carries
  called,   \* the worker's POST has been made
  \* at the venue, and what it led to: see IOrderGateway
  issued, done, answers

kisVars == <<asked, carried, called, issued, done, answers>>
gatewayVars == <<vars, kisVars>>

GatewayInit ==
  /\ Init
  /\ asked = [p \in Poster |-> 0] /\ carried = [p \in Poster |-> <<>>]
  /\ called = FALSE
  /\ issued = [p \in Poster |-> 0] /\ done = [p \in Poster |-> {}]
  /\ answers = [p \in Poster |-> <<>>]

\* deliver()
Answer(p, n, success) ==
  answers' = [answers EXCEPT ![p] = Append(@, [request |-> n, success |-> success])]
-----------------------------------------------------------------------------
(* send_order_request, on the trader's thread.                             *)

AskOrder(p) ==
  /\ asked[p] < MaxAsks /\ PostCount(p)
  /\ asked' = [asked EXCEPT ![p] = @ + 1]
  /\ UNCHANGED <<carried, called, issued, done, answers>>

\* Mutant: the answer to a queued request is not left to the worker.
QueuedReported(p) ==
  /\ PostEnqueue(p)
  /\ carried' = [carried EXCEPT ![p] = Append(@, asked[p])]
  /\ Answer(p, asked[p], FALSE)
  /\ UNCHANGED <<asked, called, issued, done>>

Queued(p) ==
  /\ PostEnqueue(p)
  /\ carried' = [carried EXCEPT ![p] = Append(@, asked[p])]
  /\ UNCHANGED <<asked, called, issued, done, answers>>

\* Mutant: only false is returned.
NotQueuedSilently(p) == PostRefuse(p) /\ UNCHANGED kisVars

\* deliver_dispatch_failure
NotQueued(p) ==
  /\ PostRefuse(p)
  /\ Answer(p, asked[p], FALSE)
  /\ UNCHANGED <<asked, carried, called, issued, done>>
-----------------------------------------------------------------------------
(* The posted task, on the worker.                                         *)

TakeRequest(p) == WorkerTake(p) /\ UNCHANGED kisVars

\* The POST; if it reaches the venue, the venue does it or refuses.
Call ==
  /\ worker = "busy" /\ ~called /\ called' = TRUE
  /\ LET p == task[1]
         n == carried[p][task[2]]
     IN  /\ issued' = [issued EXCEPT ![p] = n]
         /\ done' \in {done, [done EXCEPT ![p] = @ \cup {n}]}
  /\ UNCHANGED <<vars, asked, carried, answers>>

\* What came back is parsed and delivered.  It is a failure when the venue said so,
\* when nothing came within ORDER_REST_TIMEOUT_SEC and when it cannot be parsed,
\* whatever the venue did.
Deliver ==
  /\ called /\ called' = FALSE
  /\ WorkerRun
  /\ LET p == task[1]
         n == carried[p][task[2]]
     IN  \E success \in BOOLEAN :
           /\ success => n \in done[p]
           /\ Answer(p, n, success)
  /\ UNCHANGED <<asked, carried, issued, done>>

\* ~KoreanStockOrderGateway drains, then the runner goes.
Destroy == OwnerStep /\ UNCHANGED kisVars

KisWorker ==
  \/ \E p \in Poster : TakeRequest(p)
  \/ Call \/ Deliver
  \/ (WorkerUncount \/ WorkerExit) /\ UNCHANGED kisVars

KisPoster(p) == Queued(p) \/ NotQueued(p)

KisNext ==
  \/ KisWorker \/ Destroy
  \/ Gone /\ UNCHANGED kisVars
  \/ \E p \in Poster : AskOrder(p) \/ KisPoster(p)

-----------------------------------------------------------------------------
(* Properties.                                                             *)

Contract == INSTANCE IOrderGateway

\* The gateway keeps the contract of IOrderGateway, also at its backlog's limit,
\* where a request is counted, refused and answered while the worker answers others:
\* the venue sees the requests in the order they were made and the sink has one
\* answer for each.
KeepsContract == Contract!Spec

\* "so the owner's bookkeeping does not wait on a reply that is not coming": every
\* request is answered in the end, also one that is still queued when the gateway is
\* destroyed.
EveryRequestAnswered ==
  \A p \in Poster, n \in 1..MaxAsks : asked[p] >= n ~> n \in Contract!Answered(p)
=============================================================================
