---------------------------- MODULE OrderGateways ---------------------------
(***************************************************************************)
(* The order gateway the trader makes for its exchange (create_order_      *)
(* gateway in order_handler.cpp): over REST for KIS, over a session for    *)
(* Binance.  It makes one of the two and never changes it.                 *)
(***************************************************************************)
EXTENDS KisGateway

CONSTANT MaxFailures  \* bound of OrderSession

ASSUME SessionAssumption == MaxFailures \in Nat

VARIABLES
  exchange,
  running, connected, pending, client, sock, making, io, sender, sent, overtaken, failures

Ws == INSTANCE OrderSession

wsVars == <<running, connected, pending, client, sock, making, io, sender, sent, overtaken,
            failures>>
allVars == <<exchange, gatewayVars, wsVars>>

GatewaysInit ==
  /\ exchange \in {"kis", "binance"}
  /\ GatewayInit /\ Ws!Init
  /\ exchange = "kis" => sock[1] = "dialing"   \* unused: one value will do

KisMoves(A) == exchange = "kis" /\ A /\ UNCHANGED <<exchange, wsVars>>
WsMoves(A) == exchange = "binance" /\ A /\ UNCHANGED <<exchange, gatewayVars>>

GatewaysNext == KisMoves(KisNext) \/ WsMoves(Ws!Next)

GatewaysSpec == GatewaysInit /\ [][GatewaysNext]_allVars

\* The threads run; ORDER_REST_TIMEOUT_SEC ends a call of KIS, and a dial of the
\* session's ends.
FairSpec ==
  /\ GatewaysSpec
  /\ WF_allVars(KisMoves(KisWorker))
  /\ \A p \in Poster : WF_allVars(KisMoves(KisPoster(p)))
  /\ WF_allVars(KisMoves((DrainReturns \/ Join) /\ UNCHANGED kisVars))
  /\ WF_allVars(WsMoves(Ws!IoStep)) /\ WF_allVars(WsMoves(Ws!Assign("ctor")))
  /\ WF_allVars(WsMoves(Ws!EndSend)) /\ WF_allVars(WsMoves(Ws!Joined))
  /\ \A c \in Ws!Client : WF_allVars(WsMoves(Ws!Live /\ (Ws!Opens(c) \/ Ws!Closes(c))))
-----------------------------------------------------------------------------
(* Properties.                                                             *)

\* (The constructor's thread can be so slow that the first client has failed and its
\* redial has begun when it is assigned; then client_ can be the dead one while another
\* reports, and two properties leave that case out.)

\* A request is never handed to a connection that is not open: whatever the redials
\* do between the first look at connected_ and the lock, it goes out over an open
\* one or is reported as not sent.
NoRequestIntoDeadSession == ~overtaken => sent # "dead"

\* "a dead one has to be noticed": the session is up in the end and stays up once
\* nothing fails any more.  (Not after a dial that threw: status_cb takes what it last
\* reported for "still dialling", and nobody redials.)
SessionRecovers ==
  [](exchange = "binance" /\ running = "yes" /\ ~overtaken /\ \A c \in Ws!Client : sock[c] # "stuck") =>
    <>[](connected /\ client # Ws!NoClient /\ sock[client] = "open")

\* "Block until the queue is empty and the worker is idle. Terminates": the gateway's
\* destructor returns, whatever its threads were at.  KIS drains what is queued,
\* refused posts notwithstanding, and the worker, asleep on an empty queue, notices;
\* the io thread of Binance leaves a redial it has not begun.
DestructorReturns ==
  /\ owner = "draining" ~> owner = "gone"
  /\ running = "stopping" ~> running = "stopped"
=============================================================================
