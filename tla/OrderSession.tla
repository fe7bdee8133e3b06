---------------------------- MODULE OrderSession ----------------------------
(***************************************************************************)
(* The Binance order session: WsOrderGateway (trader/order_gateway/binance/*)
(* ws_order_gateway.cpp), through which every order and every shutdown     *)
(* cancel reaches the venue.  Four kinds of threads share client_,         *)
(* connected_ and reconnect_pending_: the one that constructs and destroys *)
(* the gateway, its io thread, the thread of each websocket client, on     *)
(* which the status callbacks run, and the trader's, which sends.  A       *)
(* connection counts as open until its client's handler says otherwise.    *)
(***************************************************************************)
EXTENDS Integers

CONSTANT MaxFailures  \* bound: dials that fail or throw and connections that drop

\* A failure is reported at most twice, and each report costs at most one dial.
Client == 1..(2 * MaxFailures + 2)
NoClient == 0

VARIABLES
  running,    \* "yes": running_; "stopping", "stopped": the destructor
  connected,  \* connected_
  pending,    \* reconnect_pending_
  client,     \* client_
  sock,       \* each client: "unborn", "dialing", "stuck", "open", "lapsed", "closed", "gone"
  making,     \* the client that each creating thread has yet to assign to client_
  io,         \* the io thread's work: "idle", "posted", "reset", "timer"
  sender,     \* the trader: "idle", "signing"
  sent,       \* what became of its last request: "none", "failed", "out", "dead"
  overtaken,    \* history: a redial began before the constructor's assignment
  failures

vars == <<running, connected, pending, client, sock, making, io, sender, sent, overtaken, failures>>

Maker == {"ctor", "io"}

\* The constructor has called create_client, as far as the client's construction.
Init ==
  /\ running = "yes" /\ connected = FALSE /\ pending = FALSE
  /\ client = NoClient
  /\ \E s \in {"dialing", "stuck"} : sock = [c \in Client |-> IF c = 1 THEN s ELSE "unborn"]
  /\ making = [m \in Maker |-> IF m = "ctor" THEN 1 ELSE NoClient]
  /\ io = "idle" /\ sender = "idle" /\ sent = "none" /\ overtaken = FALSE /\ failures = 0
-----------------------------------------------------------------------------
(* create_client and schedule_reconnect.                                   *)

\* create_client, second half: under the lock, the client replaces what is there.
Assign(m) ==
  /\ making[m] # NoClient
  /\ client' = making[m]
  /\ making' = [making EXCEPT ![m] = NoClient]
  /\ sock' = IF client # NoClient THEN [sock EXCEPT ![client] = "gone"] ELSE sock
  /\ UNCHANGED <<running, connected, pending, io, sender, sent, overtaken, failures>>

\* schedule_reconnect: first the client goes, its thread with it.
ResetClient ==
  /\ io = "posted" /\ making["io"] = NoClient
  /\ io' = "reset"
  /\ client' = NoClient
  /\ sock' = IF client # NoClient THEN [sock EXCEPT ![client] = "gone"] ELSE sock
  /\ overtaken' = (overtaken \/ making["ctor"] # NoClient)
  /\ UNCHANGED <<running, connected, pending, making, sender, sent, failures>>

ArmTimer ==
  /\ io = "reset" /\ io' = "timer"
  /\ connected' = FALSE
  /\ UNCHANGED <<running, pending, client, sock, making, sender, sent, overtaken, failures>>

\* init_connection in a new client's constructor.  A connect() that throws is caught
\* with connecting_ still set: reported as still dialling, it is never heard of again.
Dials(c) ==
  \/ sock' = [sock EXCEPT ![c] = "dialing"] /\ UNCHANGED failures
  \/ /\ failures < MaxFailures /\ failures' = failures + 1
     /\ sock' = [sock EXCEPT ![c] = "stuck"]

\* Mutant: the flag is cleared once the client is made and has reported.
TimerFiresKeepsPending ==
  /\ io = "timer" /\ io' = "idle" /\ running = "yes"
  /\ \E c \in Client :
       /\ sock[c] = "unborn" /\ \A d \in 1..(c - 1) : sock[d] # "unborn"
       /\ Dials(c)
       /\ making' = [making EXCEPT !["io"] = c]
  /\ connected' = FALSE
  /\ UNCHANGED <<running, pending, client, sender, sent, overtaken>>

\* The timer's handler, and create_client's first half: the new client reports that
\* it is dialling.
TimerFires ==
  /\ io = "timer" /\ io' = "idle" /\ running = "yes"
  /\ pending' = FALSE
  /\ \E c \in Client :
       /\ sock[c] = "unborn" /\ \A d \in 1..(c - 1) : sock[d] # "unborn"
       /\ Dials(c)
       /\ making' = [making EXCEPT !["io"] = c]
  /\ connected' = FALSE
  /\ UNCHANGED <<running, client, sender, sent, overtaken>>
-----------------------------------------------------------------------------
(* status_cb, on the client's own thread.                                  *)

Opens(c) ==
  /\ sock[c] = "dialing" /\ sock' = [sock EXCEPT ![c] = "open"]
  /\ connected' = TRUE
  /\ UNCHANGED <<running, pending, client, making, io, sender, sent, overtaken, failures>>

\* "One redial in flight at a time".
AsksRedial == running = "yes" /\ ~pending

ReportsDown(c, becomes) ==
  /\ sock' = [sock EXCEPT ![c] = becomes]
  /\ connected' = FALSE
  /\ IF AsksRedial THEN pending' = TRUE /\ io' = "posted" ELSE UNCHANGED <<pending, io>>
  /\ UNCHANGED <<running, client, making, sender, sent, overtaken>>

\* A dial fails, a connection drops or its pong is overdue; the last is reported
\* again when the closing handshake ends.
Fails(c) ==
  /\ failures < MaxFailures /\ failures' = failures + 1
  /\ \/ sock[c] \in {"dialing", "open"} /\ ReportsDown(c, "closed")
     \/ sock[c] = "open" /\ ReportsDown(c, "lapsed")

Closes(c) == sock[c] = "lapsed" /\ ReportsDown(c, "closed") /\ UNCHANGED failures
-----------------------------------------------------------------------------
(* send_request, and the report of BinanceOrderGateway if it fails.        *)

BeginSend ==
  /\ sender = "idle" /\ running = "yes" /\ making["ctor"] = NoClient
  /\ IF connected THEN sender' = "signing" /\ UNCHANGED sent
                  ELSE sent' = "failed" /\ UNCHANGED sender
  /\ UNCHANGED <<running, connected, pending, client, sock, making, io, overtaken, failures>>

\* Mutant: only the pointer is looked at again.
MaySendByPointer == client # NoClient

\* "Rechecked under the lock"
MaySend == client # NoClient /\ connected

EndSend ==
  /\ sender = "signing" /\ sender' = "idle"
  /\ sent' = IF ~MaySend THEN "failed" ELSE IF sock[client] = "open" THEN "out" ELSE "dead"
  /\ UNCHANGED <<running, connected, pending, client, sock, making, io, overtaken, failures>>
-----------------------------------------------------------------------------
(* The destructor: stop the io context, join its thread, drop the client.  *)

Stop ==
  /\ running = "yes" /\ making["ctor"] = NoClient /\ sender = "idle"
  /\ running' = "stopping"
  /\ UNCHANGED <<connected, pending, client, sock, making, io, sender, sent, overtaken, failures>>

Joined ==
  /\ running = "stopping" /\ making["io"] = NoClient /\ io # "reset"
  /\ running' = "stopped"
  /\ client' = NoClient
  /\ sock' = IF client # NoClient THEN [sock EXCEPT ![client] = "gone"] ELSE sock
  /\ UNCHANGED <<connected, pending, making, io, sender, sent, overtaken, failures>>

Live == running # "stopped"

IoStep == Live /\ (Assign("io") \/ ResetClient \/ ArmTimer \/ TimerFires)

SocketStep(c) == Live /\ (Opens(c) \/ Fails(c) \/ Closes(c))

Next ==
  \/ IoStep \/ Assign("ctor") \/ \E c \in Client : SocketStep(c)
  \/ BeginSend \/ EndSend \/ Stop \/ Joined

Spec == Init /\ [][Next]_vars

=============================================================================
