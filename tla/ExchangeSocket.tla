--------------------------- MODULE ExchangeSocket ---------------------------
(***************************************************************************)
(* One exchange socket of a listener and its redialling:                   *)
(* BaseWebsocketClient (connection_handlers/websocket/websocket_client.hpp)*)
(* as owned by BinanceListener (create_*_client, schedule_*_reconnect,     *)
(* worker_loop, on_ws_status, start, stop) or by KisListener.  Binance's   *)
(* market, trade and user sockets have the same code; the user socket      *)
(* needs a listenKey as well.                                              *)
(*                                                                         *)
(* Threads: the io thread runs the redial timer and creates clients, for   *)
(* Binance it also destroys them; each client has a thread of its own that *)
(* runs its handlers; the worker takes status reports off ws_event_queue_  *)
(* (ws_response_queue_), possibly late, since it also makes the listener's *)
(* blocking REST calls; for KIS it destroys the clients.  That queue is    *)
(* FIFO per enqueuing thread only.                                         *)
(***************************************************************************)
EXTENDS Integers, Sequences

CONSTANTS
  Exchanges,     \* the listeners considered: "binance", "kis"
  MaxFailures,   \* bound: dials that fail, connections that drop, keys refused
  NeedsKey,      \* the user socket: a listenKey is fetched before each dial
  DialMayThrow   \* may connect() throw?

ASSUME SocketAssumption ==
  /\ Exchanges \subseteq {"binance", "kis"}
  /\ MaxFailures \in Nat /\ NeedsKey \in BOOLEAN /\ DialMayThrow \in BOOLEAN

\* A failure is reported at most twice, and each report costs at most one dial.
MaxDials == 2 * MaxFailures + 1
Thread == 0..(MaxDials + 1)
Io == 0
Owner == MaxDials + 1

VARIABLES
  exchange,    \* config_.exchange
  running,     \* running_
  worker,      \* "loops", "exited", with everything joined "joined"; or "crashed"
  posted,      \* what the io thread is to run: "start", "schedule" or "none"
  timer,       \* the reconnect timer is armed
  pending,     \* *_reconnect_pending_
  attempts,    \* *_reconnect_cnt_, which matters up to 5
  opened,      \* *_opened_
  dial,        \* the clients created so far; the last one is the current one
  conn,        \* the current client, see Conn
  client,      \* what ws_client_ of KisListener points to, see Client
  reports,     \* ws_event_queue_: the status reports, per enqueuing thread
  seeded,      \* history: the client that was current when on_*_open last ran
  late,        \* history: a report was handled after its client had been replaced,
               \* or before ws_client_ was assigned
  failures

vars == <<exchange, running, worker, posted, timer, pending, attempts, opened, dial,
          conn, client, reports, seeded, late, failures>>

\* "none": there is no client; "lapsed": given up for want of a pong, the closing
\* handshake is under way; "down": closed or failed, and reported; "stuck":
\* connect() threw, so the client has no thread and connecting_ is still set.
Conn == {"none", "dialing", "open", "lapsed", "down", "stuck"}

\* KIS assigns ws_client_ once the new client is constructed, and running.  The
\* Binance worker never goes through the pointer.
Client == {"null", "previous", "current"}

Dialling == [connecting |-> TRUE, opened |-> FALSE]
Up == [connecting |-> FALSE, opened |-> TRUE]
Down == [connecting |-> FALSE, opened |-> FALSE]

Init ==
  /\ exchange \in Exchanges
  /\ running = TRUE /\ worker = "loops" /\ posted = "start"
  /\ timer = FALSE /\ pending = FALSE /\ attempts = 0
  /\ opened = FALSE /\ dial = 0 /\ conn = "none" /\ client = "current"
  /\ reports = [t \in Thread |-> <<>>]
  /\ seeded = 0 /\ late = FALSE /\ failures = 0

ReportAs(t, what) == reports' = [reports EXCEPT ![t] = @ \o what]

Fails == failures < MaxFailures /\ failures' = failures + 1
-----------------------------------------------------------------------------
(* The io thread.  stop() ends it: what it has not begun is dropped.       *)

ownerVars == <<exchange, running, worker>>
historyVars == <<seeded, late>>

\* create_*_client: the constructor reports connecting_, then connects.
Dial ==
  /\ dial' = dial + 1
  /\ \/ /\ conn' = "dialing" /\ ReportAs(Io, <<Dialling>>)
        /\ UNCHANGED failures
     \/ /\ DialMayThrow /\ Fails
        /\ conn' = "stuck" /\ ReportAs(Io, <<Dialling, Dialling>>)

\* create_user_client without a listenKey: try again later.
NoKey ==
  /\ NeedsKey /\ exchange = "binance" /\ Fails
  /\ pending' = TRUE /\ posted' = "schedule"
  /\ UNCHANGED <<dial, conn, reports>>

\* start(); the KIS client is assigned before the worker is started.
RunStart ==
  /\ running /\ posted = "start"
  /\ \/ Dial /\ posted' = "none" /\ UNCHANGED pending
     \/ NoKey
  /\ UNCHANGED <<ownerVars, timer, attempts, opened, client, historyVars>>

\* schedule_*_reconnect: the client goes, with its thread.
RunSchedule ==
  /\ running /\ posted = "schedule"
  /\ posted' = "none"
  /\ conn' = "none"
  /\ timer' = TRUE
  /\ attempts' = IF attempts < 5 THEN attempts + 1 ELSE attempts
  /\ UNCHANGED <<ownerVars, pending, opened, dial, client, reports, historyVars, failures>>

\* Mutant: the flag is left set.
TimerFiresKeepsPending ==
  /\ running /\ timer /\ exchange = "binance"
  /\ timer' = FALSE
  /\ Dial
  /\ UNCHANGED <<ownerVars, posted, pending, attempts, opened, client, historyVars>>

\* "Cleared before the dial, not after".
TimerFires ==
  /\ running /\ timer /\ exchange = "binance"
  /\ timer' = FALSE
  /\ \/ Dial /\ pending' = FALSE /\ UNCHANGED posted
     \/ NoKey
  /\ UNCHANGED <<ownerVars, attempts, opened, client, historyVars>>

\* The redial of KisListener: ws_client_ is assigned only when the constructor
\* has returned, and what it pointed to until then is destroyed.
KisTimerFires ==
  /\ running /\ timer /\ exchange = "kis"
  /\ client = "current" \/ conn = "none"
  /\ timer' = FALSE /\ pending' = FALSE
  /\ Dial
  /\ client' = IF client = "current" THEN "previous" ELSE "null"
  /\ UNCHANGED <<ownerVars, posted, attempts, opened, historyVars>>

KisClientAssigned ==
  /\ exchange = "kis" /\ client # "current" /\ conn # "none"
  /\ client' = "current"
  /\ UNCHANGED <<ownerVars, posted, timer, pending, attempts, opened, dial, conn,
                 reports, historyVars, failures>>

\* Until then the client it replaces is alive and may report.
KisPreviousReports ==
  /\ exchange = "kis" /\ client = "previous" /\ Fails
  /\ \E what \in {Up, Down} : ReportAs(dial - 1, <<what>>)
  /\ UNCHANGED <<ownerVars, posted, timer, pending, attempts, opened, dial, conn, client,
                 historyVars>>
-----------------------------------------------------------------------------
(* The client's thread.                                                    *)

Handler(was, becomes, says) ==
  /\ conn = was /\ conn' = becomes
  /\ ReportAs(dial, <<says>>)
  /\ UNCHANGED <<ownerVars, posted, timer, pending, attempts, opened, dial, client, historyVars>>

OpenHandler == Handler("dialing", "open", Up) /\ UNCHANGED failures

FailHandler == Fails /\ Handler("dialing", "down", Down)

PongTimeout == Fails /\ Handler("open", "lapsed", Down)

CloseHandler ==
  \/ Fails /\ Handler("open", "down", Down)
  \/ Handler("lapsed", "down", Down) /\ UNCHANGED failures
-----------------------------------------------------------------------------
(* The worker: worker_loop, on_ws_status.                                  *)

TakeReport(t) ==
  /\ worker = "loops" /\ reports[t] # <<>>
  /\ reports' = [reports EXCEPT ![t] = Tail(@)]

\* Mutant: a drop is not remembered.
OnWsStatusStaysOpened(e) ==
  /\ opened' = (opened \/ e.opened)
  /\ IF ~opened /\ e.opened
     THEN attempts' = 0 /\ seeded' = dial /\ UNCHANGED <<pending, posted>>
     ELSE /\ IF ~e.opened /\ ~e.connecting /\ ~pending
             THEN pending' = TRUE /\ posted' = "schedule"
             ELSE UNCHANGED <<pending, posted>>
          /\ UNCHANGED <<attempts, seeded>>

\* Mutant: every report of a drop starts a redial.
OnWsStatusEveryTime(e) ==
  /\ opened' = e.opened
  /\ IF ~opened /\ e.opened
     THEN attempts' = 0 /\ seeded' = dial /\ UNCHANGED <<pending, posted>>
     ELSE /\ IF ~e.opened /\ ~e.connecting
             THEN pending' = TRUE /\ posted' = "schedule"
             ELSE UNCHANGED <<pending, posted>>
          /\ UNCHANGED <<attempts, seeded>>

\* Up: on_market_open or on_user_open.  Down and not dialling: a redial, unless
\* one is pending.
OnWsStatus(e) ==
  /\ opened' = e.opened
  /\ IF ~opened /\ e.opened
     THEN attempts' = 0 /\ seeded' = dial /\ UNCHANGED <<pending, posted>>
     ELSE /\ IF ~e.opened /\ ~e.connecting /\ ~pending
             THEN pending' = TRUE /\ posted' = "schedule"
             ELSE UNCHANGED <<pending, posted>>
          /\ UNCHANGED <<attempts, seeded>>

BinanceHandles(e) ==
  /\ exchange = "binance" /\ OnWsStatus(e)
  /\ UNCHANGED <<worker, timer, conn, client>>

\* on_ws_client_open: the subscriptions are sent through ws_client_.  A send that
\* finds the connection no longer open throws, and nothing catches it; a null
\* pointer is no better.
KisOnOpen ==
  /\ attempts' = 0 /\ pending' = FALSE
  /\ \/ /\ client = "current" /\ conn = "open"
        /\ seeded' = dial /\ UNCHANGED worker
     \/ /\ client # "current" \/ conn # "open"
        /\ worker' = "crashed" /\ UNCHANGED seeded
     \/ /\ client = "previous"
        /\ UNCHANGED <<worker, seeded>>
  /\ UNCHANGED <<timer, conn, client>>

\* on_ws_client_fail: the client goes at once, and the timer is armed anew.
KisOnFail ==
  /\ pending' = TRUE /\ timer' = TRUE
  /\ attempts' = IF attempts < 5 THEN attempts + 1 ELSE attempts
  /\ conn' = IF client = "current" THEN "none" ELSE conn
  /\ client' = "null"
  /\ UNCHANGED <<worker, seeded>>

KisHandles(e) ==
  /\ exchange = "kis"
  /\ opened' = e.opened
  /\ CASE ~opened /\ e.opened -> KisOnOpen
       [] ~e.opened /\ ~e.connecting /\ ~pending -> KisOnFail
       [] OTHER -> UNCHANGED <<worker, timer, pending, attempts, conn, client, seeded>>
  /\ UNCHANGED posted

WorkerHandles(t) ==
  /\ running /\ TakeReport(t)
  /\ BinanceHandles(Head(reports[t])) \/ KisHandles(Head(reports[t]))
  /\ late' = (late \/ t \in 1..(dial - 1) \/ client # "current")
  /\ UNCHANGED <<exchange, running, dial, failures>>

WorkerExits ==
  \E t \in Thread :
    /\ ~running /\ TakeReport(t)
    /\ worker' = "exited"
    /\ UNCHANGED <<exchange, running, posted, timer, pending, attempts, opened, dial, conn,
                   client, historyVars, failures>>
-----------------------------------------------------------------------------
(* stop()                                                                  *)

\* Mutant: the worker is not woken.
StopWithoutWake ==
  /\ running /\ running' = FALSE
  /\ UNCHANGED <<exchange, worker, posted, timer, pending, attempts, opened, dial, conn,
                 client, reports, historyVars, failures>>

Stop ==
  /\ running /\ running' = FALSE
  /\ ReportAs(Owner, <<Down>>)
  /\ UNCHANGED <<exchange, worker, posted, timer, pending, attempts, opened, dial, conn,
                 client, historyVars, failures>>

\* Both threads joined, the client destroyed.
Joined ==
  /\ ~running /\ worker = "exited"
  /\ worker' = "joined" /\ conn' = "none"
  /\ UNCHANGED <<exchange, running, posted, timer, pending, attempts, opened, dial, client,
                 reports, historyVars, failures>>

IoStep == RunStart \/ RunSchedule \/ TimerFires \/ KisTimerFires \/ KisClientAssigned

SocketStep ==
  OpenHandler \/ FailHandler \/ CloseHandler \/ PongTimeout \/ KisPreviousReports

WorkerStep == WorkerExits \/ \E t \in Thread : WorkerHandles(t)

\* An exception out of the worker ends the process.
Next ==
  /\ worker # "crashed"
  /\ IoStep \/ SocketStep \/ WorkerStep \/ Stop \/ Joined

Spec == Init /\ [][Next]_vars

\* The threads run, a dial ends and so does a closing handshake.
FairSpec ==
  /\ Spec
  /\ WF_vars(worker # "crashed" /\ IoStep)
  /\ WF_vars(worker # "crashed" /\ (OpenHandler \/ FailHandler))
  /\ WF_vars(worker # "crashed" /\ conn = "lapsed" /\ CloseHandler)
  /\ WF_vars(WorkerStep) /\ WF_vars(Joined)
-----------------------------------------------------------------------------
(* Properties.                                                             *)

\* The pending flag is what keeps a redial from being started twice and what
\* keeps one from being started at all: for the Binance sockets it is set exactly
\* while a redial is on its way, and never are there two, which would destroy each
\* other's client.
RedialInHand ==
  running /\ exchange = "binance" =>
    /\ pending <=> (posted = "schedule" \/ timer)
    /\ ~(posted = "schedule" /\ timer)

\* However dials fail and connections drop, the socket is up in the end, and
\* stays up once nothing fails any more: the redial chain is never cut, whichever
\* of its reports come late or twice.  (A connect() that throws cuts it: the client
\* goes on reporting connecting_.  So does a KIS subscription that throws.)
SocketRecovers ==
  [](running /\ conn # "stuck" /\ worker # "crashed") => <>[](conn = "open")

\* stop() returns: the worker, asleep on an empty queue, is woken to exit.
StopReturns == ~running ~> worker = "joined"

\* "so seed authoritative state from REST snapshots on every (re)connect": once
\* the reports are handled, the open connection has been seeded from REST (the KIS
\* one: subscribed), again if none was handled after its client was replaced.
SeededOnEveryOpen ==
  running /\ ~late /\ conn = "open" /\ worker # "crashed"
    /\ (\A t \in Thread : reports[t] = <<>>) => seeded = dial
=============================================================================
