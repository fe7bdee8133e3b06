----------------------------- MODULE FeedServer -----------------------------
(***************************************************************************)
(* TcpServer and TcpSession (connection_handlers/tcp/tcp_server.{hpp,cpp}): *)
(* the broadcast server of the listener and of the pricer.                 *)
(*                                                                         *)
(* Three threads.  The io thread accepts, reads requests, drives the       *)
(* socket writes and closes sessions.  The worker runs the tasks the other *)
(* two enqueue and alone owns the subscription maps.  The publisher is the *)
(* owner's thread (MarketListener::listen, Pricer::publish_fair_price).    *)
(* task_queue_ and write_queue_ are moodycamel queues: FIFO per enqueuing  *)
(* thread, no order between threads.                                       *)
(*                                                                         *)
(* A message is its kind and a version: "ack" of a request, "info" (the    *)
(* product info, which is retained) or "data" (any other broadcast).       *)
(***************************************************************************)
EXTENDS Integers, Sequences, FiniteSets, SequencesExt

CONSTANTS
  Session,      \* the connections a behaviour may see
  Product,
  MaxRequests,  \* bound: requests one client sends
  MaxVersion,   \* bound: broadcasts of each kind
  None          \* no entry, no session

ASSUME ServerAssumption ==
  /\ MaxRequests \in Nat /\ MaxVersion \in Nat
  /\ None \notin Session /\ \A ps \in SUBSET Product : ps # None

VARIABLES
  \* TcpServer
  server,               \* "running", "stopping" (running_ cleared) or "stopped"
  tasks,                \* task_queue_, per enqueuing thread
  session_to_products,  \* None where the session has no entry
  product_to_sessions,  \* empty where the product has no entry
  product_infos,        \* the retained version, 0 for none
  sending,              \* the worker: send_message calls its task still has to make
  kicking,              \* the worker: enqueued for this session, do_write not yet posted
  \* TcpSession
  active,               \* "none" (not connected), "open" or "closed"
  reading,              \* a read is pending
  write_queue,          \* write_queue_, per enqueuing thread
  kicks,                \* do_write callbacks posted to the io thread
  writing,              \* writing_
  in_flight,            \* write_buffer_: messages handed to async_write
  \* history and bounds
  informed,             \* per product, the product info that reached the client last
  owed,                 \* what the worker sent the open session and has not reached it
  requests,             \* requests the client sent
  version               \* per product and kind, the last version published

serverVars == <<session_to_products, product_to_sessions, product_infos>>
writeVars == <<write_queue, kicks, writing, in_flight>>
clientVars == <<informed, owed>>
vars == <<server, tasks, serverVars, sending, kicking, active, reading, writeVars,
          clientVars, requests, version>>

Kinds == {"info", "data"}
Enqueuer == {"io", "worker"}   \* the threads that call send_message
Msg(kind, p, v) == [kind |-> kind, product |-> p, version |-> v]
Task(do, s, p, v) == [do |-> do, session |-> s, product |-> p, version |-> v]

Init ==
  /\ server = "running"
  /\ tasks = [t \in {"io", "publisher", "owner"} |-> <<>>]
  /\ session_to_products = [s \in Session |-> None]
  /\ product_to_sessions = [p \in Product |-> {}]
  /\ product_infos = [p \in Product |-> 0]
  /\ sending = {} /\ kicking = None
  /\ active = [s \in Session |-> "none"]
  /\ reading = [s \in Session |-> FALSE]
  /\ write_queue = [s \in Session |-> [t \in Enqueuer |-> <<>>]]
  /\ kicks = [s \in Session |-> 0]
  /\ writing = [s \in Session |-> FALSE]
  /\ in_flight = [s \in Session |-> <<>>]
  /\ informed = [s \in Session |-> [p \in Product |-> 0]]
  /\ owed = [s \in Session |-> <<>>]
  /\ requests = [s \in Session |-> 0]
  /\ version = [p \in Product |-> [k \in Kinds |-> 0]]
-----------------------------------------------------------------------------
(* The publisher.                                                          *)

Publish(p) ==
  LET v == version[p]["data"] + 1
  IN  /\ server = "running" /\ v <= MaxVersion
      /\ version' = [version EXCEPT ![p]["data"] = v]
      /\ tasks' = [tasks EXCEPT !["publisher"] = Append(@, Task("data", None, p, v))]
      /\ UNCHANGED <<server, serverVars, sending, kicking, active, reading, writeVars,
                     clientVars, requests>>

\* listen(): broadcast the product info, then have the server retain it.
PublishInfo(p) ==
  LET v == version[p]["info"] + 1
  IN  /\ server = "running" /\ v <= MaxVersion
      /\ version' = [version EXCEPT ![p]["info"] = v]
      /\ tasks' = [tasks EXCEPT !["publisher"] =
           @ \o <<Task("info", None, p, v), Task("retain", None, p, v)>>]
      /\ UNCHANGED <<server, serverVars, sending, kicking, active, reading, writeVars,
                     clientVars, requests>>
-----------------------------------------------------------------------------
(* The io thread.                                                          *)

IoTask(do, s, p) == tasks' = [tasks EXCEPT !["io"] = Append(@, Task(do, s, p, 0))]

\* do_accept, start.  stop() closes the acceptor, but a connection accepted just
\* before may still be started after running_ is cleared.
Accept(s) ==
  /\ server # "stopped" /\ active[s] = "none"
  /\ active' = [active EXCEPT ![s] = "open"]
  /\ reading' = [reading EXCEPT ![s] = TRUE]
  /\ IoTask("add", s, None)
  /\ UNCHANGED <<server, serverVars, sending, kicking, writeVars, clientVars, requests, version>>

\* Mutant: a read that succeeds is handled also after the session was closed.
RequestUnchecked(s, do, p) ==
  /\ reading[s] /\ requests[s] < MaxRequests
  /\ requests' = [requests EXCEPT ![s] = @ + 1]
  /\ IoTask(do, s, p)
  /\ write_queue' = [write_queue EXCEPT ![s]["io"] = Append(@, Msg("ack", p, 0))]
  /\ kicks' = [kicks EXCEPT ![s] = @ + 1]
  /\ UNCHANGED <<server, serverVars, sending, kicking, active, reading, writing,
                 in_flight, clientVars, version>>

\* do_read, handle_message: the worker is told, then the ack is queued and its
\* do_write posted.
Request(s, do, p) ==
  /\ reading[s] /\ active[s] = "open" /\ requests[s] < MaxRequests
  /\ requests' = [requests EXCEPT ![s] = @ + 1]
  /\ IoTask(do, s, p)
  /\ write_queue' = [write_queue EXCEPT ![s]["io"] = Append(@, Msg("ack", p, 0))]
  /\ kicks' = [kicks EXCEPT ![s] = @ + 1]
  /\ UNCHANGED <<server, serverVars, sending, kicking, active, reading, writing,
                 in_flight, clientVars, version>>

\* close(): it may run twice, once for the write and once for the read.
Close(s) ==
  /\ active' = [active EXCEPT ![s] = "closed"]
  /\ IoTask("remove", s, None)

\* The pending read fails: the client is gone, or the socket was closed here.
ReadFails(s) ==
  /\ reading[s]
  /\ reading' = [reading EXCEPT ![s] = FALSE]
  /\ Close(s)
  /\ UNCHANGED <<server, serverVars, sending, kicking, writeVars, clientVars, requests, version>>

\* Mutant: a message is dequeued to see whether there is one, and not sent.
DoWriteTwice(s, left) ==
  \/ /\ active[s] # "open" \/ \A t \in Enqueuer : write_queue[s][t] = <<>>
     /\ writing' = [writing EXCEPT ![s] = FALSE]
     /\ in_flight' = [in_flight EXCEPT ![s] = left]
     /\ UNCHANGED write_queue
  \/ \E t \in Enqueuer :
       /\ active[s] = "open" /\ write_queue[s][t] # <<>>
       /\ writing' = [writing EXCEPT ![s] = TRUE]
       /\ in_flight' = [in_flight EXCEPT ![s] = Append(left, Last(write_queue[s][t]))]
       /\ write_queue' = [write_queue EXCEPT ![s][t] = <<>>]

\* do_write: the next message of either thread, or the writer rests.  `left` is
\* what else is in flight.
DoWrite(s, left) ==
  \/ /\ active[s] # "open" \/ \A t \in Enqueuer : write_queue[s][t] = <<>>
     /\ writing' = [writing EXCEPT ![s] = FALSE]
     /\ in_flight' = [in_flight EXCEPT ![s] = left]
     /\ UNCHANGED write_queue
  \/ \E t \in Enqueuer :
       /\ active[s] = "open" /\ write_queue[s][t] # <<>>
       /\ writing' = [writing EXCEPT ![s] = TRUE]
       /\ in_flight' = [in_flight EXCEPT ![s] = Append(left, Head(write_queue[s][t]))]
       /\ write_queue' = [write_queue EXCEPT ![s][t] = Tail(@)]

\* The callback send_message posts: it starts the writer unless it is at work.
StartWrite(s) ==
  /\ kicks[s] > 0
  /\ kicks' = [kicks EXCEPT ![s] = @ - 1]
  /\ IF writing[s] THEN UNCHANGED <<writing, in_flight, write_queue>>
                   ELSE DoWrite(s, in_flight[s])
  /\ UNCHANGED <<server, tasks, serverVars, sending, kicking, active, reading, clientVars, requests, version>>

\* Mutant: the next message waits for the next callback.
WriteDoneRests(s) ==
  /\ in_flight[s] # <<>>
  /\ LET m == Head(in_flight[s])
     IN  /\ informed' = IF m.kind # "info" THEN informed
                        ELSE [informed EXCEPT ![s][m.product] = m.version]
         /\ owed' = IF owed[s] = <<>> \/ m # Head(owed[s]) THEN owed
                    ELSE [owed EXCEPT ![s] = Tail(@)]
  /\ IF active[s] = "open"
     THEN /\ writing' = [writing EXCEPT ![s] = FALSE]
          /\ in_flight' = [in_flight EXCEPT ![s] = Tail(@)]
          /\ UNCHANGED <<active, tasks, write_queue>>
     ELSE /\ writing' = [writing EXCEPT ![s] = FALSE]
          /\ in_flight' = [in_flight EXCEPT ![s] = Tail(@)]
          /\ Close(s)
          /\ UNCHANGED write_queue
  /\ UNCHANGED <<server, serverVars, sending, kicking, reading, kicks, requests, version>>

\* async_write completes: on to the next message, or close if the session is no
\* longer active.
WriteDone(s) ==
  /\ in_flight[s] # <<>>
  /\ LET m == Head(in_flight[s])
     IN  /\ informed' = IF m.kind # "info" THEN informed
                        ELSE [informed EXCEPT ![s][m.product] = m.version]
         /\ owed' = IF owed[s] = <<>> \/ m # Head(owed[s]) THEN owed
                    ELSE [owed EXCEPT ![s] = Tail(@)]
  /\ IF active[s] = "open"
     THEN DoWrite(s, Tail(in_flight[s])) /\ UNCHANGED <<active, tasks>>
     ELSE /\ writing' = [writing EXCEPT ![s] = FALSE]
          /\ in_flight' = [in_flight EXCEPT ![s] = Tail(@)]
          /\ Close(s)
          /\ UNCHANGED write_queue
  /\ UNCHANGED <<server, serverVars, sending, kicking, reading, kicks, requests, version>>

WriteFails(s) ==
  /\ in_flight[s] # <<>>
  /\ writing' = [writing EXCEPT ![s] = FALSE]
  /\ in_flight' = [in_flight EXCEPT ![s] = Tail(@)]
  /\ Close(s)
  /\ UNCHANGED <<server, serverVars, sending, kicking, reading, write_queue, kicks, clientVars, requests, version>>
-----------------------------------------------------------------------------
(* The worker: broadcast_worker.                                           *)

WorkerReady == server = "running" /\ sending = {} /\ kicking = None

TakeTask(t) ==
  /\ WorkerReady /\ tasks[t] # <<>>
  /\ tasks' = [tasks EXCEPT ![t] = Tail(@)]
  /\ UNCHANGED <<server, kicking, active, reading, writeVars, clientVars, requests, version>>

AddSession(k) ==
  /\ k.do = "add"
  /\ session_to_products' = [session_to_products EXCEPT ![k.session] = {}]
  /\ UNCHANGED <<product_to_sessions, product_infos, sending>>

RemoveSession(k) ==
  LET theirs == session_to_products[k.session]
  IN  /\ k.do = "remove"
      /\ product_to_sessions' = [p \in Product |->
           IF theirs # None /\ p \in theirs THEN product_to_sessions[p] \ {k.session}
                                            ELSE product_to_sessions[p]]
      /\ session_to_products' = [session_to_products EXCEPT ![k.session] = None]
      /\ UNCHANGED <<product_infos, sending>>

\* Mutant: the retained product info is not replayed.
SubscribeNoReplay(k) ==
  LET s == k.session
      theirs == IF session_to_products[s] = None THEN {} ELSE session_to_products[s]
  IN  /\ k.do = "subscribe"
      /\ session_to_products' = [session_to_products EXCEPT ![s] = theirs \cup {k.product}]
      /\ product_to_sessions' = [product_to_sessions EXCEPT ![k.product] = @ \cup {s}]
      /\ sending' = {}
      /\ UNCHANGED product_infos

\* operator[] makes an entry for a session that has none.  The retained product
\* info, if any, is sent at once.  The hook that follows has the listener publish
\* positions and orders again: a Publish.
Subscribe(k) ==
  LET s == k.session
      theirs == IF session_to_products[s] = None THEN {} ELSE session_to_products[s]
      info == product_infos[k.product]
  IN  /\ k.do = "subscribe"
      /\ session_to_products' = [session_to_products EXCEPT ![s] = theirs \cup {k.product}]
      /\ product_to_sessions' = [product_to_sessions EXCEPT ![k.product] = @ \cup {s}]
      /\ sending' = IF info = 0 THEN {} ELSE {<<s, Msg("info", k.product, info)>>}
      /\ UNCHANGED product_infos

Unsubscribe(k) ==
  LET s == k.session
      theirs == session_to_products[s]
  IN  /\ k.do = "unsubscribe"
      /\ session_to_products' = [session_to_products EXCEPT ![s] =
           IF theirs = None THEN None ELSE theirs \ {k.product}]
      /\ product_to_sessions' = [product_to_sessions EXCEPT ![k.product] = @ \ {s}]
      /\ UNCHANGED <<product_infos, sending>>

Broadcast(k) ==
  /\ k.do \in Kinds
  /\ sending' = {<<s, Msg(k.do, k.product, k.version)>> : s \in product_to_sessions[k.product]}
  /\ UNCHANGED serverVars

Retain(k) ==
  /\ k.do = "retain"
  /\ product_infos' = [product_infos EXCEPT ![k.product] = k.version]
  /\ UNCHANGED <<session_to_products, product_to_sessions, sending>>

RunTask ==
  \E t \in DOMAIN tasks :
    /\ TakeTask(t)
    /\ LET k == Head(tasks[t])
       IN  AddSession(k) \/ RemoveSession(k) \/ Subscribe(k) \/ Unsubscribe(k)
             \/ Broadcast(k) \/ Retain(k)

\* send_message on the worker: enqueue, then (SendKick) post do_write.  The io
\* thread may run between the two.
Send ==
  \E one \in sending :
    LET s == one[1]
    IN  /\ kicking = None
        /\ sending' = sending \ {one}
        /\ IF active[s] = "open"
           THEN /\ write_queue' = [write_queue EXCEPT ![s]["worker"] = Append(@, one[2])]
                /\ owed' = [owed EXCEPT ![s] = Append(@, one[2])]
                /\ kicking' = s
           ELSE UNCHANGED <<write_queue, owed, kicking>>
        /\ UNCHANGED <<server, tasks, serverVars, active, reading, kicks, writing,
                       in_flight, informed, requests, version>>

SendKick ==
  /\ kicking # None
  /\ kicks' = [kicks EXCEPT ![kicking] = @ + 1]
  /\ kicking' = None
  /\ UNCHANGED <<server, tasks, serverVars, sending, active, reading, write_queue,
                 writing, in_flight, clientVars, requests, version>>
-----------------------------------------------------------------------------
(* stop(): running_ is cleared, the worker joined, then the sessions it    *)
(* knew are closed (a REMOVE each, which nobody runs) and the maps         *)
(* cleared.                                                                *)

StopServer ==
  /\ server = "running" /\ server' = "stopping"
  /\ UNCHANGED <<tasks, serverVars, sending, kicking, active, reading, writeVars,
                 clientVars, requests, version>>

CloseSessions ==
  /\ server = "stopping" /\ sending = {} /\ kicking = None
  /\ server' = "stopped"
  /\ active' = [s \in Session |-> IF session_to_products[s] # None THEN "closed" ELSE active[s]]
  /\ session_to_products' = [s \in Session |-> None]
  /\ product_to_sessions' = [p \in Product |-> {}]
  /\ LET known == SetToSeq({s \in Session : session_to_products[s] # None})
     IN  tasks' = [tasks EXCEPT !["owner"] =
           [i \in DOMAIN known |-> Task("remove", known[i], None, 0)]]
  /\ UNCHANGED <<product_infos, sending, kicking, reading, writeVars,
                 clientVars, requests, version>>

PublisherStep == \E p \in Product : Publish(p) \/ PublishInfo(p)

ClientStep ==
  \E s \in Session :
    \/ Accept(s) \/ ReadFails(s) \/ WriteFails(s)
    \/ \E p \in Product : Request(s, "subscribe", p) \/ Request(s, "unsubscribe", p)

IoStep(s) == StartWrite(s) \/ WriteDone(s)

WorkerStep == RunTask \/ Send \/ SendKick

Next ==
  \/ PublisherStep \/ ClientStep \/ WorkerStep \/ StopServer \/ CloseSessions
  \/ \E s \in Session : IoStep(s)

Spec == Init /\ [][Next]_vars

\* The io thread and the worker run, and a write ends one way or the other.
FairSpec == Spec /\ WF_vars(WorkerStep) /\ \A s \in Session : WF_vars(IoStep(s))
-----------------------------------------------------------------------------
(* Properties.                                                             *)

\* The broadcast in write_buffer_, if it is not an ack that is being written.
OnTheWire(s) ==
  IF in_flight[s] = <<>> \/ Head(in_flight[s]).kind = "ack" THEN <<>> ELSE in_flight[s]

\* A subscriber is sent what the worker broadcast to it, each message once and in
\* order: none of them is dropped between send_message and the socket, "so all writes
\* (and the writing_ flag) are serialized": write_buffer_ is never refilled while
\* async_write still reads it.
NothingDropped ==
  \A s \in Session :
    /\ Len(in_flight[s]) <= 1 /\ (writing[s] <=> in_flight[s] # <<>>)
    /\ active[s] = "open" => owed[s] = OnTheWire(s) \o write_queue[s]["worker"]

\* A closed session is forgotten: SUBSCRIBE would re-create its entry through
\* operator[], but none can follow its REMOVE, so once that has been run (or the
\* server stopped) no map holds it, and no broadcast is sent to it for ever.
ClosedSessionForgotten ==
  \A s \in Session :
    /\ active[s] = "closed"
    /\ \A i \in DOMAIN tasks["io"] : tasks["io"][i].session # s
    => session_to_products[s] = None /\ \A p \in Product : s \notin product_to_sessions[p]

Settled ==
  /\ WorkerReady /\ \A t \in DOMAIN tasks : tasks[t] = <<>>
  /\ \A s \in Session : active[s] = "open" => \A t \in Enqueuer : write_queue[s][t] = <<>>
  /\ \A s \in Session : in_flight[s] = <<>>

\* "is replayed to each newly subscribed trader": once all tasks are done and
\* everything is written, a subscriber has the product info published last, or, if it
\* subscribed between that one's broadcast and its retention, the one before.
InfoReplayed ==
  Settled => \A s \in Session, p \in Product :
    active[s] = "open" /\ s \in product_to_sessions[p]
      => informed[s][p] >= version[p]["info"] - 1

\* Whatever the worker sends an open session reaches the client in the end.
EverythingArrives ==
  \A s \in Session : []<>(active[s] # "open" \/ owed[s] = <<>>)
=============================================================================
