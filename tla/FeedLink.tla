------------------------------ MODULE FeedLink ------------------------------
(***************************************************************************)
(* TcpClientBase (connection_handlers/tcp/tcp_client_base.{hpp,cpp}) and   *)
(* the consumer it feeds: OrderHandler::on_listener_status, on_pricer_     *)
(* status and Pricer::on_listener_status, which subscribe whenever the     *)
(* link comes up.                                                          *)
(*                                                                         *)
(* The client's io thread runs one completion handler at a time; the       *)
(* consumer's thread takes status updates off its queue and posts its      *)
(* requests to the io thread.  A pending read or write is "none",          *)
(* "pending" or "aborted" (its socket was closed under it; the handler     *)
(* will run with an error).  The peer and the wire are external: the peer  *)
(* may be away, and a connection may break, at any time.                   *)
(***************************************************************************)
EXTENDS Integers, Sequences, SequencesExt

CONSTANTS
  Product,    \* the consumer's subscriptions
  MaxBreaks,  \* bound: connections that break
  MaxBacklog  \* bound: status updates the consumer has not taken when redialling

ASSUME LinkAssumption ==
  MaxBreaks \in Nat /\ MaxBacklog \in Nat \ {0} /\ IsFiniteSet(Product)

VARIABLES
  running,       \* running_
  connected,     \* connected_
  dialing,       \* async_connect is pending
  timer,         \* the reconnect timer is armed
  read_op, write_op,
  write_queue,   \* products whose subscribe request is queued
  writing,       \* writing_
  posted,        \* handlers posted to the io thread, oldest first
  joined,        \* the io thread has ended
  status,        \* on the consumer's queue: the `connected` of each status update
  link_up,       \* the consumer's listener_connected_
  broken,        \* the connection is broken, the handlers have yet to see it
  peer_up,       \* is the peer's server listening?
  subscribed,    \* what the peer has for this connection
  breaks

consumerVars == <<status, link_up>>
peerVars == <<broken, peer_up, subscribed, breaks>>
ioVars == <<connected, dialing, timer, read_op, write_op, write_queue, writing>>
vars == <<running, ioVars, posted, joined, consumerVars, peerVars>>

Teardown == "teardown"

\* start() has posted the first do_connect, which has run.
Init ==
  /\ running = TRUE /\ connected = FALSE /\ dialing = TRUE /\ timer = FALSE
  /\ read_op = "none" /\ write_op = "none"
  /\ write_queue = <<>> /\ writing = FALSE
  /\ posted = <<>> /\ joined = FALSE
  /\ status = <<FALSE>> /\ link_up = FALSE
  /\ broken = FALSE /\ peer_up \in BOOLEAN /\ subscribed = {} /\ breaks = 0
-----------------------------------------------------------------------------
(* The io thread.                                                          *)

\* The error path of async_connect's handler: try again later.
DialFails ==
  /\ dialing /\ ~peer_up
  /\ dialing' = FALSE
  /\ IF running
     THEN timer' = TRUE /\ status' = Append(status, FALSE)
     ELSE UNCHANGED <<timer, status>>
  /\ UNCHANGED <<running, connected, read_op, write_op, write_queue, writing, posted,
                 joined, link_up, peerVars>>

DialSucceeds ==
  /\ dialing /\ peer_up
  /\ dialing' = FALSE
  /\ broken' = FALSE /\ subscribed' = {}
  /\ IF running
     THEN connected' = TRUE /\ status' = Append(status, TRUE) /\ read_op' = "pending"
     ELSE UNCHANGED <<connected, status, read_op>>
  /\ UNCHANGED <<running, timer, write_op, write_queue, writing, posted, joined, link_up,
                 peer_up, breaks>>

\* do_connect, from the timer.  Handlers aborted by the close were queued when
\* it happened, an interval before the timer, and have run.
Redial ==
  /\ timer /\ running
  /\ read_op # "aborted" /\ write_op # "aborted" /\ Len(status) < MaxBacklog
  /\ timer' = FALSE /\ dialing' = TRUE
  /\ writing' = FALSE /\ write_queue' = <<>>
  /\ status' = Append(status, FALSE)
  /\ UNCHANGED <<running, connected, read_op, write_op, posted, joined, link_up, peerVars>>

Abort(op) == IF op = "pending" THEN "aborted" ELSE op

\* Mutant: the requests queued against the dead link are dropped at once.
CloseSocketClears(read, write) ==
  /\ read_op' = Abort(read) /\ write_op' = Abort(write)
  /\ connected' = FALSE
  /\ status' = IF connected /\ running THEN Append(status, FALSE) ELSE status
  /\ write_queue' = <<>>

\* close_socket, with what is left pending aborted.  The consumer is told,
\* unless stop() has begun.
CloseSocket(read, write) ==
  /\ read_op' = Abort(read) /\ write_op' = Abort(write)
  /\ connected' = FALSE
  /\ status' = IF connected /\ running THEN Append(status, FALSE) ELSE status
  /\ UNCHANGED write_queue

\* The handler that sees an error first closes and arms the timer; the other one
\* finds connected_ cleared.
LoseLink(read, write) ==
  IF connected
  THEN CloseSocket(read, write) /\ timer' = running
  ELSE /\ read_op' = read /\ write_op' = write
       /\ UNCHANGED <<connected, status, write_queue, timer>>

\* do_read's handler with an error; once stop() has begun it does nothing.
ReadFails ==
  /\ read_op = "aborted" \/ (read_op = "pending" /\ broken)
  /\ IF running
     THEN LoseLink("none", write_op)
     ELSE /\ read_op' = "none"
          /\ UNCHANGED <<connected, status, write_queue, timer, write_op>>
  /\ UNCHANGED <<running, dialing, writing, posted, joined, link_up, peerVars>>

\* do_write's handler with an error.
WriteFails ==
  /\ write_op = "aborted" \/ (write_op = "pending" /\ broken)
  /\ writing' = FALSE
  /\ LoseLink(read_op, "none")
  /\ UNCHANGED <<running, dialing, posted, joined, link_up, peerVars>>

\* ...and without: the request is with the peer, on to the next one.
WriteDone ==
  /\ write_op = "pending" /\ ~broken
  /\ subscribed' = subscribed \cup {Head(write_queue)}
  /\ write_queue' = Tail(write_queue)
  /\ writing' = (Tail(write_queue) # <<>>)
  /\ write_op' = IF Tail(write_queue) # <<>> THEN "pending" ELSE "none"
  /\ UNCHANGED <<running, connected, dialing, timer, read_op, posted, joined,
                 consumerVars, broken, peer_up, breaks>>

\* The write had completed before the close: do_write goes on to the next request,
\* on a socket that is closed.
WriteDoneLate ==
  /\ write_op = "aborted"
  /\ write_queue' = Tail(write_queue)
  /\ writing' = (Tail(write_queue) # <<>>)
  /\ write_op' = IF Tail(write_queue) # <<>> THEN "aborted" ELSE "none"
  /\ UNCHANGED <<running, connected, dialing, timer, read_op, posted, joined,
                 consumerVars, peerVars>>

\* Mutant: a request that finds the writer busy is left out.
RunPostedUnlessWriting ==
  /\ posted # <<>> /\ Head(posted) # Teardown
  /\ posted' = Tail(posted)
  /\ IF connected /\ ~writing
     THEN /\ write_queue' = Append(write_queue, Head(posted))
          /\ writing' = TRUE
          /\ write_op' = "pending"
     ELSE UNCHANGED <<write_queue, writing, write_op>>
  /\ UNCHANGED <<running, connected, dialing, timer, read_op, joined, consumerVars, peerVars>>

\* The handler send_subscribe_request posts: enqueue_write, or nothing when the
\* link is down.
RunPostedRequest ==
  /\ posted # <<>> /\ Head(posted) # Teardown
  /\ posted' = Tail(posted)
  /\ IF connected
     THEN /\ write_queue' = Append(write_queue, Head(posted))
          /\ writing' = TRUE
          /\ write_op' = IF writing THEN write_op ELSE "pending"
     ELSE UNCHANGED <<write_queue, writing, write_op>>
  /\ UNCHANGED <<running, connected, dialing, timer, read_op, joined, consumerVars, peerVars>>

\* The handler stop() posts: timer, socket, work guard.
RunTeardown ==
  /\ posted # <<>> /\ Head(posted) = Teardown
  /\ posted' = Tail(posted)
  /\ timer' = FALSE
  /\ CloseSocket(read_op, write_op)
  /\ UNCHANGED <<running, dialing, writing, joined, link_up, peerVars>>
\* run() returns: the work guard is gone and no operation is pending.
IoThreadEnds ==
  /\ ~running /\ ~joined /\ posted = <<>>
  /\ ~dialing /\ read_op = "none" /\ write_op = "none"
  /\ joined' = TRUE
  /\ UNCHANGED <<running, ioVars, posted, consumerVars, peerVars>>
-----------------------------------------------------------------------------
(* The consumer's thread.                                                  *)

\* on_listener_status, on_pricer_status: subscribe on the edge.
TakeStatus ==
  /\ running /\ status # <<>>
  /\ status' = Tail(status)
  /\ link_up' = Head(status)
  /\ IF ~link_up /\ Head(status)
     THEN \E order \in SetToSeqs(Product) : posted' = posted \o order
     ELSE UNCHANGED posted
  /\ UNCHANGED <<running, ioVars, joined, peerVars>>

\* Mutant: the teardown is left to the destructor.
StopWithoutTeardown ==
  /\ running /\ running' = FALSE
  /\ UNCHANGED <<ioVars, posted, joined, consumerVars, peerVars>>

Stop ==
  /\ running /\ running' = FALSE
  /\ posted' = Append(posted, Teardown)
  /\ UNCHANGED <<ioVars, joined, consumerVars, peerVars>>
-----------------------------------------------------------------------------
(* The peer and the wire (external).                                       *)

PeerStarts ==
  /\ ~peer_up /\ peer_up' = TRUE
  /\ UNCHANGED <<running, ioVars, posted, joined, consumerVars, broken, subscribed, breaks>>

PeerStops ==
  /\ peer_up /\ breaks < MaxBreaks
  /\ peer_up' = FALSE /\ broken' = TRUE /\ subscribed' = {} /\ breaks' = breaks + 1
  /\ UNCHANGED <<running, ioVars, posted, joined, consumerVars>>

ConnectionBreaks ==
  /\ connected /\ ~broken /\ breaks < MaxBreaks
  /\ broken' = TRUE /\ subscribed' = {} /\ breaks' = breaks + 1
  /\ UNCHANGED <<running, ioVars, posted, joined, consumerVars, peer_up>>

\* Dials end, handlers run, the timer fires.
IoStep ==
  \/ DialFails \/ DialSucceeds \/ Redial \/ ReadFails \/ WriteFails
  \/ WriteDone \/ WriteDoneLate \/ RunPostedRequest \/ RunTeardown \/ IoThreadEnds

PeerStep == PeerStarts \/ PeerStops \/ ConnectionBreaks

Next == IoStep \/ TakeStatus \/ Stop \/ PeerStep

Spec == Init /\ [][Next]_vars

\* Both threads run.
FairSpec ==
  /\ Spec
  /\ WF_vars(DialFails) /\ WF_vars(DialSucceeds) /\ WF_vars(Redial)
  /\ WF_vars(ReadFails) /\ WF_vars(WriteFails \/ WriteDone \/ WriteDoneLate)
  /\ WF_vars(RunPostedRequest) /\ WF_vars(RunTeardown) /\ WF_vars(IoThreadEnds)
  /\ WF_vars(TakeStatus)
-----------------------------------------------------------------------------
(* Properties.                                                             *)

\* "The buffer has to outlive the async operation": while a write is pending,
\* aborted ones included, the string it reads is still at the front of the queue.
BufferOutlivesWrite == write_op # "none" => write_queue # <<>>

\* "a peer restart does not silently end the feed": if the peer stays up, every
\* subscription is with it in the end, however often the link broke before and
\* whatever was in flight when it did.
FeedResumes == <>[](running /\ peer_up) => <>[](subscribed = Product)

\* stop() returns: the io thread runs out of work.
StopReturns == ~running ~> joined
=============================================================================
