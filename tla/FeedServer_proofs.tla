-------------------------- MODULE FeedServer_proofs --------------------------
(***************************************************************************)
(* What the broadcast server keeps whatever its three threads do, for any  *)
(* sessions, products and bounds: no broadcast is lost between             *)
(* send_message and the socket, and a closed session is forgotten.         *)
(*                                                                         *)
(* The worker alone touches the subscription maps and the io thread alone  *)
(* the socket, so each half of the invariant speaks of one thread and of   *)
(* the queue that leads to it: TaskFacts of task_queue_ and the maps,      *)
(* WriteFacts of write_queue_ and write_buffer_.                           *)
(***************************************************************************)
EXTENDS FeedServer, SequenceTheorems, TLAPS

\* What the io thread and the publisher enqueue.
ClientTask ==
  [do : {"add", "remove"}, session : Session, product : {None}, version : {0}]
    \cup [do : {"subscribe", "unsubscribe"}, session : Session, product : Product, version : {0}]
PublisherTask == [do : {"info", "data", "retain"}, session : {None}, product : Product, version : Nat]

Ack == [kind : {"ack"}, product : Product, version : {0}]
BroadcastMsg == [kind : Kinds, product : Product, version : Nat]

Thread == {"io", "publisher", "owner"}

TasksOK ==
  /\ server \in {"running", "stopping", "stopped"}
  /\ DOMAIN tasks = Thread /\ tasks = [t \in Thread |-> tasks[t]]
  /\ tasks["io"] \in Seq(ClientTask)
  /\ tasks["publisher"] \in Seq(PublisherTask)
  /\ tasks["owner"] # <<>> => server = "stopped"

MapsOK ==
  /\ session_to_products \in [Session -> {None} \cup SUBSET Product]
  /\ product_to_sessions \in [Product -> SUBSET Session]
  /\ product_infos \in [Product -> Nat]
  /\ sending \in SUBSET (Session \X BroadcastMsg)
  /\ kicking \in {None} \cup Session
  /\ version \in [Product -> [Kinds -> Nat]]

SessionsOK ==
  /\ active \in [Session -> {"none", "open", "closed"}]
  /\ reading \in [Session -> BOOLEAN]
  /\ kicks \in [Session -> Nat]
  /\ requests \in [Session -> Nat]

WritesOK ==
  /\ writing \in [Session -> BOOLEAN]
  /\ write_queue \in [Session -> [Enqueuer -> Seq(Ack \cup BroadcastMsg)]]
  /\ in_flight \in [Session -> Seq(Ack \cup BroadcastMsg)]
  /\ owed \in [Session -> Seq(BroadcastMsg)]
  /\ informed \in [Session -> [Product -> Nat]]

ServerTypeOK == TasksOK /\ MapsOK /\ SessionsOK /\ WritesOK

\* No task of s is waiting.
NoTask(s) == \A i \in DOMAIN tasks["io"] : tasks["io"][i].session # s

Forgotten(s) == session_to_products[s] = None /\ \A p \in Product : s \notin product_to_sessions[p]

\* The two maps agree: a product's subscriber has the product in its own entry.
MapsAgree ==
  \A s \in Session, p \in Product :
    s \in product_to_sessions[p] => session_to_products[s] # None /\ p \in session_to_products[s]

\* A connection that has not been accepted has left no trace.
Untouched ==
  \A s \in Session : active[s] = "none" =>
    /\ Forgotten(s) /\ NoTask(s) /\ ~reading[s]
    /\ in_flight[s] = <<>> /\ owed[s] = <<>> /\ write_queue[s]["worker"] = <<>>

\* A session's ADD comes before everything else of it, and finds no entry.
AddIsFirst ==
  \A i \in DOMAIN tasks["io"] : tasks["io"][i].do = "add" =>
    /\ Forgotten(tasks["io"][i].session)
    /\ \A j \in DOMAIN tasks["io"] : j < i => tasks["io"][j].session # tasks["io"][i].session

\* The last task of s is its REMOVE.
RemoveIsLast(s) ==
  \E i \in DOMAIN tasks["io"] :
    /\ tasks["io"][i].session = s /\ tasks["io"][i].do = "remove"
    /\ \A j \in DOMAIN tasks["io"] : j > i => tasks["io"][j].session # s

\* While the worker lives, a closed session is forgotten or still to be removed.
ClosedLeaves ==
  \A s \in Session : active[s] = "closed" /\ server # "stopped" =>
    RemoveIsLast(s) \/ (NoTask(s) /\ Forgotten(s))

\* stop() has cleared the maps.
StopClears == server = "stopped" => \A s \in Session : Forgotten(s)

TaskFacts == MapsAgree /\ Untouched /\ AddIsFirst /\ ClosedLeaves /\ StopClears

\* The io thread enqueues acks only, the worker broadcasts only.
LanesApart ==
  \A s \in Session :
    /\ write_queue[s]["io"] \in Seq(Ack)
    /\ write_queue[s]["worker"] \in Seq(BroadcastMsg)

WriteFacts == LanesApart /\ NothingDropped

\* The inductive invariant.
ServerInv == ServerTypeOK /\ TaskFacts /\ WriteFacts
-----------------------------------------------------------------------------
(* Sequences.                                                              *)

\* What is in a queue after an enqueue.
LEMMA AppendFacts ==
  ASSUME NEW S, NEW q \in Seq(S), NEW k \in S
  PROVE  /\ Append(q, k) \in Seq(S)
         /\ DOMAIN Append(q, k) = DOMAIN q \cup {Len(q) + 1}
         /\ \A i \in DOMAIN q : Append(q, k)[i] = q[i] /\ i \in Nat /\ i < Len(q) + 1
         /\ Append(q, k)[Len(q) + 1] = k
         /\ Len(q) \in Nat
  OBVIOUS

\* What is in a queue after a dequeue.
LEMMA TailFacts ==
  ASSUME NEW S, NEW q \in Seq(S), q # <<>>
  PROVE  /\ Tail(q) \in Seq(S)
         /\ 1 \in DOMAIN q /\ Head(q) = q[1] /\ q[1] \in S
         /\ \A i \in DOMAIN Tail(q) : i \in Nat /\ i + 1 \in DOMAIN q /\ Tail(q)[i] = q[i + 1]
         /\ \A i \in DOMAIN q :
              i \in Nat /\ (i = 1 \/ (i > 1 /\ i - 1 \in DOMAIN Tail(q) /\ Tail(q)[i - 1] = q[i]))
  OBVIOUS

\* A queue that holds one element.
LEMMA AtMostOne ==
  ASSUME NEW S, NEW q \in Seq(S), Len(q) <= 1, q # <<>>
  PROVE  Tail(q) = <<>> /\ q = <<Head(q)>> /\ Head(q) \in S
<1>1. Len(q) \in Nat /\ Len(q) # 0
  OBVIOUS
<1>2. Len(q) = 1
  BY <1>1
<1>3. Head(q) = q[1] /\ q[1] \in S
  BY <1>2
<1>4. Tail(q) \in Seq(S) /\ Len(Tail(q)) = 0
  BY <1>2
<1>5. Tail(q) = <<>>
  BY <1>4
<1>6. q = <<q[1]>>
  BY <1>2
<1> QED
  BY <1>3, <1>5, <1>6

\* A queue of broadcasts is a queue of messages.
LEMMA WiderSeq ==
  ASSUME NEW S, NEW T, S \subseteq T
  PROVE  Seq(S) \subseteq Seq(T)
  OBVIOUS
-----------------------------------------------------------------------------
(* Types.                                                                  *)

\* A request, an accept or a close enqueues one well-formed task.
LEMMA IoTaskTypes ==
  ASSUME TasksOK, NEW s \in Session, NEW do, NEW p, IoTask(do, s, p),
         Task(do, s, p, 0) \in ClientTask, UNCHANGED server
  PROVE  TasksOK'
<1>1. tasks'["io"] = Append(tasks["io"], Task(do, s, p, 0))
  BY DEF IoTask, TasksOK, Thread
<1>2. tasks'["publisher"] = tasks["publisher"] /\ tasks'["owner"] = tasks["owner"]
  BY DEF IoTask, TasksOK, Thread
<1>3. DOMAIN tasks' = Thread /\ tasks' = [t \in Thread |-> tasks'[t]]
  BY DEF IoTask, TasksOK, Thread
<1>4. Append(tasks["io"], Task(do, s, p, 0)) \in Seq(ClientTask)
  BY AppendFacts DEF TasksOK
<1> QED
  BY <1>1, <1>2, <1>3, <1>4 DEF TasksOK

\* The tasks the io thread makes are well formed.
LEMMA ClientTasks ==
  ASSUME NEW s \in Session
  PROVE  /\ \A do \in {"add", "remove"} : Task(do, s, None, 0) \in ClientTask
         /\ \A do \in {"subscribe", "unsubscribe"}, p \in Product : Task(do, s, p, 0) \in ClientTask
  BY DEF Task, ClientTask

\* Any step leaves task_queue_ well formed.
LEMMA TasksStep ==
  ASSUME TasksOK, MapsOK, [Next]_vars
  PROVE  TasksOK'
<1>1. ASSUME NEW p \in Product, Publish(p)
      PROVE  TasksOK'
  <2> DEFINE k == Task("data", None, p, version[p]["data"] + 1)
  <2>1. k \in PublisherTask
    BY DEF Task, PublisherTask, MapsOK, Kinds
  <2>2. Append(tasks["publisher"], k) \in Seq(PublisherTask)
    BY <2>1, AppendFacts DEF TasksOK
  <2>3. tasks' = [tasks EXCEPT !["publisher"] = Append(@, k)] /\ UNCHANGED server
    BY <1>1 DEF Publish
  <2> HIDE DEF k
  <2> QED
    BY <2>2, <2>3 DEF TasksOK, Thread
<1>2. ASSUME NEW p \in Product, PublishInfo(p)
      PROVE  TasksOK'
  <2> DEFINE v == version[p]["info"] + 1
             ks == <<Task("info", None, p, v), Task("retain", None, p, v)>>
  <2>0. v \in Nat
    BY DEF MapsOK, Kinds
  <2>1. Task("info", None, p, v) \in PublisherTask /\ Task("retain", None, p, v) \in PublisherTask
    BY <2>0 DEF Task, PublisherTask
  <2>2. ks \in Seq(PublisherTask)
    BY <2>1
  <2>3. tasks' = [tasks EXCEPT !["publisher"] = @ \o ks] /\ UNCHANGED server
    BY <1>2 DEF PublishInfo
  <2> HIDE DEF v, ks
  <2>4. tasks["publisher"] \o ks \in Seq(PublisherTask)
    BY <2>2 DEF TasksOK
  <2> QED
    BY <2>3, <2>4 DEF TasksOK, Thread
<1>3. ASSUME NEW s \in Session, Accept(s)
      PROVE  TasksOK'
  BY <1>3, IoTaskTypes, ClientTasks DEF Accept
<1>4. ASSUME NEW s \in Session, Close(s), UNCHANGED server
      PROVE  TasksOK'
  BY <1>4, IoTaskTypes, ClientTasks DEF Close
<1>5. ASSUME NEW s \in Session, NEW p \in Product,
             Request(s, "subscribe", p) \/ Request(s, "unsubscribe", p)
      PROVE  TasksOK'
  BY <1>5, IoTaskTypes, ClientTasks DEF Request
<1>6. ASSUME NEW s \in Session, ReadFails(s) \/ WriteFails(s)
      PROVE  TasksOK'
  BY <1>4, <1>6 DEF ReadFails, WriteFails
<1>7. ASSUME NEW s \in Session, WriteDone(s)
      PROVE  TasksOK'
  <2>1. UNCHANGED server
    BY <1>7 DEF WriteDone
  <2>2. UNCHANGED tasks \/ Close(s)
    BY <1>7 DEF WriteDone
  <2> QED
    BY <2>1, <2>2, <1>4 DEF TasksOK
<1>8. ASSUME NEW t \in DOMAIN tasks, TakeTask(t)
      PROVE  TasksOK'
  <2>1. t \in {"io", "publisher", "owner"} /\ tasks[t] # <<>> /\ server = "running"
        /\ UNCHANGED server /\ tasks' = [tasks EXCEPT ![t] = Tail(@)]
    BY <1>8 DEF TakeTask, WorkerReady, TasksOK, Thread
  <2>2. t # "owner"
    BY <2>1 DEF TasksOK
  <2>3. CASE t = "io"
    <3>1. Tail(tasks["io"]) \in Seq(ClientTask)
      BY <2>1, <2>3, TailFacts DEF TasksOK
    <3> QED
      BY <2>1, <2>3, <3>1 DEF TasksOK, Thread
  <2>4. CASE t = "publisher"
    <3>1. Tail(tasks["publisher"]) \in Seq(PublisherTask)
      BY <2>1, <2>4, TailFacts DEF TasksOK
    <3> QED
      BY <2>1, <2>4, <3>1 DEF TasksOK, Thread
  <2> QED
    BY <2>1, <2>2, <2>3, <2>4
<1>9. CASE CloseSessions
  <2> DEFINE known == SetToSeq({s \in Session : session_to_products[s] # None})
             own == [i \in DOMAIN known |-> Task("remove", known[i], None, 0)]
  <2>1. tasks' = [tasks EXCEPT !["owner"] = own] /\ server' = "stopped"
    BY <1>9 DEF CloseSessions
  <2> HIDE DEF own
  <2> QED
    BY <2>1 DEF TasksOK, Thread
<1>10. CASE UNCHANGED <<tasks, server>>
  BY <1>10 DEF TasksOK
<1>11. CASE StopServer
  <2>1. UNCHANGED tasks /\ server = "running" /\ server' = "stopping"
    BY <1>11 DEF StopServer
  <2> QED
    BY <2>1 DEF TasksOK
<1>12. ASSUME NEW s \in Session, StartWrite(s)
       PROVE  UNCHANGED <<tasks, server>>
  BY <1>12 DEF StartWrite
<1>13. CASE Send \/ SendKick \/ UNCHANGED vars
  BY <1>10, <1>13 DEF Send, SendKick, vars
<1>14. CASE RunTask
  BY <1>8, <1>14 DEF RunTask
<1> QED
  BY <1>1, <1>2, <1>3, <1>5, <1>6, <1>7, <1>9, <1>10, <1>11, <1>12, <1>13, <1>14
  DEF Next, PublisherStep, ClientStep, WorkerStep, IoStep

\* The task the worker takes is a client's or the publisher's.
LEMMA TaskTaken ==
  ASSUME TasksOK, NEW t \in DOMAIN tasks, TakeTask(t)
  PROVE  /\ server = "running" /\ tasks[t] # <<>> /\ tasks' = [tasks EXCEPT ![t] = Tail(@)]
         /\ \/ t = "io" /\ Head(tasks["io"]) \in ClientTask
            \/ t = "publisher" /\ Head(tasks["publisher"]) \in PublisherTask
<1>1. t \in {"io", "publisher", "owner"} /\ tasks[t] # <<>> /\ server = "running"
      /\ tasks' = [tasks EXCEPT ![t] = Tail(@)]
  BY DEF TakeTask, WorkerReady, TasksOK, Thread
<1>2. t # "owner"
  BY <1>1 DEF TasksOK
<1>3. t = "io" => Head(tasks["io"]) \in ClientTask
  BY <1>1, TailFacts DEF TasksOK
<1>4. t = "publisher" => Head(tasks["publisher"]) \in PublisherTask
  BY <1>1, TailFacts DEF TasksOK
<1> QED
  BY <1>1, <1>2, <1>3, <1>4

\* The worker's tasks keep the maps well typed.
LEMMA WorkerMaps ==
  ASSUME MapsOK, NEW k, k \in ClientTask \/ k \in PublisherTask,
         AddSession(k) \/ RemoveSession(k) \/ Subscribe(k) \/ Unsubscribe(k)
           \/ Broadcast(k) \/ Retain(k),
         UNCHANGED <<kicking, version>>
  PROVE  MapsOK'
<1>1. CASE AddSession(k)
  <2>1. k.session \in Session
    BY <1>1 DEF AddSession, ClientTask, PublisherTask
  <2> QED
    BY <1>1, <2>1 DEF AddSession, MapsOK
<1>2. CASE RemoveSession(k)
  <2>1. k.session \in Session
    BY <1>2 DEF RemoveSession, ClientTask, PublisherTask
  <2>2. session_to_products' = [session_to_products EXCEPT ![k.session] = None]
        /\ UNCHANGED <<product_infos, sending>>
    BY <1>2 DEF RemoveSession
  <2>3. product_to_sessions' \in [Product -> SUBSET Session]
    BY <1>2 DEF RemoveSession, MapsOK
  <2> QED
    BY <2>1, <2>2, <2>3 DEF MapsOK
<1>3. CASE Subscribe(k)
  <2> DEFINE s == k.session
             theirs == IF session_to_products[s] = None THEN {} ELSE session_to_products[s]
             info == product_infos[k.product]
  <2>1. s \in Session /\ k.product \in Product
    BY <1>3 DEF Subscribe, ClientTask, PublisherTask
  <2>2. theirs \in SUBSET Product /\ info \in Nat
    BY <2>1 DEF MapsOK
  <2>3. session_to_products' = [session_to_products EXCEPT ![s] = theirs \cup {k.product}]
        /\ product_to_sessions' = [product_to_sessions EXCEPT ![k.product] = @ \cup {s}]
        /\ sending' = (IF info = 0 THEN {} ELSE {<<s, Msg("info", k.product, info)>>})
        /\ UNCHANGED product_infos
    BY <1>3 DEF Subscribe
  <2>4. Msg("info", k.product, info) \in BroadcastMsg
    BY <2>1, <2>2 DEF Msg, BroadcastMsg, Kinds
  <2> HIDE DEF s, theirs, info
  <2>5. sending' \in SUBSET (Session \X BroadcastMsg)
    BY <2>1, <2>3, <2>4
  <2> QED
    BY <2>1, <2>2, <2>3, <2>5 DEF MapsOK
<1>4. CASE Unsubscribe(k)
  <2>1. k.session \in Session /\ k.product \in Product
    BY <1>4 DEF Unsubscribe, ClientTask, PublisherTask
  <2>2. session_to_products' = [session_to_products EXCEPT ![k.session] =
          IF session_to_products[k.session] = None THEN None
          ELSE session_to_products[k.session] \ {k.product}]
        /\ product_to_sessions' = [product_to_sessions EXCEPT ![k.product] = @ \ {k.session}]
        /\ UNCHANGED <<product_infos, sending>>
    BY <1>4 DEF Unsubscribe
  <2> QED
    BY <2>1, <2>2 DEF MapsOK
<1>5. CASE Broadcast(k)
  <2>1. k.product \in Product /\ k.do \in Kinds /\ k.version \in Nat
    BY <1>5 DEF Broadcast, ClientTask, PublisherTask, Kinds
  <2>2. Msg(k.do, k.product, k.version) \in BroadcastMsg
    BY <2>1 DEF Msg, BroadcastMsg
  <2>3. sending' \in SUBSET (Session \X BroadcastMsg)
    BY <1>5, <2>1, <2>2 DEF Broadcast, MapsOK
  <2> QED
    BY <1>5, <2>3 DEF Broadcast, MapsOK, serverVars
<1>6. CASE Retain(k)
  <2>1. k.product \in Product /\ k.version \in Nat
    BY <1>6 DEF Retain, ClientTask, PublisherTask
  <2> QED
    BY <1>6, <2>1 DEF Retain, MapsOK
<1> QED
  BY <1>1, <1>2, <1>3, <1>4, <1>5, <1>6

\* Any step leaves the worker's own state well typed.
LEMMA MapsStep ==
  ASSUME TasksOK, MapsOK, [Next]_vars
  PROVE  MapsOK'
<1>1. ASSUME NEW p \in Product, Publish(p) \/ PublishInfo(p)
      PROVE  MapsOK'
  <2>1. UNCHANGED <<session_to_products, product_to_sessions, product_infos, sending, kicking>>
    BY <1>1 DEF Publish, PublishInfo, serverVars
  <2>2. version' = [version EXCEPT ![p]["data"] = version[p]["data"] + 1]
        \/ version' = [version EXCEPT ![p]["info"] = version[p]["info"] + 1]
    BY <1>1 DEF Publish, PublishInfo
  <2> QED
    BY <2>1, <2>2 DEF MapsOK, Kinds
<1>2. ASSUME NEW s \in Session,
             Accept(s) \/ ReadFails(s) \/ WriteFails(s) \/ StartWrite(s) \/ WriteDone(s)
      PROVE  MapsOK'
  <2>1. UNCHANGED <<serverVars, sending, kicking, version>>
    BY <1>2 DEF Accept, ReadFails, WriteFails, StartWrite, WriteDone
  <2> QED
    BY <2>1 DEF MapsOK, serverVars
<1>3. ASSUME NEW s \in Session, NEW do, NEW p, Request(s, do, p)
      PROVE  MapsOK'
  <2>1. UNCHANGED <<serverVars, sending, kicking, version>>
    BY <1>3 DEF Request
  <2> QED
    BY <2>1 DEF MapsOK, serverVars
<1>4. CASE RunTask
  <2>1. PICK t \in DOMAIN tasks :
          /\ TakeTask(t)
          /\ LET k == Head(tasks[t])
             IN  AddSession(k) \/ RemoveSession(k) \/ Subscribe(k) \/ Unsubscribe(k)
                   \/ Broadcast(k) \/ Retain(k)
    BY <1>4 DEF RunTask
  <2>2. Head(tasks[t]) \in ClientTask \/ Head(tasks[t]) \in PublisherTask
    BY <2>1, TaskTaken
  <2>3. UNCHANGED <<kicking, version>>
    BY <2>1 DEF TakeTask
  <2> QED
    BY <2>1, <2>2, <2>3, WorkerMaps
<1>5. CASE Send
  <2>1. PICK one \in sending :
          /\ sending' = sending \ {one}
          /\ kicking' = one[1] \/ UNCHANGED kicking
          /\ UNCHANGED <<serverVars, version>>
    BY <1>5 DEF Send
  <2>2. one[1] \in Session
    BY DEF MapsOK
  <2> QED
    BY <2>1, <2>2 DEF MapsOK, serverVars
<1>6. CASE SendKick
  BY <1>6 DEF SendKick, MapsOK, serverVars
<1>7. CASE CloseSessions
  <2>1. /\ session_to_products' = [s \in Session |-> None]
        /\ product_to_sessions' = [p \in Product |-> {}]
        /\ UNCHANGED <<product_infos, sending, kicking, version>>
    BY <1>7 DEF CloseSessions
  <2> QED
    BY <2>1 DEF MapsOK
<1>8. CASE StopServer \/ UNCHANGED vars
  BY <1>8 DEF StopServer, MapsOK, serverVars, vars
<1> QED
  BY <1>1, <1>2, <1>3, <1>4, <1>5, <1>6, <1>7, <1>8
  DEF Next, PublisherStep, ClientStep, WorkerStep, IoStep

\* Any step leaves the sessions' flags and counters well typed.
LEMMA SessionsStep ==
  ASSUME MapsOK, SessionsOK, [Next]_vars
  PROVE  SessionsOK'
<1>1. ASSUME NEW s \in Session, Accept(s)
      PROVE  SessionsOK'
  BY <1>1 DEF Accept, SessionsOK, writeVars
<1>2. ASSUME NEW s \in Session, NEW do, NEW p, Request(s, do, p)
      PROVE  SessionsOK'
  BY <1>2 DEF Request, SessionsOK
<1>3. ASSUME NEW s \in Session, ReadFails(s) \/ WriteFails(s)
      PROVE  SessionsOK'
  BY <1>3 DEF ReadFails, WriteFails, Close, SessionsOK, writeVars
<1>4. ASSUME NEW s \in Session, StartWrite(s)
      PROVE  SessionsOK'
  BY <1>4 DEF StartWrite, SessionsOK
<1>5. ASSUME NEW s \in Session, WriteDone(s)
      PROVE  SessionsOK'
  <2>1. UNCHANGED <<reading, kicks, requests>>
    BY <1>5 DEF WriteDone
  <2>2. UNCHANGED active \/ active' = [active EXCEPT ![s] = "closed"]
    BY <1>5 DEF WriteDone, Close
  <2> QED
    BY <2>1, <2>2 DEF SessionsOK
<1>6. ASSUME NEW p \in Product, Publish(p) \/ PublishInfo(p)
      PROVE  SessionsOK'
  BY <1>6 DEF Publish, PublishInfo, SessionsOK, writeVars
<1>7. CASE RunTask
  <2>1. UNCHANGED <<active, reading, writeVars, requests>>
    BY <1>7 DEF RunTask, TakeTask
  <2> QED
    BY <2>1 DEF SessionsOK, writeVars
<1>8. CASE Send \/ StopServer \/ UNCHANGED vars
  BY <1>8 DEF Send, StopServer, SessionsOK, writeVars, vars
<1>9. CASE SendKick
  <2>1. kicking \in Session
    BY <1>9 DEF SendKick, MapsOK
  <2> QED
    BY <1>9, <2>1 DEF SendKick, SessionsOK
<1>10. CASE CloseSessions
  <2>1. /\ active' = [s \in Session |->
              IF session_to_products[s] # None THEN "closed" ELSE active[s]]
        /\ UNCHANGED <<reading, kicks, requests>>
    BY <1>10 DEF CloseSessions, writeVars
  <2> QED
    BY <2>1 DEF SessionsOK
<1> QED
  BY <1>1, <1>2, <1>3, <1>4, <1>5, <1>6, <1>7, <1>8, <1>9, <1>10
  DEF Next, PublisherStep, ClientStep, WorkerStep, IoStep
-----------------------------------------------------------------------------
(* The write path.                                                         *)

\* What do_write leaves of one session when nothing else is in flight: the message it
\* takes, if any, is the one in write_buffer_, and no broadcast is lost or reordered.
LEMMA DoWriteFacts ==
  ASSUME WritesOK, LanesApart, NEW s \in Session, DoWrite(s, <<>>)
  PROVE  /\ writing' \in [Session -> BOOLEAN]
         /\ write_queue' \in [Session -> [Enqueuer -> Seq(Ack \cup BroadcastMsg)]]
         /\ in_flight' \in [Session -> Seq(Ack \cup BroadcastMsg)]
         /\ LanesApart'
         /\ \A r \in Session \ {s} : /\ in_flight'[r] = in_flight[r] /\ writing'[r] = writing[r]
                                     /\ write_queue'[r] = write_queue[r]
         /\ Len(in_flight'[s]) <= 1 /\ (writing'[s] <=> in_flight'[s] # <<>>)
         /\ active[s] = "open" => OnTheWire(s)' \o write_queue'[s]["worker"] = write_queue[s]["worker"]
<1> DEFINE AnyMsg == Ack \cup BroadcastMsg
<1>0. <<>> \in Seq(AnyMsg) /\ Len(<<>>) = 0
  OBVIOUS
<1>a. write_queue[s]["worker"] \in Seq(BroadcastMsg) /\ write_queue[s]["io"] \in Seq(Ack)
  BY DEF LanesApart
<1>1. CASE /\ active[s] # "open" \/ \A t \in Enqueuer : write_queue[s][t] = <<>>
           /\ writing' = [writing EXCEPT ![s] = FALSE]
           /\ in_flight' = [in_flight EXCEPT ![s] = <<>>]
           /\ UNCHANGED write_queue
  <2>1. in_flight'[s] = <<>> /\ writing'[s] = FALSE
    BY <1>1 DEF WritesOK
  <2>2. OnTheWire(s)' = <<>>
    BY <2>1 DEF OnTheWire
  <2>3. OnTheWire(s)' \o write_queue'[s]["worker"] = write_queue[s]["worker"]
    BY <1>1, <1>a, <2>2
  <2>4. writing' \in [Session -> BOOLEAN] /\ in_flight' \in [Session -> Seq(AnyMsg)]
    BY <1>1, <1>0 DEF WritesOK
  <2>5. LanesApart'
    BY <1>1 DEF LanesApart
  <2>6. \A r \in Session \ {s} : in_flight'[r] = in_flight[r] /\ writing'[r] = writing[r]
                                 /\ write_queue'[r] = write_queue[r]
    BY <1>1 DEF WritesOK
  <2>7. write_queue' \in [Session -> [Enqueuer -> Seq(AnyMsg)]]
    BY <1>1 DEF WritesOK
  <2> QED
    BY <1>0, <2>1, <2>3, <2>4, <2>5, <2>6, <2>7
<1>2. ASSUME NEW t \in Enqueuer, active[s] = "open", write_queue[s][t] # <<>>,
             writing' = [writing EXCEPT ![s] = TRUE],
             in_flight' = [in_flight EXCEPT ![s] = Append(<<>>, Head(write_queue[s][t]))],
             write_queue' = [write_queue EXCEPT ![s][t] = Tail(@)]
      PROVE  /\ writing' \in [Session -> BOOLEAN]
             /\ write_queue' \in [Session -> [Enqueuer -> Seq(AnyMsg)]]
             /\ in_flight' \in [Session -> Seq(AnyMsg)]
             /\ LanesApart'
             /\ \A r \in Session \ {s} : /\ in_flight'[r] = in_flight[r] /\ writing'[r] = writing[r]
                                         /\ write_queue'[r] = write_queue[r]
             /\ Len(in_flight'[s]) <= 1 /\ (writing'[s] <=> in_flight'[s] # <<>>)
             /\ OnTheWire(s)' \o write_queue'[s]["worker"] = write_queue[s]["worker"]
  <2>1. PICK m : m = Head(write_queue[s][t])
    OBVIOUS
  <2>2. write_queue[s][t] \in Seq(AnyMsg)
    BY DEF WritesOK
  <2>3. m \in AnyMsg /\ Tail(write_queue[s][t]) \in Seq(AnyMsg)
    BY <1>2, <2>1, <2>2, TailFacts
  <2>4. Append(<<>>, m) = <<m>> /\ <<m>> \in Seq(AnyMsg) /\ Len(<<m>>) = 1 /\ <<m>> # <<>> /\ Head(<<m>>) = m
    BY <2>3
  <2>5. in_flight' = [in_flight EXCEPT ![s] = <<m>>]
    BY <1>2, <2>1, <2>4
  <2>6. in_flight'[s] = <<m>> /\ writing'[s] = TRUE
    BY <1>2, <2>5 DEF WritesOK
  <2>7. writing' \in [Session -> BOOLEAN] /\ in_flight' \in [Session -> Seq(AnyMsg)]
    BY <1>2, <2>4, <2>5 DEF WritesOK
  <2>8. /\ write_queue' \in [Session -> [Enqueuer -> Seq(AnyMsg)]]
        /\ write_queue'[s][t] = Tail(write_queue[s][t])
        /\ \A u \in Enqueuer \ {t} : write_queue'[s][u] = write_queue[s][u]
        /\ \A r \in Session \ {s} : write_queue'[r] = write_queue[r]
    BY <1>2, <2>3 DEF WritesOK
  <2>9. \A r \in Session \ {s} : in_flight'[r] = in_flight[r] /\ writing'[r] = writing[r]
    BY <1>2, <2>5 DEF WritesOK
  <2>10. CASE t = "worker"
    <3>1. m \in BroadcastMsg /\ Tail(write_queue[s]["worker"]) \in Seq(BroadcastMsg)
      BY <1>2, <1>a, <2>1, <2>10, TailFacts
    <3>2. m.kind # "ack"
      BY <3>1 DEF BroadcastMsg, Kinds
    <3>3. OnTheWire(s)' = <<m>>
      BY <2>4, <2>6, <3>2 DEF OnTheWire
    <3>4. <<m>> \o Tail(write_queue[s]["worker"]) = write_queue[s]["worker"]
      BY <1>2, <1>a, <2>1, <2>10
    <3>5. LanesApart'
      BY <2>8, <2>10, <3>1 DEF LanesApart, Enqueuer
    <3>6. write_queue'[s]["worker"] = Tail(write_queue[s]["worker"])
      BY <2>8, <2>10
    <3>7. OnTheWire(s)' \o write_queue'[s]["worker"] = write_queue[s]["worker"]
      BY <3>3, <3>4, <3>6
    <3> QED
      BY <2>4, <2>6, <2>7, <2>8, <2>9, <3>5, <3>7
  <2>11. CASE t = "io"
    <3>1. m \in Ack /\ Tail(write_queue[s]["io"]) \in Seq(Ack)
      BY <1>2, <1>a, <2>1, <2>11, TailFacts
    <3>2. m.kind = "ack"
      BY <3>1 DEF Ack
    <3>3. OnTheWire(s)' = <<>>
      BY <2>4, <2>6, <3>2 DEF OnTheWire
    <3>4. write_queue'[s]["worker"] = write_queue[s]["worker"]
      BY <2>8, <2>11 DEF Enqueuer
    <3>5. <<>> \o write_queue[s]["worker"] = write_queue[s]["worker"]
      BY <1>a
    <3>6. LanesApart'
      BY <2>8, <2>11, <3>1 DEF LanesApart, Enqueuer
    <3> QED
      BY <2>4, <2>6, <2>7, <2>8, <2>9, <3>3, <3>4, <3>5, <3>6
  <2> QED
    BY <2>10, <2>11 DEF Enqueuer
<1>3. DoWrite(s, <<>>) =>
        \/ /\ active[s] # "open" \/ \A t \in Enqueuer : write_queue[s][t] = <<>>
           /\ writing' = [writing EXCEPT ![s] = FALSE]
           /\ in_flight' = [in_flight EXCEPT ![s] = <<>>]
           /\ UNCHANGED write_queue
        \/ \E t \in Enqueuer :
             /\ active[s] = "open" /\ write_queue[s][t] # <<>>
             /\ writing' = [writing EXCEPT ![s] = TRUE]
             /\ in_flight' = [in_flight EXCEPT ![s] = Append(<<>>, Head(write_queue[s][t]))]
             /\ write_queue' = [write_queue EXCEPT ![s][t] = Tail(@)]
  BY DEF DoWrite
<1> QED
  BY <1>1, <1>2, <1>3

\* The writer of one session is at work exactly while write_buffer_ is full, and then
\* a write that ends leaves nothing in flight.
LEMMA OneInFlight ==
  ASSUME WritesOK, NothingDropped, NEW s \in Session
  PROVE  /\ ~writing[s] => in_flight[s] = <<>>
         /\ in_flight[s] # <<>> =>
              /\ Tail(in_flight[s]) = <<>> /\ in_flight[s] = <<Head(in_flight[s])>>
              /\ Head(in_flight[s]) \in Ack \cup BroadcastMsg
<1>1. in_flight[s] \in Seq(Ack \cup BroadcastMsg) /\ Len(in_flight[s]) <= 1
  BY DEF WritesOK, NothingDropped
<1>2. ~writing[s] => in_flight[s] = <<>>
  BY DEF NothingDropped
<1> QED
  BY <1>1, <1>2, AtMostOne

\* A step that leaves the sessions' writers alone, and opens no session that has
\* something queued, keeps the write facts.
LEMMA WritersAtRest ==
  ASSUME WritesOK, WriteFacts, UNCHANGED <<writing, in_flight, owed, write_queue, informed>>,
         \A s \in Session : active'[s] = "open" /\ active[s] # "open" =>
           /\ in_flight[s] = <<>> /\ owed[s] = <<>> /\ write_queue[s]["worker"] = <<>>
  PROVE  WritesOK' /\ WriteFacts'
<1>1. WritesOK' /\ LanesApart'
  BY DEF WritesOK, WriteFacts, LanesApart
<1>2. ASSUME NEW s \in Session
      PROVE  /\ Len(in_flight'[s]) <= 1 /\ (writing'[s] <=> in_flight'[s] # <<>>)
             /\ active'[s] = "open" => owed'[s] = OnTheWire(s)' \o write_queue'[s]["worker"]
  <2>1. OnTheWire(s)' = OnTheWire(s)
    BY DEF OnTheWire
  <2>2. CASE active[s] = "open"
    BY <2>1, <2>2 DEF WriteFacts, NothingDropped
  <2>3. CASE active[s] # "open" /\ active'[s] = "open"
    <3>1. OnTheWire(s)' = <<>>
      BY <2>1, <2>3 DEF OnTheWire
    <3>2. <<>> = <<>> \o <<>>
      OBVIOUS
    <3> QED
      BY <2>3, <3>1, <3>2 DEF WriteFacts, NothingDropped
  <2> QED
    BY <2>2, <2>3 DEF WriteFacts, NothingDropped
<1> QED
  BY <1>1, <1>2 DEF WriteFacts, NothingDropped

\* A request's ack joins the io thread's lane; the broadcasts are untouched.
LEMMA RequestWrites ==
  ASSUME WritesOK, WriteFacts, NEW s \in Session, NEW do, NEW p \in Product, Request(s, do, p)
  PROVE  WritesOK' /\ WriteFacts'
<1>1. /\ write_queue' = [write_queue EXCEPT ![s]["io"] = Append(@, Msg("ack", p, 0))]
      /\ UNCHANGED <<active, writing, in_flight, informed, owed>>
  BY DEF Request, clientVars
<1>2. Msg("ack", p, 0) \in Ack
  BY DEF Msg, Ack
<1>3. write_queue[s]["io"] \in Seq(Ack) /\ write_queue[s]["io"] \in Seq(Ack \cup BroadcastMsg)
  BY DEF WriteFacts, LanesApart, WritesOK, Enqueuer
<1>4. PICK q : q = Append(write_queue[s]["io"], Msg("ack", p, 0))
  OBVIOUS
<1>5. q \in Seq(Ack)
  BY <1>2, <1>3, <1>4, AppendFacts
<1>6. q \in Seq(Ack \cup BroadcastMsg)
  BY <1>5, WiderSeq, Ack \subseteq Ack \cup BroadcastMsg
<1>7. /\ write_queue' \in [Session -> [Enqueuer -> Seq(Ack \cup BroadcastMsg)]]
      /\ write_queue'[s]["io"] = q /\ write_queue'[s]["worker"] = write_queue[s]["worker"]
      /\ \A r \in Session \ {s} : write_queue'[r] = write_queue[r]
  BY <1>1, <1>4, <1>6 DEF WritesOK, Enqueuer
<1>8. WritesOK'
  BY <1>1, <1>7 DEF WritesOK
<1>9. LanesApart'
  BY <1>5, <1>7 DEF WriteFacts, LanesApart
<1>10. ASSUME NEW r \in Session
       PROVE  /\ Len(in_flight'[r]) <= 1 /\ (writing'[r] <=> in_flight'[r] # <<>>)
              /\ active'[r] = "open" => owed'[r] = OnTheWire(r)' \o write_queue'[r]["worker"]
  <2>1. OnTheWire(r)' = OnTheWire(r)
    BY <1>1 DEF OnTheWire
  <2>2. write_queue'[r]["worker"] = write_queue[r]["worker"]
    BY <1>7
  <2> QED
    BY <1>1, <2>1, <2>2 DEF WriteFacts, NothingDropped
<1> QED
  BY <1>8, <1>9, <1>10 DEF WriteFacts, NothingDropped

\* The facts of the sessions a write step does not concern.
LEMMA OtherWriters ==
  ASSUME WriteFacts, NEW s \in Session, NEW r \in Session \ {s},
         in_flight'[r] = in_flight[r], writing'[r] = writing[r],
         write_queue'[r]["worker"] = write_queue[r]["worker"],
         owed'[r] = owed[r], active'[r] = active[r]
  PROVE  /\ Len(in_flight'[r]) <= 1 /\ (writing'[r] <=> in_flight'[r] # <<>>)
         /\ active'[r] = "open" => owed'[r] = OnTheWire(r)' \o write_queue'[r]["worker"]
<1>1. OnTheWire(r)' = OnTheWire(r)
  BY DEF OnTheWire
<1> QED
  BY <1>1 DEF WriteFacts, NothingDropped

\* The callback that starts a resting writer.
LEMMA StartWrites ==
  ASSUME WritesOK, WriteFacts, NEW s \in Session, StartWrite(s)
  PROVE  WritesOK' /\ WriteFacts'
<1>0. UNCHANGED <<active, informed, owed>>
  BY DEF StartWrite, clientVars
<1>1. CASE writing[s]
  <2>1. UNCHANGED <<writing, in_flight, write_queue>>
    BY <1>1 DEF StartWrite
  <2> QED
    BY <1>0, <2>1, WritersAtRest
<1>2. CASE ~writing[s]
  <2>1. in_flight[s] = <<>>
    BY <1>2, OneInFlight DEF WriteFacts
  <2>2. DoWrite(s, <<>>)
    BY <1>2, <2>1 DEF StartWrite
  <2>3. WritesOK'
    BY <1>0, <2>2, DoWriteFacts DEF WritesOK, WriteFacts
  <2>4. LanesApart'
    BY <2>2, DoWriteFacts DEF WriteFacts
  <2>5. active[s] = "open" => owed[s] = write_queue[s]["worker"]
    <3>1. active[s] = "open" => owed[s] = <<>> \o write_queue[s]["worker"]
      BY <2>1 DEF WriteFacts, NothingDropped, OnTheWire
    <3>2. write_queue[s]["worker"] \in Seq(BroadcastMsg)
      BY DEF WriteFacts, LanesApart
    <3> QED
      BY <3>1, <3>2
  <2>6. active[s] = "open" => OnTheWire(s)' \o write_queue'[s]["worker"] = write_queue[s]["worker"]
    BY <2>2, DoWriteFacts DEF WriteFacts
  <2>7. Len(in_flight'[s]) <= 1 /\ (writing'[s] <=> in_flight'[s] # <<>>)
    BY <2>2, DoWriteFacts DEF WriteFacts
  <2>8. ASSUME NEW r \in Session \ {s}
        PROVE  /\ Len(in_flight'[r]) <= 1 /\ (writing'[r] <=> in_flight'[r] # <<>>)
               /\ active'[r] = "open" => owed'[r] = OnTheWire(r)' \o write_queue'[r]["worker"]
    <3>1. in_flight'[r] = in_flight[r] /\ writing'[r] = writing[r] /\ write_queue'[r] = write_queue[r]
      BY <2>2, DoWriteFacts DEF WriteFacts
    <3> QED
      BY <1>0, <3>1, OtherWriters
  <2>9. active'[s] = "open" => owed'[s] = OnTheWire(s)' \o write_queue'[s]["worker"]
    BY <1>0, <2>5, <2>6
  <2>10. NothingDropped'
    BY <2>7, <2>8, <2>9 DEF NothingDropped
  <2> QED
    BY <2>3, <2>4, <2>10 DEF WriteFacts
<1> QED
  BY <1>1, <1>2

\* A write that ends, well or not, when the session is closed by it or was before.
LEMMA ClosingWrites ==
  ASSUME WritesOK, WriteFacts, SessionsOK, NEW s \in Session, in_flight[s] # <<>>, Close(s),
         writing' = [writing EXCEPT ![s] = FALSE],
         in_flight' = [in_flight EXCEPT ![s] = Tail(@)],
         UNCHANGED write_queue,
         owed' \in [Session -> Seq(BroadcastMsg)],
         informed' \in [Session -> [Product -> Nat]],
         \A r \in Session \ {s} : owed'[r] = owed[r]
  PROVE  WritesOK' /\ WriteFacts'
<1>1. Tail(in_flight[s]) = <<>>
  BY OneInFlight DEF WriteFacts
<1>2. <<>> \in Seq(Ack \cup BroadcastMsg) /\ Len(<<>>) = 0
  OBVIOUS
<1>3. in_flight' = [in_flight EXCEPT ![s] = <<>>]
  BY <1>1 DEF WritesOK
<1>4. WritesOK'
  BY <1>2, <1>3 DEF WritesOK
<1>5. LanesApart'
  BY DEF WriteFacts, LanesApart
<1>6. in_flight'[s] = <<>> /\ active'[s] = "closed"
  BY <1>3 DEF WritesOK, SessionsOK, Close
<1>10. writing'[s] = FALSE
  BY DEF WritesOK
<1>7. ASSUME NEW r \in Session \ {s}
      PROVE  /\ Len(in_flight'[r]) <= 1 /\ (writing'[r] <=> in_flight'[r] # <<>>)
             /\ active'[r] = "open" => owed'[r] = OnTheWire(r)' \o write_queue'[r]["worker"]
  <2>1. in_flight'[r] = in_flight[r] /\ writing'[r] = writing[r] /\ active'[r] = active[r]
    BY <1>3 DEF WritesOK, SessionsOK, Close
  <2> QED
    BY <2>1, OtherWriters
<1>8. /\ Len(in_flight'[s]) <= 1 /\ (writing'[s] <=> in_flight'[s] # <<>>)
      /\ active'[s] # "open"
  <2>0. active'[s] # "open"
    BY <1>6
  <2>a. Len(in_flight'[s]) = 0
    BY <1>2, <1>6, Zenon
  <2>1. Len(in_flight'[s]) <= 1
    BY <2>a, 0 <= 1, Zenon
  <2>2. ~writing'[s] /\ ~(in_flight'[s] # <<>>)
    BY <1>6, <1>10
  <2> QED
    BY <2>0, <2>1, <2>2
<1>9. NothingDropped'
  BY <1>7, <1>8 DEF NothingDropped
<1> QED
  BY <1>4, <1>5, <1>9 DEF WriteFacts

\* async_write completes on an open session: what it wrote was owed first.
LEMMA WriteDoneWrites ==
  ASSUME WritesOK, WriteFacts, SessionsOK, NEW s \in Session, WriteDone(s)
  PROVE  WritesOK' /\ WriteFacts'
<1>1. in_flight[s] # <<>>
  BY DEF WriteDone
<1>2. PICK m : m = Head(in_flight[s])
  OBVIOUS
<1>3. Tail(in_flight[s]) = <<>> /\ in_flight[s] = <<m>> /\ m \in Ack \cup BroadcastMsg
  BY <1>1, <1>2, OneInFlight DEF WriteFacts
<1>4. /\ informed' = IF m.kind # "info" THEN informed
                     ELSE [informed EXCEPT ![s][m.product] = m.version]
      /\ owed' = IF owed[s] = <<>> \/ m # Head(owed[s]) THEN owed
                 ELSE [owed EXCEPT ![s] = Tail(@)]
  BY <1>2 DEF WriteDone
<1>5. m.product \in Product /\ m.version \in Nat
  BY <1>3 DEF Ack, BroadcastMsg
<1>6. informed' \in [Session -> [Product -> Nat]]
  BY <1>4, <1>5 DEF WritesOK
<1>7. owed' \in [Session -> Seq(BroadcastMsg)] /\ \A r \in Session \ {s} : owed'[r] = owed[r]
  <2>1. owed[s] \in Seq(BroadcastMsg)
    BY DEF WritesOK
  <2>2. owed[s] # <<>> => Tail(owed[s]) \in Seq(BroadcastMsg)
    BY <2>1, TailFacts
  <2> QED
    BY <1>4, <2>2 DEF WritesOK
<1>8. CASE active[s] # "open"
  <2>1. /\ writing' = [writing EXCEPT ![s] = FALSE]
        /\ in_flight' = [in_flight EXCEPT ![s] = Tail(@)]
        /\ Close(s) /\ UNCHANGED write_queue
    BY <1>8 DEF WriteDone
  <2> QED
    BY <1>1, <1>6, <1>7, <2>1, ClosingWrites
<1>9. CASE active[s] = "open"
  <2>1. DoWrite(s, <<>>) /\ UNCHANGED active
    BY <1>3, <1>9 DEF WriteDone
  <2>2. WritesOK'
    BY <1>6, <1>7, <2>1, DoWriteFacts DEF WritesOK, WriteFacts
  <2>3. LanesApart'
    BY <2>1, DoWriteFacts DEF WriteFacts
  <2>4. PICK w : w = write_queue[s]["worker"]
    OBVIOUS
  <2>5. w \in Seq(BroadcastMsg)
    BY <2>4 DEF WriteFacts, LanesApart
  <2>6. owed[s] = OnTheWire(s) \o w
    BY <1>9, <2>4 DEF WriteFacts, NothingDropped
  <2>7. owed'[s] = w
    <3>1. CASE m.kind = "ack"
      <4>1. OnTheWire(s) = <<>>
        BY <1>2, <3>1 DEF OnTheWire
      <4>2. owed[s] = w
        BY <2>5, <2>6, <4>1
      <4>3. w # <<>> => Head(w) \in BroadcastMsg
        BY <2>5, TailFacts
      <4>4. w # <<>> => m # Head(w)
        BY <3>1, <4>3 DEF BroadcastMsg, Kinds
      <4> QED
        BY <1>4, <4>2, <4>4
    <3>2. CASE m.kind # "ack"
      <4>1. OnTheWire(s) = <<m>>
        BY <1>1, <1>2, <1>3, <3>2 DEF OnTheWire
      <4>2. m \in BroadcastMsg
        BY <1>3, <3>2 DEF Ack
      <4>3. owed[s] = <<m>> \o w
        BY <2>6, <4>1
      <4>4. owed[s] # <<>> /\ Head(owed[s]) = m /\ Tail(owed[s]) = w
        BY <2>5, <4>2, <4>3
      <4>5. owed' = [owed EXCEPT ![s] = Tail(@)]
        BY <1>4, <4>4
      <4> QED
        BY <4>4, <4>5 DEF WritesOK
    <3> QED
      BY <3>1, <3>2
  <2>8. OnTheWire(s)' \o write_queue'[s]["worker"] = w
    BY <1>9, <2>1, <2>4, DoWriteFacts DEF WriteFacts
  <2>9. Len(in_flight'[s]) <= 1 /\ (writing'[s] <=> in_flight'[s] # <<>>)
    BY <2>1, DoWriteFacts DEF WriteFacts
  <2>10. ASSUME NEW r \in Session \ {s}
         PROVE  /\ Len(in_flight'[r]) <= 1 /\ (writing'[r] <=> in_flight'[r] # <<>>)
                /\ active'[r] = "open" => owed'[r] = OnTheWire(r)' \o write_queue'[r]["worker"]
    <3>1. in_flight'[r] = in_flight[r] /\ writing'[r] = writing[r] /\ write_queue'[r] = write_queue[r]
      BY <2>1, DoWriteFacts DEF WriteFacts
    <3> QED
      BY <1>7, <2>1, <3>1, OtherWriters
  <2>11. owed'[s] = OnTheWire(s)' \o write_queue'[s]["worker"]
    BY <2>7, <2>8
  <2>12. NothingDropped'
    BY <2>9, <2>10, <2>11 DEF NothingDropped
  <2> QED
    BY <2>2, <2>3, <2>12 DEF WriteFacts
<1> QED
  BY <1>8, <1>9

\* send_message on the worker: what is queued is owed.
LEMMA SendWrites ==
  ASSUME WritesOK, WriteFacts, MapsOK, Send
  PROVE  WritesOK' /\ WriteFacts'
<1>1. PICK one \in sending :
        /\ IF active[one[1]] = "open"
           THEN /\ write_queue' = [write_queue EXCEPT ![one[1]]["worker"] = Append(@, one[2])]
                /\ owed' = [owed EXCEPT ![one[1]] = Append(@, one[2])]
           ELSE UNCHANGED <<write_queue, owed>>
        /\ UNCHANGED <<active, writing, in_flight, informed>>
  BY DEF Send
<1>2. PICK s, m : s = one[1] /\ m = one[2]
  OBVIOUS
<1>3. s \in Session /\ m \in BroadcastMsg
  BY <1>2 DEF MapsOK
<1>4. CASE active[s] # "open"
  <2>1. UNCHANGED <<writing, in_flight, owed, write_queue, informed, active>>
    BY <1>1, <1>2, <1>4
  <2> QED
    BY <2>1, WritersAtRest
<1>5. CASE active[s] = "open"
  <2>1. /\ write_queue' = [write_queue EXCEPT ![s]["worker"] = Append(@, m)]
        /\ owed' = [owed EXCEPT ![s] = Append(@, m)]
    BY <1>1, <1>2, <1>5
  <2>2. PICK w, q : w = write_queue[s]["worker"] /\ q = Append(w, m)
    OBVIOUS
  <2>3. w \in Seq(BroadcastMsg) /\ owed[s] \in Seq(BroadcastMsg)
    BY <1>3, <2>2 DEF WriteFacts, LanesApart, WritesOK
  <2>4. q \in Seq(BroadcastMsg) /\ Append(owed[s], m) \in Seq(BroadcastMsg)
    BY <1>3, <2>2, <2>3, AppendFacts
  <2>5. q \in Seq(Ack \cup BroadcastMsg)
    BY <2>4, WiderSeq, BroadcastMsg \subseteq Ack \cup BroadcastMsg
  <2>6. /\ write_queue' \in [Session -> [Enqueuer -> Seq(Ack \cup BroadcastMsg)]]
        /\ write_queue'[s]["worker"] = q /\ write_queue'[s]["io"] = write_queue[s]["io"]
        /\ \A r \in Session \ {s} : write_queue'[r] = write_queue[r]
    BY <1>3, <2>1, <2>2, <2>5 DEF WritesOK, Enqueuer
  <2>7. /\ owed' \in [Session -> Seq(BroadcastMsg)] /\ owed'[s] = Append(owed[s], m)
        /\ \A r \in Session \ {s} : owed'[r] = owed[r]
    BY <1>3, <2>1, <2>4 DEF WritesOK
  <2>8. WritesOK'
    BY <1>1, <2>6, <2>7 DEF WritesOK
  <2>9. LanesApart'
    BY <1>3, <2>4, <2>6 DEF WriteFacts, LanesApart
  <2>10. OnTheWire(s)' = OnTheWire(s)
    BY <1>1 DEF OnTheWire
  <2>11. owed[s] = OnTheWire(s) \o w
    BY <1>3, <1>5, <2>2 DEF WriteFacts, NothingDropped
  <2>12. OnTheWire(s) \in Seq(Ack \cup BroadcastMsg)
    <3>1. <<>> \in Seq(Ack \cup BroadcastMsg)
      OBVIOUS
    <3> QED
      BY <1>3, <3>1 DEF OnTheWire, WritesOK
  <2>13. w \in Seq(Ack \cup BroadcastMsg) /\ m \in Ack \cup BroadcastMsg
    BY <1>3, <2>3, WiderSeq, BroadcastMsg \subseteq Ack \cup BroadcastMsg
  <2>14. Append(OnTheWire(s) \o w, m) = OnTheWire(s) \o Append(w, m)
    <3>1. PICK S, a : S = Ack \cup BroadcastMsg /\ a = OnTheWire(s)
      OBVIOUS
    <3>2. a \in Seq(S) /\ w \in Seq(S) /\ m \in S
      BY <2>12, <2>13, <3>1
    <3>3. Append(a \o w, m) = a \o Append(w, m)
      BY <3>2
    <3> QED
      BY <3>1, <3>3
  <2>15. owed'[s] = OnTheWire(s)' \o write_queue'[s]["worker"]
    BY <2>2, <2>6, <2>7, <2>10, <2>11, <2>14
  <2>16. Len(in_flight'[s]) <= 1 /\ (writing'[s] <=> in_flight'[s] # <<>>)
    BY <1>1, <1>3 DEF WriteFacts, NothingDropped
  <2>17. ASSUME NEW r \in Session \ {s}
         PROVE  /\ Len(in_flight'[r]) <= 1 /\ (writing'[r] <=> in_flight'[r] # <<>>)
                /\ active'[r] = "open" => owed'[r] = OnTheWire(r)' \o write_queue'[r]["worker"]
    BY <1>1, <1>3, <2>6, <2>7, OtherWriters
  <2>18. NothingDropped'
    BY <2>15, <2>16, <2>17 DEF NothingDropped
  <2> QED
    BY <2>8, <2>9, <2>18 DEF WriteFacts
<1> QED
  BY <1>4, <1>5

\* Any step of any thread keeps the write facts.
LEMMA WritesStep ==
  ASSUME MapsOK, SessionsOK, WritesOK, Untouched, WriteFacts, [Next]_vars
  PROVE  WritesOK' /\ WriteFacts'
<1>1. ASSUME NEW s \in Session, Accept(s)
      PROVE  WritesOK' /\ WriteFacts'
  <2>1. active[s] = "none" /\ active' = [active EXCEPT ![s] = "open"]
        /\ UNCHANGED <<writing, in_flight, owed, write_queue, informed>>
    BY <1>1 DEF Accept, writeVars, clientVars
  <2>2. in_flight[s] = <<>> /\ owed[s] = <<>> /\ write_queue[s]["worker"] = <<>>
    BY <2>1 DEF Untouched
  <2>3. \A r \in Session : r # s => active'[r] = active[r]
    BY <2>1 DEF SessionsOK
  <2> QED
    BY <2>1, <2>2, <2>3, WritersAtRest
<1>2. ASSUME NEW s \in Session, ReadFails(s)
      PROVE  WritesOK' /\ WriteFacts'
  <2>1. active' = [active EXCEPT ![s] = "closed"]
        /\ UNCHANGED <<writing, in_flight, owed, write_queue, informed>>
    BY <1>2 DEF ReadFails, Close, writeVars, clientVars
  <2>2. \A r \in Session : active'[r] = "open" => active[r] = "open"
    BY <2>1 DEF SessionsOK
  <2> QED
    BY <2>1, <2>2, WritersAtRest
<1>3. ASSUME NEW s \in Session, WriteFails(s)
      PROVE  WritesOK' /\ WriteFacts'
  <2>1. UNCHANGED <<informed, owed>>
    BY <1>3 DEF WriteFails, clientVars
  <2>2. /\ in_flight[s] # <<>> /\ Close(s)
        /\ writing' = [writing EXCEPT ![s] = FALSE]
        /\ in_flight' = [in_flight EXCEPT ![s] = Tail(@)]
        /\ UNCHANGED write_queue
    BY <1>3 DEF WriteFails
  <2>3. /\ owed' \in [Session -> Seq(BroadcastMsg)] /\ informed' \in [Session -> [Product -> Nat]]
        /\ \A r \in Session \ {s} : owed'[r] = owed[r]
    BY <2>1 DEF WritesOK
  <2> QED
    BY <2>2, <2>3, ClosingWrites
<1>4. CASE CloseSessions
  <2>1. active' = [s \in Session |-> IF session_to_products[s] # None THEN "closed" ELSE active[s]]
        /\ UNCHANGED <<writing, in_flight, owed, write_queue, informed>>
    BY <1>4 DEF CloseSessions, writeVars, clientVars
  <2>2. \A r \in Session : active'[r] = "open" => active[r] = "open"
    BY <2>1
  <2> QED
    BY <2>1, <2>2, WritersAtRest
<1>5. CASE UNCHANGED <<active, writing, in_flight, owed, write_queue, informed>>
  BY <1>5, WritersAtRest
<1>6. ASSUME NEW p \in Product, Publish(p) \/ PublishInfo(p)
      PROVE  WritesOK' /\ WriteFacts'
  BY <1>5, <1>6 DEF Publish, PublishInfo, writeVars, clientVars
<1>7. CASE RunTask
  <2>1. UNCHANGED <<active, writeVars, clientVars>>
    BY <1>7 DEF RunTask, TakeTask
  <2> QED
    BY <2>1, <1>5 DEF writeVars, clientVars
<1>8. CASE SendKick \/ StopServer \/ UNCHANGED vars
  BY <1>5, <1>8 DEF SendKick, StopServer, vars, writeVars, clientVars
<1>9. ASSUME NEW s \in Session, NEW p \in Product,
             Request(s, "subscribe", p) \/ Request(s, "unsubscribe", p)
      PROVE  WritesOK' /\ WriteFacts'
  BY <1>9, RequestWrites
<1> QED
  BY <1>1, <1>2, <1>3, <1>4, <1>6, <1>7, <1>8, <1>9, StartWrites, WriteDoneWrites, SendWrites
  DEF Next, PublisherStep, ClientStep, WorkerStep, IoStep
-----------------------------------------------------------------------------
(* The task queue and the maps.                                            *)

\* What the task facts say of the sessions, and of the tasks, of one state.
LEMMA TaskTypes ==
  ASSUME TasksOK, NEW i \in DOMAIN tasks["io"]
  PROVE  tasks["io"][i] \in ClientTask /\ tasks["io"][i].session \in Session /\ i \in Nat
<1>1. tasks["io"][i] \in ClientTask /\ i \in Nat
  BY DEF TasksOK
<1> QED
  BY <1>1 DEF ClientTask

\* A step that leaves the tasks and the maps alone keeps the task facts.
LEMMA TasksAtRest ==
  ASSUME TaskFacts, tasks'["io"] = tasks["io"],
         UNCHANGED <<session_to_products, product_to_sessions, active>>,
         server' = "stopped" <=> server = "stopped",
         \A s \in Session : active[s] = "none" =>
           /\ reading'[s] = reading[s] /\ in_flight'[s] = in_flight[s] /\ owed'[s] = owed[s]
           /\ write_queue'[s]["worker"] = write_queue[s]["worker"]
  PROVE  TaskFacts'
<1>1. /\ \A s \in Session : (Forgotten(s)' <=> Forgotten(s))
      /\ \A s : (NoTask(s)' <=> NoTask(s)) /\ (RemoveIsLast(s)' <=> RemoveIsLast(s))
  BY DEF Forgotten, NoTask, RemoveIsLast
<1>2. MapsAgree' /\ StopClears'
  BY <1>1 DEF TaskFacts, MapsAgree, StopClears
<1>3. Untouched'
  BY <1>1 DEF TaskFacts, Untouched
<1>4. AddIsFirst'
  BY DEF TaskFacts, AddIsFirst, Forgotten
<1>5. ClosedLeaves'
  BY <1>1 DEF TaskFacts, ClosedLeaves
<1> QED
  BY <1>2, <1>3, <1>4, <1>5 DEF TaskFacts

\* The io thread enqueues a task of one session: its ADD when it is accepted, a
\* request's while it is open, its REMOVE when it is closed.
LEMMA TaskEnqueued ==
  ASSUME TasksOK, SessionsOK, TaskFacts, NEW s \in Session, NEW k \in ClientTask,
         k.session = s, tasks'["io"] = Append(tasks["io"], k),
         UNCHANGED <<server, session_to_products, product_to_sessions>>,
         NEW a \in {"open", "closed"}, active' = [active EXCEPT ![s] = a],
         k.do = "add" => active[s] = "none",
         a = "closed" => k.do = "remove",
         \A r \in Session \ {s} : active[r] = "none" =>
           /\ reading'[r] = reading[r] /\ in_flight'[r] = in_flight[r] /\ owed'[r] = owed[r]
           /\ write_queue'[r]["worker"] = write_queue[r]["worker"]
  PROVE  TaskFacts'
<1> DEFINE q == tasks["io"]
           n == Len(q) + 1
<1>1. /\ DOMAIN tasks'["io"] = DOMAIN q \cup {n}
      /\ \A i \in DOMAIN q : tasks'["io"][i] = q[i] /\ i \in Nat /\ i < n
      /\ tasks'["io"][n] = k /\ n \in Nat
  BY AppendFacts DEF TasksOK
<1>2. \A r \in Session \ {s} : active'[r] = active[r]
  BY DEF SessionsOK
<1>3. active'[s] = a
  BY DEF SessionsOK
<1> HIDE DEF n
<1>4. \A r \in Session : (Forgotten(r)' <=> Forgotten(r))
  BY DEF Forgotten
<1>5. \A r \in Session \ {s} : (NoTask(r)' <=> NoTask(r))
  BY <1>1 DEF NoTask
<1>6. MapsAgree' /\ StopClears'
  BY <1>4 DEF TaskFacts, MapsAgree, StopClears
<1>7. Untouched'
  BY <1>2, <1>3, <1>4, <1>5 DEF TaskFacts, Untouched
<1>8. AddIsFirst'
  <2> SUFFICES ASSUME NEW i \in DOMAIN tasks'["io"], tasks'["io"][i].do = "add"
               PROVE  /\ Forgotten(tasks["io"][i].session)'
                      /\ \A j \in DOMAIN tasks'["io"] : j < i =>
                           tasks'["io"][j].session # tasks'["io"][i].session
    BY DEF AddIsFirst
  <2>1. CASE i = n
    <3>1. tasks'["io"][i] = k /\ active[s] = "none"
      BY <1>1, <2>1
    <3>2. Forgotten(s) /\ NoTask(s)
      BY <3>1 DEF TaskFacts, Untouched
    <3>3. Forgotten(tasks["io"][i].session)'
      BY <1>4, <3>1, <3>2
    <3>4. \A j \in DOMAIN tasks'["io"] : j < i => tasks'["io"][j].session # s
      BY <1>1, <2>1, <3>2 DEF NoTask
    <3> QED
      BY <3>1, <3>3, <3>4
  <2>2. CASE i \in DOMAIN q
    <3>1. tasks'["io"][i] = q[i] /\ i < n /\ i \in Nat
      BY <1>1, <2>2
    <3>2. Forgotten(q[i].session) /\ \A j \in DOMAIN q : j < i => q[j].session # q[i].session
      BY <2>2, <3>1 DEF TaskFacts, AddIsFirst
    <3>3. q[i].session \in Session
      BY <2>2, TaskTypes
    <3>4. Forgotten(tasks["io"][i].session)'
      BY <1>4, <3>1, <3>2, <3>3
    <3>5. ASSUME NEW j \in DOMAIN tasks'["io"], j < i
          PROVE  tasks'["io"][j].session # tasks'["io"][i].session
      <4>1. j \in DOMAIN q /\ tasks'["io"][j] = q[j]
        BY <1>1, <3>1, <3>5
      <4> QED
        BY <3>1, <3>2, <3>5, <4>1
    <3> QED
      BY <3>4, <3>5
  <2> QED
    BY <1>1, <2>1, <2>2
<1>9. ClosedLeaves'
  <2> SUFFICES ASSUME NEW r \in Session, active'[r] = "closed", server' # "stopped"
               PROVE  RemoveIsLast(r)' \/ (NoTask(r)' /\ Forgotten(r)')
    BY DEF ClosedLeaves
  <2>1. CASE r = s
    <3>1. k.do = "remove"
      BY <1>3, <2>1
    <3>2. \A j \in DOMAIN tasks'["io"] : ~(j > n)
      BY <1>1
    <3>3. RemoveIsLast(s)'
      BY <1>1, <3>1, <3>2 DEF RemoveIsLast
    <3> QED
      BY <2>1, <3>3
  <2>2. CASE r # s
    <3>1. RemoveIsLast(r) \/ (NoTask(r) /\ Forgotten(r))
      BY <1>2, <2>2 DEF TaskFacts, ClosedLeaves
    <3>2. CASE RemoveIsLast(r)
      <4>1. PICK i \in DOMAIN q : /\ q[i].session = r /\ q[i].do = "remove"
                                  /\ \A j \in DOMAIN q : j > i => q[j].session # r
        BY <3>2 DEF RemoveIsLast
      <4>2. i \in DOMAIN tasks'["io"] /\ tasks'["io"][i] = q[i]
        BY <1>1
      <4>3. \A j \in DOMAIN tasks'["io"] : j > i => tasks'["io"][j].session # r
        BY <1>1, <2>2, <4>1
      <4>4. RemoveIsLast(r)'
        BY <4>1, <4>2, <4>3 DEF RemoveIsLast
      <4> QED
        BY <4>4
    <3>3. CASE NoTask(r) /\ Forgotten(r)
      BY <1>4, <1>5, <2>2, <3>3
    <3> QED
      BY <3>1, <3>2, <3>3
  <2> QED
    BY <2>1, <2>2
<1> QED
  BY <1>6, <1>7, <1>8, <1>9 DEF TaskFacts

\* The worker runs the io thread's first task, which touches the maps of its own
\* session only and, if it is a REMOVE, forgets it.
LEMMA TaskRun ==
  ASSUME TasksOK, SessionsOK, TaskFacts, tasks["io"] # <<>>, server = "running",
         tasks'["io"] = Tail(tasks["io"]),
         UNCHANGED <<server, active, reading, in_flight, owed, write_queue>>,
         NEW s \in Session, tasks["io"][1].session = s,
         \A r \in Session \ {s} :
           /\ session_to_products'[r] = session_to_products[r]
           /\ \A p \in Product : r \in product_to_sessions'[p] <=> r \in product_to_sessions[p],
         MapsAgree',
         tasks["io"][1].do = "remove" => Forgotten(s)'
  PROVE  TaskFacts'
<1> DEFINE q == tasks["io"]
           w == tasks'["io"]
<1>1. /\ 1 \in DOMAIN q
      /\ \A i \in DOMAIN w : i \in Nat /\ i + 1 \in DOMAIN q /\ w[i] = q[i + 1]
      /\ \A i \in DOMAIN q : i \in Nat /\ (i = 1 \/ (i > 1 /\ i - 1 \in DOMAIN w /\ w[i - 1] = q[i]))
  BY TailFacts DEF TasksOK
<1>2. \A r \in Session \ {s} : (Forgotten(r)' <=> Forgotten(r))
  BY DEF Forgotten
<1>3. \A r : NoTask(r) => NoTask(r)' /\ r # s
  BY <1>1 DEF NoTask
<1>4. ASSUME NEW r, NEW i \in DOMAIN q, i # 1, q[i].session = r, q[i].do = "remove",
             \A j \in DOMAIN q : j > i => q[j].session # r
      PROVE  RemoveIsLast(r)'
  <2>1. i - 1 \in DOMAIN w /\ w[i - 1] = q[i] /\ i \in Nat
    BY <1>1, <1>4
  <2>2. \A j \in DOMAIN w : j > i - 1 => w[j].session # r
    BY <1>1, <1>4, <2>1
  <2> QED
    BY <1>4, <2>1, <2>2 DEF RemoveIsLast
<1>5. Untouched'
  BY <1>2, <1>3 DEF TaskFacts, Untouched
<1>6. StopClears'
  BY DEF StopClears
<1>7. AddIsFirst'
  <2> SUFFICES ASSUME NEW i \in DOMAIN w, w[i].do = "add"
               PROVE  /\ Forgotten(tasks["io"][i].session)'
                      /\ \A j \in DOMAIN w : j < i => w[j].session # w[i].session
    BY DEF AddIsFirst
  <2>1. i \in Nat /\ i + 1 \in DOMAIN q /\ w[i] = q[i + 1] /\ 1 < i + 1
    <3>1. i \in Nat /\ i + 1 \in DOMAIN q /\ w[i] = q[i + 1]
      BY <1>1
    <3>2. i # 0
      BY DEF TasksOK
    <3> QED
      BY <3>1, <3>2
  <2>2. Forgotten(q[i + 1].session) /\ \A j \in DOMAIN q : j < i + 1 => q[j].session # q[i + 1].session
    BY <2>1 DEF TaskFacts, AddIsFirst
  <2>3. q[i + 1].session \in Session \ {s}
    BY <1>1, <2>1, <2>2, TaskTypes
  <2>4. Forgotten(tasks["io"][i].session)'
    BY <1>2, <2>1, <2>2, <2>3
  <2>5. ASSUME NEW j \in DOMAIN w, j < i
        PROVE  w[j].session # w[i].session
    <3>1. j \in Nat /\ j + 1 \in DOMAIN q /\ w[j] = q[j + 1]
      BY <1>1
    <3>2. j + 1 < i + 1
      BY <2>1, <2>5, <3>1
    <3> QED
      BY <2>1, <2>2, <3>1, <3>2
  <2> QED
    BY <2>4, <2>5
<1>8. ClosedLeaves'
  <2> SUFFICES ASSUME NEW r \in Session, active[r] = "closed"
               PROVE  RemoveIsLast(r)' \/ (NoTask(r)' /\ Forgotten(r)')
    BY DEF ClosedLeaves
  <2>1. RemoveIsLast(r) \/ (NoTask(r) /\ Forgotten(r))
    BY DEF TaskFacts, ClosedLeaves
  <2>2. CASE NoTask(r) /\ Forgotten(r)
    BY <1>2, <1>3, <2>2
  <2>3. CASE RemoveIsLast(r)
    <3>1. PICK i \in DOMAIN q : /\ q[i].session = r /\ q[i].do = "remove"
                                /\ \A j \in DOMAIN q : j > i => q[j].session # r
      BY <2>3 DEF RemoveIsLast
    <3>2. CASE i # 1
      BY <1>4, <3>1, <3>2
    <3>3. CASE i = 1
      <4>1. r = s /\ Forgotten(r)'
        BY <3>1, <3>3
      <4>2. \A j \in DOMAIN w : w[j].session # r
        <5> SUFFICES ASSUME NEW j \in DOMAIN w
                     PROVE  w[j].session # r
          OBVIOUS
        <5>1. j \in Nat /\ j + 1 \in DOMAIN q /\ w[j] = q[j + 1] /\ j # 0
          BY <1>1 DEF TasksOK
        <5>2. j + 1 > 1
          BY <5>1
        <5> QED
          BY <3>1, <3>3, <5>1, <5>2
      <4>3. NoTask(r)'
        BY <4>2 DEF NoTask
      <4> QED
        BY <4>1, <4>3
    <3> QED
      BY <3>2, <3>3
  <2> QED
    BY <2>1, <2>2, <2>3
<1> QED
  BY <1>5, <1>6, <1>7, <1>8 DEF TaskFacts

\* What each task does to the maps of its session, and to no other.
LEMMA TaskTouches ==
  ASSUME MapsOK, TasksOK, TaskFacts, tasks["io"] # <<>>, NEW k \in ClientTask, k = tasks["io"][1],
         NEW s \in Session, k.session = s,
         AddSession(k) \/ RemoveSession(k) \/ Subscribe(k) \/ Unsubscribe(k)
           \/ Broadcast(k) \/ Retain(k)
  PROVE  /\ \A r \in Session \ {s} :
              /\ session_to_products'[r] = session_to_products[r]
              /\ \A p \in Product : r \in product_to_sessions'[p] <=> r \in product_to_sessions[p]
         /\ MapsAgree'
         /\ k.do = "remove" => Forgotten(s)'
<1>0. 1 \in DOMAIN tasks["io"]
  BY TailFacts DEF TasksOK
<1>1. CASE AddSession(k)
  <2>1. /\ session_to_products' = [session_to_products EXCEPT ![s] = {}]
        /\ UNCHANGED product_to_sessions /\ k.do = "add"
    BY <1>1 DEF AddSession
  <2>2. Forgotten(s)
    BY <1>0, <2>1 DEF TaskFacts, AddIsFirst
  <2>3. MapsAgree'
    BY <2>1, <2>2 DEF TaskFacts, MapsAgree, MapsOK, Forgotten
  <2> QED
    BY <2>1, <2>3 DEF MapsOK
<1>2. CASE RemoveSession(k)
  <2>1. /\ product_to_sessions' = [p \in Product |->
             IF session_to_products[s] # None /\ p \in session_to_products[s]
             THEN product_to_sessions[p] \ {s} ELSE product_to_sessions[p]]
        /\ session_to_products' = [session_to_products EXCEPT ![s] = None]
    BY <1>2 DEF RemoveSession
  <2>2. \A p \in Product : s \notin product_to_sessions'[p]
    BY <2>1 DEF TaskFacts, MapsAgree
  <2>3. \A r \in Session \ {s} :
          /\ session_to_products'[r] = session_to_products[r]
          /\ \A p \in Product : r \in product_to_sessions'[p] <=> r \in product_to_sessions[p]
    BY <2>1 DEF MapsOK
  <2>4. MapsAgree'
    BY <2>2, <2>3 DEF TaskFacts, MapsAgree
  <2>5. Forgotten(s)'
    BY <2>1, <2>2 DEF Forgotten, MapsOK
  <2> QED
    BY <2>3, <2>4, <2>5
<1>3. CASE Subscribe(k)
  <2>1. PICK theirs : theirs = IF session_to_products[s] = None THEN {} ELSE session_to_products[s]
    OBVIOUS
  <2>2. k.do = "subscribe" /\ k.product \in Product
    BY <1>3 DEF Subscribe, ClientTask
  <2>3. /\ session_to_products' = [session_to_products EXCEPT ![s] = theirs \cup {k.product}]
        /\ product_to_sessions' = [product_to_sessions EXCEPT ![k.product] = @ \cup {s}]
    BY <1>3, <2>1 DEF Subscribe
  <2>4. theirs \in SUBSET Product
    BY <2>1 DEF MapsOK
  <2>5. theirs \cup {k.product} # None
    BY <2>2, <2>4, ServerAssumption
  <2>6. \A r \in Session \ {s} :
          /\ session_to_products'[r] = session_to_products[r]
          /\ \A p \in Product : r \in product_to_sessions'[p] <=> r \in product_to_sessions[p]
    BY <2>2, <2>3 DEF MapsOK
  <2>7. session_to_products'[s] = theirs \cup {k.product}
    BY <2>3 DEF MapsOK
  <2>8. \A p \in Product : s \in product_to_sessions'[p] => p = k.product \/ p \in theirs
    BY <2>1, <2>2, <2>3 DEF MapsOK, TaskFacts, MapsAgree
  <2>9. MapsAgree'
    BY <2>5, <2>6, <2>7, <2>8 DEF TaskFacts, MapsAgree
  <2> QED
    BY <2>2, <2>6, <2>9
<1>4. CASE Unsubscribe(k)
  <2>1. k.do = "unsubscribe" /\ k.product \in Product
    BY <1>4 DEF Unsubscribe, ClientTask
  <2>2. /\ session_to_products' = [session_to_products EXCEPT ![s] =
             IF session_to_products[s] = None THEN None ELSE session_to_products[s] \ {k.product}]
        /\ product_to_sessions' = [product_to_sessions EXCEPT ![k.product] = @ \ {s}]
    BY <1>4 DEF Unsubscribe
  <2>3. \A r \in Session \ {s} :
          /\ session_to_products'[r] = session_to_products[r]
          /\ \A p \in Product : r \in product_to_sessions'[p] <=> r \in product_to_sessions[p]
    BY <2>1, <2>2 DEF MapsOK
  <2>4. \A p \in Product : s \in product_to_sessions'[p] =>
          p # k.product /\ session_to_products[s] # None /\ p \in session_to_products[s]
    BY <2>1, <2>2 DEF MapsOK, TaskFacts, MapsAgree
  <2>5. session_to_products[s] # None =>
          /\ session_to_products'[s] = session_to_products[s] \ {k.product}
          /\ session_to_products[s] \in SUBSET Product
    BY <2>2 DEF MapsOK
  <2>6. session_to_products[s] # None => session_to_products[s] \ {k.product} # None
    BY <2>5, ServerAssumption
  <2>7. MapsAgree'
    BY <2>3, <2>4, <2>5, <2>6 DEF TaskFacts, MapsAgree
  <2> QED
    BY <2>1, <2>3, <2>7
<1>5. CASE Broadcast(k) \/ Retain(k)
  BY <1>5 DEF Broadcast, Retain, ClientTask, Kinds
<1> QED
  BY <1>1, <1>2, <1>3, <1>4, <1>5

\* The worker's step.
LEMMA RunTaskStep ==
  ASSUME TasksOK, MapsOK, SessionsOK, TaskFacts, RunTask
  PROVE  TaskFacts'
<1>1. PICK t \in DOMAIN tasks :
        /\ TakeTask(t)
        /\ LET k == Head(tasks[t])
           IN  AddSession(k) \/ RemoveSession(k) \/ Subscribe(k) \/ Unsubscribe(k)
                 \/ Broadcast(k) \/ Retain(k)
  BY DEF RunTask
<1>2. UNCHANGED <<server, active, reading, in_flight, owed, write_queue>>
  BY <1>1 DEF TakeTask, writeVars, clientVars
<1>3. /\ server = "running" /\ tasks[t] # <<>> /\ tasks' = [tasks EXCEPT ![t] = Tail(@)]
      /\ \/ t = "io" /\ Head(tasks["io"]) \in ClientTask
         \/ t = "publisher" /\ Head(tasks["publisher"]) \in PublisherTask
  BY <1>1, TaskTaken
<1>4. CASE t = "publisher"
  <2>1. PICK k : k = Head(tasks["publisher"])
    OBVIOUS
  <2>2. k.do \in {"info", "data", "retain"}
    BY <1>3, <1>4, <2>1 DEF PublisherTask
  <2>3. Broadcast(k) \/ Retain(k)
    BY <1>1, <1>4, <2>1, <2>2 DEF AddSession, RemoveSession, Subscribe, Unsubscribe
  <2>4. UNCHANGED <<session_to_products, product_to_sessions>>
    BY <2>3 DEF Broadcast, Retain, serverVars
  <2>5. tasks'["io"] = tasks["io"]
    BY <1>3, <1>4 DEF TasksOK, Thread
  <2> QED
    BY <1>2, <2>4, <2>5, TasksAtRest
<1>5. CASE t = "io"
  <2>1. PICK k : k = tasks["io"][1]
    OBVIOUS
  <2>2. k = Head(tasks["io"]) /\ k \in ClientTask /\ tasks["io"] # <<>>
    BY <1>3, <1>5, <2>1, TailFacts DEF TasksOK
  <2>3. PICK s \in Session : k.session = s
    BY <2>2 DEF ClientTask
  <2>4. tasks'["io"] = Tail(tasks["io"])
    BY <1>3, <1>5 DEF TasksOK, Thread
  <2>5. AddSession(k) \/ RemoveSession(k) \/ Subscribe(k) \/ Unsubscribe(k)
          \/ Broadcast(k) \/ Retain(k)
    BY <1>1, <1>5, <2>2
  <2>6. /\ \A r \in Session \ {s} :
             /\ session_to_products'[r] = session_to_products[r]
             /\ \A p \in Product : r \in product_to_sessions'[p] <=> r \in product_to_sessions[p]
        /\ MapsAgree'
        /\ k.do = "remove" => Forgotten(s)'
    BY <2>1, <2>2, <2>3, <2>5, TaskTouches
  <2> QED
    BY <1>2, <1>3, <2>1, <2>2, <2>3, <2>4, <2>6, TaskRun
<1> QED
  BY <1>3, <1>4, <1>5

\* A close tells the worker, whoever notices that the connection is gone.
LEMMA CloseStep ==
  ASSUME TasksOK, SessionsOK, TaskFacts, NEW s \in Session, Close(s),
         UNCHANGED <<server, serverVars>>,
         \A r \in Session \ {s} :
           /\ reading'[r] = reading[r] /\ in_flight'[r] = in_flight[r] /\ owed'[r] = owed[r]
           /\ write_queue'[r] = write_queue[r]
  PROVE  TaskFacts'
<1>1. PICK k : k = Task("remove", s, None, 0)
  OBVIOUS
<1>2. k \in ClientTask /\ k.session = s /\ k.do = "remove"
  BY <1>1, ClientTasks DEF Task
<1>3. tasks'["io"] = Append(tasks["io"], k) /\ active' = [active EXCEPT ![s] = "closed"]
  BY <1>1 DEF Close, IoTask, TasksOK, Thread
<1>4. UNCHANGED <<session_to_products, product_to_sessions>>
  BY DEF serverVars
<1> QED
  BY <1>2, <1>3, <1>4, TaskEnqueued

\* Any step of any thread keeps the task facts.
LEMMA TaskFactsStep ==
  ASSUME TasksOK, MapsOK, SessionsOK, WritesOK, TaskFacts, WriteFacts, [Next]_vars
  PROVE  TaskFacts'
<1>1. ASSUME NEW s \in Session, Accept(s)
      PROVE  TaskFacts'
  <2>1. PICK k : k = Task("add", s, None, 0)
    OBVIOUS
  <2>2. k \in ClientTask /\ k.session = s /\ k.do = "add"
    BY <2>1, ClientTasks DEF Task
  <2>3. tasks'["io"] = Append(tasks["io"], k)
    BY <1>1, <2>1 DEF Accept, IoTask, TasksOK, Thread
  <2>4. active' = [active EXCEPT ![s] = "open"] /\ active[s] = "none"
        /\ UNCHANGED <<server, session_to_products, product_to_sessions, in_flight, owed, write_queue>>
    BY <1>1 DEF Accept, serverVars, writeVars, clientVars
  <2>5. \A r \in Session \ {s} : reading'[r] = reading[r]
    BY <1>1 DEF Accept, SessionsOK
  <2> QED
    BY <2>2, <2>3, <2>4, <2>5, TaskEnqueued
<1>2. ASSUME NEW s \in Session, NEW p \in Product, NEW do \in {"subscribe", "unsubscribe"},
             Request(s, do, p)
      PROVE  TaskFacts'
  <2>1. PICK k : k = Task(do, s, p, 0)
    OBVIOUS
  <2>2. k \in ClientTask /\ k.session = s /\ k.do = do
    BY <2>1, ClientTasks DEF Task
  <2>3. tasks'["io"] = Append(tasks["io"], k)
    BY <1>2, <2>1 DEF Request, IoTask, TasksOK, Thread
  <2>4. active' = [active EXCEPT ![s] = "open"]
        /\ UNCHANGED <<server, session_to_products, product_to_sessions, reading, in_flight, owed>>
    BY <1>2 DEF Request, serverVars, clientVars, SessionsOK
  <2>5. \A r \in Session \ {s} : write_queue'[r] = write_queue[r]
    BY <1>2 DEF Request, WritesOK
  <2> QED
    BY <2>2, <2>3, <2>4, <2>5, TaskEnqueued
<1>3. ASSUME NEW s \in Session, ReadFails(s)
      PROVE  TaskFacts'
  <2>1. Close(s) /\ UNCHANGED <<server, serverVars>> /\ UNCHANGED <<in_flight, owed, write_queue>>
    BY <1>3 DEF ReadFails, writeVars, clientVars
  <2>2. \A r \in Session \ {s} : reading'[r] = reading[r]
    BY <1>3 DEF ReadFails, SessionsOK
  <2> QED
    BY <2>1, <2>2, CloseStep
<1>4. ASSUME NEW s \in Session, WriteFails(s)
      PROVE  TaskFacts'
  <2>1. Close(s) /\ UNCHANGED <<server, serverVars>> /\ UNCHANGED <<reading, owed, write_queue>>
    BY <1>4 DEF WriteFails, clientVars
  <2>2. \A r \in Session \ {s} : in_flight'[r] = in_flight[r]
    BY <1>4 DEF WriteFails, WritesOK
  <2> QED
    BY <2>1, <2>2, CloseStep
<1>5. ASSUME NEW s \in Session, StartWrite(s)
      PROVE  TaskFacts'
  <2>1. UNCHANGED <<server, tasks, session_to_products, product_to_sessions, active, reading, owed>>
    BY <1>5 DEF StartWrite, serverVars, clientVars
  <2>2. CASE UNCHANGED <<in_flight, write_queue>>
    BY <2>1, <2>2, TasksAtRest
  <2>3. CASE ~writing[s]
    <3>1. in_flight[s] = <<>> /\ DoWrite(s, in_flight[s])
      BY <1>5, <2>3, OneInFlight DEF StartWrite, WriteFacts
    <3>2. \A r \in Session \ {s} : in_flight'[r] = in_flight[r] /\ write_queue'[r] = write_queue[r]
      BY <3>1, DoWriteFacts DEF WriteFacts
    <3>3. active[s] = "none" => in_flight'[s] = in_flight[s] /\ write_queue'[s] = write_queue[s]
      BY <3>1 DEF DoWrite, WritesOK
    <3> QED
      BY <2>1, <3>2, <3>3, TasksAtRest
  <2> QED
    BY <1>5, <2>2, <2>3 DEF StartWrite
<1>6. ASSUME NEW s \in Session, WriteDone(s)
      PROVE  TaskFacts'
  <2>1. UNCHANGED <<server, serverVars, reading>> /\ in_flight[s] # <<>>
    BY <1>6 DEF WriteDone
  <2>2. \A r \in Session \ {s} : owed'[r] = owed[r]
    BY <1>6 DEF WriteDone, WritesOK
  <2>3. active[s] # "none"
    BY <2>1 DEF TaskFacts, Untouched
  <2>4. CASE active[s] = "open"
    <3>1. DoWrite(s, <<>>) /\ UNCHANGED <<active, tasks>>
      <4>1. Tail(in_flight[s]) = <<>>
        BY <2>1, OneInFlight DEF WriteFacts
      <4> QED
        BY <1>6, <2>4, <4>1 DEF WriteDone
    <3>2. \A r \in Session \ {s} : in_flight'[r] = in_flight[r] /\ write_queue'[r] = write_queue[r]
      BY <3>1, DoWriteFacts DEF WriteFacts
    <3>3. \A r \in Session : active[r] = "none" => r # s
      BY <2>3
    <3> QED
      BY <2>1, <2>2, <3>1, <3>2, <3>3, TasksAtRest DEF serverVars
  <2>5. CASE active[s] # "open"
    <3>1. Close(s) /\ UNCHANGED write_queue
      BY <1>6, <2>5 DEF WriteDone
    <3>2. \A r \in Session \ {s} : in_flight'[r] = in_flight[r]
      BY <1>6, <2>5 DEF WriteDone, WritesOK
    <3> QED
      BY <2>1, <2>2, <3>1, <3>2, CloseStep
  <2> QED
    BY <2>4, <2>5
<1>7. CASE Send
  <2>1. UNCHANGED <<server, tasks, session_to_products, product_to_sessions, active, reading, in_flight>>
    BY <1>7 DEF Send, serverVars
  <2>2. PICK one \in sending :
          IF active[one[1]] = "open"
          THEN /\ write_queue' = [write_queue EXCEPT ![one[1]]["worker"] = Append(@, one[2])]
               /\ owed' = [owed EXCEPT ![one[1]] = Append(@, one[2])]
          ELSE UNCHANGED <<write_queue, owed>>
    BY <1>7 DEF Send
  <2>3. \A r \in Session : active[r] = "none" => owed'[r] = owed[r] /\ write_queue'[r] = write_queue[r]
    BY <2>2 DEF WritesOK
  <2> QED
    BY <2>1, <2>3, TasksAtRest
<1>8. ASSUME NEW p \in Product, Publish(p) \/ PublishInfo(p)
      PROVE  TaskFacts'
  <2>1. UNCHANGED <<server, session_to_products, product_to_sessions, active, reading, in_flight,
                    owed, write_queue>>
    BY <1>8 DEF Publish, PublishInfo, serverVars, writeVars, clientVars
  <2>2. tasks'["io"] = tasks["io"]
    BY <1>8 DEF Publish, PublishInfo, TasksOK, Thread
  <2> QED
    BY <2>1, <2>2, TasksAtRest
<1>9. CASE SendKick \/ StopServer \/ UNCHANGED vars
  <2>1. UNCHANGED <<tasks, session_to_products, product_to_sessions, active, reading, in_flight,
                    owed, write_queue>>
    BY <1>9 DEF SendKick, StopServer, vars, serverVars, writeVars, clientVars
  <2>2. server' = "stopped" <=> server = "stopped"
    BY <1>9 DEF SendKick, StopServer, vars
  <2> QED
    BY <2>1, <2>2, TasksAtRest
<1>10. CASE CloseSessions
  <2>1. /\ server' = "stopped"
        /\ active' = [s \in Session |-> IF session_to_products[s] # None THEN "closed" ELSE active[s]]
        /\ session_to_products' = [s \in Session |-> None]
        /\ product_to_sessions' = [p \in Product |-> {}]
        /\ UNCHANGED <<reading, in_flight, owed, write_queue>>
    BY <1>10 DEF CloseSessions, writeVars, clientVars
  <2>2. tasks'["io"] = tasks["io"]
    <3>1. PICK own : tasks' = [tasks EXCEPT !["owner"] = own]
      BY <1>10 DEF CloseSessions
    <3> QED
      BY <3>1 DEF TasksOK, Thread
  <2>3. \A s \in Session : Forgotten(s)'
    BY <2>1 DEF Forgotten
  <2>4. \A s \in Session : active'[s] = "none" => active[s] = "none"
    BY <2>1
  <2>5. \A s : NoTask(s)' <=> NoTask(s)
    BY <2>2 DEF NoTask
  <2>6. MapsAgree' /\ ClosedLeaves' /\ StopClears'
    BY <2>1, <2>3 DEF MapsAgree, ClosedLeaves, StopClears
  <2>7. Untouched'
    BY <2>1, <2>3, <2>4, <2>5 DEF TaskFacts, Untouched
  <2>8. AddIsFirst'
    BY <2>2, <2>3, TaskTypes DEF TaskFacts, AddIsFirst
  <2> QED
    BY <2>6, <2>7, <2>8 DEF TaskFacts
<1> QED
  BY <1>1, <1>2, <1>3, <1>4, <1>5, <1>6, <1>7, <1>8, <1>9, <1>10, RunTaskStep
  DEF Next, PublisherStep, ClientStep, WorkerStep, IoStep
-----------------------------------------------------------------------------
(* The results.                                                            *)

\* The invariant holds initially.
LEMMA ServerInit == Init => ServerInv
<1> SUFFICES ASSUME Init
             PROVE  ServerInv
  OBVIOUS
<1>0. /\ <<>> \in Seq(ClientTask) /\ <<>> \in Seq(PublisherTask) /\ <<>> \in Seq(Ack)
      /\ <<>> \in Seq(BroadcastMsg) /\ <<>> \in Seq(Ack \cup BroadcastMsg) /\ Len(<<>>) = 0
  OBVIOUS
<1>1. tasks["io"] = <<>> /\ tasks["publisher"] = <<>> /\ tasks["owner"] = <<>>
  BY DEF Init
<1>2. TasksOK
  BY <1>0, <1>1 DEF Init, TasksOK, Thread
<1>3. MapsOK
  BY DEF Init, MapsOK, Kinds
<1>4. SessionsOK
  BY DEF Init, SessionsOK
<1>5. WritesOK
  BY <1>0 DEF Init, WritesOK, Enqueuer
<1>6. \A s \in Session : Forgotten(s) /\ NoTask(s) /\ active[s] = "none"
  BY <1>1 DEF Init, Forgotten, NoTask
<1>7. \A s \in Session : in_flight[s] = <<>> /\ owed[s] = <<>> /\ write_queue[s]["worker"] = <<>>
                          /\ write_queue[s]["io"] = <<>>
  BY DEF Init, Enqueuer
<1>8. \A s \in Session : ~reading[s] /\ ~writing[s]
  BY DEF Init
<1>9. Untouched
  BY <1>6, <1>7, <1>8 DEF Untouched
<1>10. AddIsFirst
  BY <1>1 DEF AddIsFirst
<1>11. MapsAgree /\ ClosedLeaves /\ StopClears
  BY <1>6 DEF MapsAgree, ClosedLeaves, StopClears, Forgotten
<1>12. LanesApart
  BY <1>0, <1>7 DEF LanesApart
<1>13. \A s \in Session : OnTheWire(s) = <<>>
  BY <1>7 DEF OnTheWire
<1>14. \A s \in Session : owed[s] = OnTheWire(s) \o write_queue[s]["worker"]
  BY <1>7, <1>13, <<>> = <<>> \o <<>>, Zenon
<1>15. \A s \in Session : Len(in_flight[s]) <= 1 /\ (writing[s] <=> in_flight[s] # <<>>)
  BY <1>0, <1>7, <1>8
<1>16. NothingDropped
  BY <1>14, <1>15 DEF NothingDropped
<1> QED
  BY <1>2, <1>3, <1>4, <1>5, <1>9, <1>10, <1>11, <1>12, <1>16
  DEF ServerInv, ServerTypeOK, TaskFacts, WriteFacts

\* The invariant is kept by every step.
LEMMA ServerStep == ServerInv /\ [Next]_vars => ServerInv'
<1> SUFFICES ASSUME ServerInv, [Next]_vars
             PROVE  ServerInv'
  OBVIOUS
<1>1. TasksOK /\ MapsOK /\ SessionsOK /\ WritesOK /\ TaskFacts /\ WriteFacts /\ Untouched
  BY DEF ServerInv, ServerTypeOK, TaskFacts
<1>2. TasksOK' /\ MapsOK' /\ SessionsOK'
  BY <1>1, TasksStep, MapsStep, SessionsStep
<1>3. WritesOK' /\ WriteFacts'
  BY <1>1, WritesStep
<1>4. TaskFacts'
  BY <1>1, TaskFactsStep
<1> QED
  BY <1>2, <1>3, <1>4 DEF ServerInv, ServerTypeOK

\* Whatever clients, publisher, worker and io thread do, the server's state is well
\* typed and the task and write facts hold.
THEOREM ServerInvariant == Spec => []ServerInv
  BY ServerInit, ServerStep, PTL DEF Spec

\* send_message, do_write and write_queue_: whatever the worker sends an open session
\* is written once and in order, and write_buffer_ is never refilled under async_write.
THEOREM NothingIsDropped == Spec => []NothingDropped
<1>1. ServerInv => NothingDropped
  BY DEF ServerInv, WriteFacts
<1> QED
  BY <1>1, ServerInvariant, PTL

\* close(), REMOVE_SESSION and stop(): a closed session leaves no entry in either map
\* once its tasks are run, whatever it requested before.
THEOREM ClosedIsForgotten == Spec => []ClosedSessionForgotten
<1>1. ServerInv => ClosedSessionForgotten
  <2> SUFFICES ASSUME ServerInv, NEW s \in Session, active[s] = "closed", NoTask(s)
               PROVE  Forgotten(s)
    BY DEF ClosedSessionForgotten, NoTask, Forgotten
  <2>1. TaskFacts
    BY DEF ServerInv
  <2>2. CASE server = "stopped"
    BY <2>1, <2>2 DEF TaskFacts, StopClears
  <2>3. CASE server # "stopped"
    <3>1. ~RemoveIsLast(s)
      BY DEF NoTask, RemoveIsLast
    <3> QED
      BY <2>1, <2>3, <3>1 DEF TaskFacts, ClosedLeaves
  <2> QED
    BY <2>2, <2>3
<1> QED
  BY <1>1, ServerInvariant, PTL
-----------------------------------------------------------------------------
(* The replay of product info.                                             *)

\* The publisher's tasks: index i of the queue retains p, or broadcasts its info.
Queued(i, do, p) == tasks["publisher"][i].do = do /\ tasks["publisher"][i].product = p
InfoQueued(p) == \E i \in DOMAIN tasks["publisher"] : Queued(i, "info", p)

\* PublishInfo enqueues the two together, so a RETAIN is first or right behind its info.
RetainFollowsInfo ==
  \A i \in DOMAIN tasks["publisher"], p \in Product : Queued(i, "retain", p) /\ i # 1 =>
    i - 1 \in DOMAIN tasks["publisher"] /\ Queued(i - 1, "info", p)

\* The RETAINs of a product count up, one by one, from what is retained to the last.
RetainsCountUp ==
  \A i \in DOMAIN tasks["publisher"], p \in Product : Queued(i, "retain", p) =>
    LET v == tasks["publisher"][i].version
    IN  /\ v <= version[p]["info"]
        /\ \/ v = product_infos[p] + 1
           \/ \E j \in DOMAIN tasks["publisher"] :
                j < i /\ Queued(j, "retain", p) /\ tasks["publisher"][j].version = v - 1
        /\ \A j \in DOMAIN tasks["publisher"] : j < i /\ Queued(j, "retain", p) =>
             tasks["publisher"][j].version < v

NewestIsRetained ==
  \A p \in Product :
    \/ product_infos[p] = version[p]["info"]
    \/ \E i \in DOMAIN tasks["publisher"] :
         Queued(i, "retain", p) /\ tasks["publisher"][i].version = version[p]["info"]

\* The last info still to be broadcast is the newest.
NewestIsBroadcast ==
  \A i \in DOMAIN tasks["publisher"], p \in Product : Queued(i, "info", p) =>
    \/ tasks["publisher"][i].version = version[p]["info"]
    \/ \E j \in DOMAIN tasks["publisher"] : j > i /\ Queued(j, "info", p)

\* One task sends a session one message.
SentOnce == \A x, y \in sending : x[1] = y[1] => x = y

InfoOf(m, p) == m.kind = "info" /\ m.product = p

\* v is the product info s ends up with when all that was sent to it has arrived.
Heading(s, p, v) ==
  \/ \E x \in sending : x[1] = s /\ InfoOf(x[2], p) /\ x[2].version = v
  \/ /\ \A x \in sending : x[1] = s => ~InfoOf(x[2], p)
     /\ \/ \E i \in DOMAIN owed[s] :
              /\ InfoOf(owed[s][i], p) /\ owed[s][i].version = v
              /\ \A j \in DOMAIN owed[s] : j > i => ~InfoOf(owed[s][j], p)
        \/ /\ \A i \in DOMAIN owed[s] : ~InfoOf(owed[s][i], p)
           /\ informed[s][p] = v

\* A subscriber is heading for the newest info, or the one before, unless another
\* broadcast is still to come.
HeadedForNews ==
  \A s \in Session, p \in Product :
    active[s] = "open" /\ s \in product_to_sessions[p] /\ ~InfoQueued(p) =>
      \A v \in Nat : Heading(s, p, v) => v >= version[p]["info"] - 1

QueueFacts == RetainFollowsInfo /\ RetainsCountUp /\ NewestIsRetained /\ NewestIsBroadcast
InfoFacts == QueueFacts /\ SentOnce /\ HeadedForNews

\* A task of the publisher's queue.
LEMMA PublisherTypes ==
  ASSUME TasksOK, NEW i \in DOMAIN tasks["publisher"]
  PROVE  /\ tasks["publisher"][i] \in PublisherTask /\ i \in Nat /\ i # 0
         /\ tasks["publisher"][i].version \in Nat /\ tasks["publisher"][i].product \in Product
<1>1. tasks["publisher"][i] \in PublisherTask /\ i \in Nat /\ i # 0
  BY DEF TasksOK
<1> QED
  BY <1>1 DEF PublisherTask

\* With no info left to broadcast, at most the newest is not retained yet.
LEMMA RetainedIsRecent ==
  ASSUME TasksOK, MapsOK, QueueFacts, NEW p \in Product, ~InfoQueued(p)
  PROVE  product_infos[p] >= version[p]["info"] - 1
<1>1. product_infos[p] \in Nat /\ version[p]["info"] \in Nat
  BY DEF MapsOK, Kinds
<1>2. CASE product_infos[p] = version[p]["info"]
  BY <1>1, <1>2
<1>3. CASE product_infos[p] # version[p]["info"]
  <2>1. PICK i \in DOMAIN tasks["publisher"] :
          Queued(i, "retain", p) /\ tasks["publisher"][i].version = version[p]["info"]
    BY <1>3 DEF QueueFacts, NewestIsRetained
  <2>2. i = 1
    BY <2>1 DEF QueueFacts, RetainFollowsInfo, InfoQueued
  <2>3. \A j \in DOMAIN tasks["publisher"] : ~(j < i)
    BY <2>2, PublisherTypes
  <2>4. version[p]["info"] = product_infos[p] + 1
    BY <2>1, <2>3 DEF QueueFacts, RetainsCountUp
  <2> QED
    BY <1>1, <2>4
<1> QED
  BY <1>2, <1>3

\* A step that does not concern the publisher's queue.
LEMMA QueueAtRest ==
  ASSUME QueueFacts, tasks'["publisher"] = tasks["publisher"], UNCHANGED <<product_infos, version>>
  PROVE  QueueFacts'
  BY DEF QueueFacts, RetainFollowsInfo, RetainsCountUp, NewestIsRetained, NewestIsBroadcast, Queued

\* Publish.
LEMMA QueueData ==
  ASSUME TasksOK, MapsOK, QueueFacts, NEW p \in Product, Publish(p)
  PROVE  QueueFacts' /\ \A r \in Product : (InfoQueued(r)' <=> InfoQueued(r))
<1> DEFINE q == tasks["publisher"]
           w == tasks'["publisher"]
           n == Len(q) + 1
<1>1. PICK k : k = Task("data", None, p, version[p]["data"] + 1)
  OBVIOUS
<1>2. k \in PublisherTask /\ k.do = "data"
  BY <1>1 DEF Task, PublisherTask, MapsOK, Kinds
<1>3. w = Append(q, k)
  BY <1>1 DEF Publish, TasksOK, Thread
<1>4. /\ DOMAIN w = DOMAIN q \cup {n} /\ n \in Nat
      /\ \A i \in DOMAIN q : w[i] = q[i] /\ i \in Nat /\ i < n
      /\ w[n] = k
  BY <1>2, <1>3, AppendFacts DEF TasksOK
<1>5. UNCHANGED product_infos /\ \A r \in Product : version'[r]["info"] = version[r]["info"]
  BY DEF Publish, serverVars, MapsOK, Kinds
<1> HIDE DEF n
<1>6. \A i \in DOMAIN w, r \in Product, do \in {"info", "retain"} :
        Queued(i, do, r)' => i \in DOMAIN q /\ Queued(i, do, r) /\ w[i] = q[i]
  BY <1>2, <1>4 DEF Queued
<1>7. \A i \in DOMAIN q, r \in Product : \A do : Queued(i, do, r) => Queued(i, do, r)' /\ i \in DOMAIN w
  BY <1>4 DEF Queued
<1>8. RetainFollowsInfo'
  BY <1>6, <1>7 DEF QueueFacts, RetainFollowsInfo
<1>9. RetainsCountUp'
  <2> SUFFICES ASSUME NEW i \in DOMAIN w, NEW r \in Product, Queued(i, "retain", r)'
               PROVE  /\ w[i].version <= version'[r]["info"]
                      /\ \/ w[i].version = product_infos'[r] + 1
                         \/ \E j \in DOMAIN w :
                              j < i /\ Queued(j, "retain", r)' /\ w[j].version = w[i].version - 1
                      /\ \A j \in DOMAIN w : j < i /\ Queued(j, "retain", r)' =>
                           w[j].version < w[i].version
    BY DEF RetainsCountUp
  <2>1. i \in DOMAIN q /\ Queued(i, "retain", r) /\ w[i] = q[i]
    BY <1>6
  <2>2. /\ q[i].version <= version[r]["info"]
        /\ \/ q[i].version = product_infos[r] + 1
           \/ \E j \in DOMAIN q : j < i /\ Queued(j, "retain", r) /\ q[j].version = q[i].version - 1
        /\ \A j \in DOMAIN q : j < i /\ Queued(j, "retain", r) => q[j].version < q[i].version
    BY <2>1 DEF QueueFacts, RetainsCountUp
  <2> QED
    BY <1>4, <1>5, <1>6, <1>7, <2>1, <2>2
<1>10. NewestIsRetained'
  BY <1>4, <1>5, <1>7 DEF QueueFacts, NewestIsRetained
<1>11. NewestIsBroadcast'
  BY <1>5, <1>6, <1>7 DEF QueueFacts, NewestIsBroadcast
<1>12. \A r \in Product : (InfoQueued(r)' <=> InfoQueued(r))
  BY <1>6, <1>7 DEF InfoQueued
<1> QED
  BY <1>8, <1>9, <1>10, <1>11, <1>12 DEF QueueFacts

\* PublishInfo: the broadcast and the RETAIN of one more version.
LEMMA QueueInfo ==
  ASSUME TasksOK, MapsOK, QueueFacts, NEW p \in Product, PublishInfo(p)
  PROVE  /\ QueueFacts' /\ InfoQueued(p)'
         /\ \A r \in Product \ {p} : (InfoQueued(r)' <=> InfoQueued(r))
                                      /\ version'[r]["info"] = version[r]["info"]
<1> DEFINE q == tasks["publisher"]
           w == tasks'["publisher"]
<1>0. PICK n : n = Len(q) + 1
  OBVIOUS
<1>1. PICK v : v = version[p]["info"] + 1
  OBVIOUS
<1>2. PICK k, l : k = Task("info", None, p, v) /\ l = Task("retain", None, p, v)
  OBVIOUS
<1>3. v \in Nat /\ version[p]["info"] \in Nat /\ v > version[p]["info"] /\ v - 1 = version[p]["info"]
  <2>1. version[p]["info"] \in Nat
    BY DEF MapsOK, Kinds
  <2> QED
    BY <1>1, <2>1
<1>4. /\ k \in PublisherTask /\ k.do = "info" /\ k.product = p /\ k.version = v
      /\ l \in PublisherTask /\ l.do = "retain" /\ l.product = p /\ l.version = v
  BY <1>2, <1>3 DEF Task, PublisherTask
<1>5. w = q \o <<k, l>> /\ q \in Seq(PublisherTask)
  BY <1>1, <1>2 DEF PublishInfo, TasksOK, Thread
<1>6. /\ DOMAIN w = DOMAIN q \cup {n, n + 1} /\ n \in Nat /\ n # 0
      /\ \A i \in DOMAIN q : w[i] = q[i] /\ i \in Nat /\ i < n
      /\ w[n] = k /\ w[n + 1] = l
  BY <1>0, <1>4, <1>5
<1>7. /\ UNCHANGED product_infos /\ version'[p]["info"] = v
      /\ \A r \in Product \ {p} : version'[r]["info"] = version[r]["info"]
  BY <1>1 DEF PublishInfo, serverVars, MapsOK, Kinds
<1>8. /\ \A i \in DOMAIN q : \A r, do : Queued(i, do, r) <=> Queued(i, do, r)'
      /\ \A r : (Queued(n, "info", r)' <=> r = p) /\ ~Queued(n, "retain", r)'
      /\ \A r : (Queued(n + 1, "retain", r)' <=> r = p) /\ ~Queued(n + 1, "info", r)'
  BY <1>4, <1>6 DEF Queued
<1>9. RetainFollowsInfo'
  <2> SUFFICES ASSUME NEW i \in DOMAIN w, NEW r \in Product, Queued(i, "retain", r)', i # 1
               PROVE  i - 1 \in DOMAIN w /\ Queued(i - 1, "info", r)'
    BY DEF RetainFollowsInfo
  <2>1. CASE i = n + 1
    BY <1>6, <1>8, <2>1
  <2>2. CASE i \in DOMAIN q
    BY <1>6, <1>8, <2>2 DEF QueueFacts, RetainFollowsInfo
  <2> QED
    BY <1>6, <1>8, <2>1, <2>2
<1>10. ASSUME NEW i \in DOMAIN q, NEW r \in Product, Queued(i, "retain", r)
       PROVE  q[i].version <= version[r]["info"] /\ q[i].version \in Nat
  BY <1>10, PublisherTypes DEF QueueFacts, RetainsCountUp
<1>11. \A r \in Product : version[r]["info"] <= version'[r]["info"]
                          /\ version[r]["info"] \in Nat /\ version'[r]["info"] \in Nat
  BY <1>3, <1>7 DEF MapsOK, Kinds
<1>12. RetainsCountUp'
  <2> SUFFICES ASSUME NEW i \in DOMAIN w, NEW r \in Product, Queued(i, "retain", r)'
               PROVE  /\ w[i].version <= version'[r]["info"]
                      /\ \/ w[i].version = product_infos'[r] + 1
                         \/ \E j \in DOMAIN w :
                              j < i /\ Queued(j, "retain", r)' /\ w[j].version = w[i].version - 1
                      /\ \A j \in DOMAIN w : j < i /\ Queued(j, "retain", r)' =>
                           w[j].version < w[i].version
    BY DEF RetainsCountUp
  <2>1. CASE i = n + 1
    <3>1. r = p /\ w[i].version = v /\ version'[r]["info"] = v
      BY <1>4, <1>6, <1>7, <1>8, <2>1
    <3>2. v = product_infos'[p] + 1
          \/ \E j \in DOMAIN w : j < i /\ Queued(j, "retain", p)' /\ w[j].version = v - 1
      <4>1. CASE product_infos[p] = version[p]["info"]
        BY <1>1, <1>7, <4>1
      <4>2. CASE product_infos[p] # version[p]["info"]
        <5>1. PICK j \in DOMAIN q : Queued(j, "retain", p) /\ q[j].version = version[p]["info"]
          BY <4>2 DEF QueueFacts, NewestIsRetained
        <5>2. j \in DOMAIN w /\ j < i /\ Queued(j, "retain", p)' /\ w[j].version = v - 1
          BY <1>3, <1>6, <1>8, <2>1, <5>1
        <5> QED
          BY <5>2
      <4> QED
        BY <4>1, <4>2
    <3>3. ASSUME NEW j \in DOMAIN w, j < i, Queued(j, "retain", p)'
          PROVE  w[j].version < v
      <4>1. j \in DOMAIN q /\ Queued(j, "retain", p) /\ w[j] = q[j]
        BY <1>6, <1>8, <2>1, <3>3
      <4> QED
        BY <1>3, <1>10, <4>1
    <3> QED
      BY <1>3, <3>1, <3>2, <3>3
  <2>2. CASE i \in DOMAIN q
    <3>1. Queued(i, "retain", r) /\ w[i] = q[i] /\ i < n /\ i \in Nat
      BY <1>6, <1>8, <2>2
    <3>2. /\ q[i].version <= version[r]["info"]
          /\ \/ q[i].version = product_infos[r] + 1
             \/ \E j \in DOMAIN q : j < i /\ Queued(j, "retain", r) /\ q[j].version = q[i].version - 1
          /\ \A j \in DOMAIN q : j < i /\ Queued(j, "retain", r) => q[j].version < q[i].version
      BY <2>2, <3>1 DEF QueueFacts, RetainsCountUp
    <3>3. q[i].version <= version'[r]["info"]
      BY <1>10, <1>11, <2>2, <3>1
    <3>4. \A j \in DOMAIN w : j < i => j \in DOMAIN q
      BY <1>6, <3>1
    <3>5. \A j \in DOMAIN w : j < i /\ Queued(j, "retain", r)' => w[j].version < w[i].version
      BY <1>6, <1>8, <3>1, <3>2, <3>4
    <3>6. \/ w[i].version = product_infos'[r] + 1
          \/ \E j \in DOMAIN w : j < i /\ Queued(j, "retain", r)' /\ w[j].version = w[i].version - 1
      BY <1>6, <1>7, <1>8, <3>1, <3>2
    <3> QED
      BY <3>1, <3>3, <3>5, <3>6
  <2> QED
    BY <1>6, <1>8, <2>1, <2>2
<1>13. NewestIsRetained'
  <2> SUFFICES ASSUME NEW r \in Product
               PROVE  \/ product_infos'[r] = version'[r]["info"]
                      \/ \E i \in DOMAIN w : Queued(i, "retain", r)' /\ w[i].version = version'[r]["info"]
    BY DEF NewestIsRetained
  <2>1. CASE r = p
    BY <1>4, <1>6, <1>7, <1>8, <2>1
  <2>2. CASE r # p
    BY <1>6, <1>7, <1>8, <2>2 DEF QueueFacts, NewestIsRetained
  <2> QED
    BY <2>1, <2>2
<1>14. NewestIsBroadcast'
  <2> SUFFICES ASSUME NEW i \in DOMAIN w, NEW r \in Product, Queued(i, "info", r)'
               PROVE  \/ w[i].version = version'[r]["info"]
                      \/ \E j \in DOMAIN w : j > i /\ Queued(j, "info", r)'
    BY DEF NewestIsBroadcast
  <2>1. CASE i = n
    BY <1>4, <1>6, <1>7, <1>8, <2>1
  <2>2. CASE i \in DOMAIN q /\ r = p
    BY <1>6, <1>8, <2>2
  <2>3. CASE i \in DOMAIN q /\ r # p
    BY <1>6, <1>7, <1>8, <2>3 DEF QueueFacts, NewestIsBroadcast
  <2> QED
    BY <1>6, <1>8, <2>1, <2>2, <2>3
<1>15. InfoQueued(p)'
  BY <1>6, <1>8 DEF InfoQueued
<1>16. \A r \in Product \ {p} : (InfoQueued(r)' <=> InfoQueued(r))
  BY <1>6, <1>8 DEF InfoQueued
<1> QED
  BY <1>7, <1>9, <1>12, <1>13, <1>14, <1>15, <1>16 DEF QueueFacts

\* The worker takes the publisher's first task, and retains its version if it says so.
LEMMA QueueTake ==
  ASSUME TasksOK, MapsOK, QueueFacts, tasks["publisher"] # <<>>,
         tasks'["publisher"] = Tail(tasks["publisher"]), UNCHANGED version,
         NEW k, k = Head(tasks["publisher"]),
         product_infos' = IF k.do = "retain" THEN [product_infos EXCEPT ![k.product] = k.version]
                          ELSE product_infos
  PROVE  /\ QueueFacts'
         /\ \A r \in Product : InfoQueued(r) => InfoQueued(r)' \/ (k.do = "info" /\ k.product = r)
         /\ k.do = "info" => k.version = version[k.product]["info"] \/ InfoQueued(k.product)'
<1> DEFINE q == tasks["publisher"]
           w == tasks'["publisher"]
<1>1. /\ 1 \in DOMAIN q /\ k = q[1]
      /\ \A i \in DOMAIN w : i \in Nat /\ i # 0 /\ i + 1 \in DOMAIN q /\ w[i] = q[i + 1]
      /\ \A i \in DOMAIN q : i \in Nat /\ (i = 1 \/ (i > 1 /\ i - 1 \in DOMAIN w /\ w[i - 1] = q[i]))
  <2>1. \A i \in DOMAIN w : i # 0
    BY DEF TasksOK
  <2> QED
    BY <2>1, TailFacts DEF TasksOK
<1>2. k \in PublisherTask /\ k.product \in Product /\ k.version \in Nat
  BY <1>1, PublisherTypes
<1>3. \A i \in DOMAIN w : \A r, do : Queued(i, do, r)' <=> Queued(i + 1, do, r)
  BY <1>1 DEF Queued
<1>4. \A i \in DOMAIN q : \A r, do : Queued(i, do, r) =>
        \/ i = 1 /\ k.do = do /\ k.product = r
        \/ i > 1 /\ i - 1 \in DOMAIN w /\ Queued(i - 1, do, r)' /\ w[i - 1] = q[i]
  BY <1>1 DEF Queued
<1>5. \A r, do : Queued(1, do, r) <=> k.do = do /\ k.product = r
  BY <1>1 DEF Queued
<1>6. k.do = "retain" => k.version = product_infos[k.product] + 1
  <2>1. \A j \in DOMAIN q : ~(j < 1)
    BY <1>1
  <2> QED
    BY <1>1, <1>2, <1>5, <2>1 DEF QueueFacts, RetainsCountUp
<1>7. \A r \in Product : product_infos'[r] = IF k.do = "retain" /\ k.product = r THEN k.version
                                             ELSE product_infos[r]
  BY <1>2 DEF MapsOK
<1>8. RetainFollowsInfo'
  <2> SUFFICES ASSUME NEW i \in DOMAIN w, NEW r \in Product, Queued(i, "retain", r)', i # 1
               PROVE  i - 1 \in DOMAIN w /\ Queued(i - 1, "info", r)'
    BY DEF RetainFollowsInfo
  <2>1. i \in Nat /\ i # 0 /\ i + 1 \in DOMAIN q /\ Queued(i + 1, "retain", r) /\ i + 1 # 1
    BY <1>1, <1>3
  <2>2. i \in DOMAIN q /\ Queued(i, "info", r)
    <3>1. (i + 1) - 1 \in DOMAIN q /\ Queued((i + 1) - 1, "info", r)
      BY <2>1 DEF QueueFacts, RetainFollowsInfo
    <3>2. (i + 1) - 1 = i
      BY <2>1
    <3> QED
      BY <3>1, <3>2
  <2> QED
    BY <1>4, <2>2
<1>9. RetainsCountUp'
  <2> SUFFICES ASSUME NEW i \in DOMAIN w, NEW r \in Product, Queued(i, "retain", r)'
               PROVE  /\ w[i].version <= version'[r]["info"]
                      /\ \/ w[i].version = product_infos'[r] + 1
                         \/ \E j \in DOMAIN w :
                              j < i /\ Queued(j, "retain", r)' /\ w[j].version = w[i].version - 1
                      /\ \A j \in DOMAIN w : j < i /\ Queued(j, "retain", r)' =>
                           w[j].version < w[i].version
    BY DEF RetainsCountUp
  <2>1. i \in Nat /\ i # 0 /\ i + 1 \in DOMAIN q /\ Queued(i + 1, "retain", r) /\ w[i] = q[i + 1]
    BY <1>1, <1>3
  <2>2. /\ w[i].version <= version[r]["info"]
        /\ \/ w[i].version = product_infos[r] + 1
           \/ \E j \in DOMAIN q : j < i + 1 /\ Queued(j, "retain", r) /\ q[j].version = w[i].version - 1
        /\ \A j \in DOMAIN q : j < i + 1 /\ Queued(j, "retain", r) => q[j].version < w[i].version
    BY <2>1 DEF QueueFacts, RetainsCountUp
  <2>3. ASSUME NEW j \in DOMAIN w, j < i, Queued(j, "retain", r)'
        PROVE  w[j].version < w[i].version
    <3>1. j \in Nat /\ j + 1 \in DOMAIN q /\ Queued(j + 1, "retain", r) /\ w[j] = q[j + 1]
      BY <1>1, <1>3, <2>3
    <3>2. j + 1 < i + 1
      BY <2>1, <2>3, <3>1
    <3> QED
      BY <2>2, <3>1, <3>2
  <2>4. w[i].version \in Nat /\ product_infos[r] \in Nat
    <3>1. q[i + 1].version \in Nat
      BY <2>1, PublisherTypes
    <3> QED
      BY <2>1, <3>1 DEF MapsOK
  <2>5. CASE \E j \in DOMAIN q : j < i + 1 /\ Queued(j, "retain", r) /\ q[j].version = w[i].version - 1
    <3>1. PICK j \in DOMAIN q : j < i + 1 /\ Queued(j, "retain", r) /\ q[j].version = w[i].version - 1
      BY <2>5
    <3>2. CASE j = 1
      <4>1. k.do = "retain" /\ k.product = r /\ k.version = w[i].version - 1
        BY <1>1, <1>5, <3>1, <3>2
      <4>2. product_infos'[r] = w[i].version - 1
        BY <1>7, <4>1
      <4>3. w[i].version = product_infos'[r] + 1
        BY <2>4, <4>2
      <4> QED
        BY <2>2, <2>3, <4>3
    <3>3. CASE j # 1
      <4>1. j \in Nat /\ j - 1 \in DOMAIN w /\ Queued(j - 1, "retain", r)' /\ w[j - 1] = q[j]
        BY <1>1, <1>4, <3>1, <3>3
      <4>2. j - 1 < i
        BY <2>1, <3>1, <4>1
      <4>3. \E h \in DOMAIN w : h < i /\ Queued(h, "retain", r)' /\ w[h].version = w[i].version - 1
        BY <3>1, <4>1, <4>2
      <4> QED
        BY <2>2, <2>3, <4>3
    <3> QED
      BY <3>2, <3>3
  <2>6. CASE w[i].version = product_infos[r] + 1
    <3>1. ~(k.do = "retain" /\ k.product = r)
      <4> SUFFICES ASSUME k.do = "retain", k.product = r
                   PROVE  FALSE
        OBVIOUS
      <4>1. k.version < w[i].version
        <5>1. 1 < i + 1
          BY <2>1
        <5> QED
          BY <1>1, <1>5, <2>2, <5>1
      <4>2. k.version = product_infos[r] + 1
        BY <1>6
      <4> QED
        BY <1>2, <2>4, <2>6, <4>1, <4>2
    <3>2. product_infos'[r] = product_infos[r]
      BY <1>7, <3>1
    <3> QED
      BY <2>2, <2>3, <2>6, <3>2
  <2> QED
    BY <2>2, <2>5, <2>6
<1>10. NewestIsRetained'
  <2> SUFFICES ASSUME NEW r \in Product
               PROVE  \/ product_infos'[r] = version[r]["info"]
                      \/ \E i \in DOMAIN w : Queued(i, "retain", r)' /\ w[i].version = version[r]["info"]
    BY DEF NewestIsRetained
  <2>1. CASE k.do = "retain" /\ k.product = r
    <3>1. product_infos'[r] = k.version /\ k.version = product_infos[r] + 1
      BY <1>6, <1>7, <2>1
    <3>2. product_infos[r] # version[r]["info"]
      <4>1. k.version <= version[r]["info"]
        BY <1>1, <1>5, <2>1 DEF QueueFacts, RetainsCountUp
      <4>2. product_infos[r] \in Nat
        BY DEF MapsOK
      <4> QED
        BY <3>1, <4>1, <4>2
    <3>3. PICK i \in DOMAIN q : Queued(i, "retain", r) /\ q[i].version = version[r]["info"]
      BY <3>2 DEF QueueFacts, NewestIsRetained
    <3> QED
      BY <1>1, <1>4, <3>1, <3>3
  <2>2. CASE ~(k.do = "retain" /\ k.product = r)
    <3>1. product_infos'[r] = product_infos[r]
      BY <1>7, <2>2
    <3> QED
      BY <1>4, <2>2, <3>1 DEF QueueFacts, NewestIsRetained
  <2> QED
    BY <2>1, <2>2
<1>11. ASSUME NEW i \in DOMAIN q, NEW r \in Product, Queued(i, "info", r)
       PROVE  \/ q[i].version = version[r]["info"]
              \/ \E j \in DOMAIN w : j > i - 1 /\ Queued(j, "info", r)'
  <2>1. CASE \E j \in DOMAIN q : j > i /\ Queued(j, "info", r)
    <3>1. PICK j \in DOMAIN q : j > i /\ Queued(j, "info", r)
      BY <2>1
    <3>2. i \in Nat /\ j \in Nat /\ j # 1 /\ i # 0
      BY <1>1, <3>1, PublisherTypes
    <3>3. j - 1 \in DOMAIN w /\ Queued(j - 1, "info", r)'
      BY <1>4, <3>1, <3>2
    <3>4. j - 1 > i - 1
      BY <3>1, <3>2
    <3> QED
      BY <3>3, <3>4
  <2> QED
    BY <1>11, <2>1 DEF QueueFacts, NewestIsBroadcast
<1>12. NewestIsBroadcast'
  <2> SUFFICES ASSUME NEW i \in DOMAIN w, NEW r \in Product, Queued(i, "info", r)'
               PROVE  \/ w[i].version = version[r]["info"]
                      \/ \E j \in DOMAIN w : j > i /\ Queued(j, "info", r)'
    BY DEF NewestIsBroadcast
  <2>1. i \in Nat /\ i + 1 \in DOMAIN q /\ Queued(i + 1, "info", r) /\ w[i] = q[i + 1] /\ (i + 1) - 1 = i
    BY <1>1, <1>3
  <2> QED
    BY <1>11, <2>1
<1>13. \A r \in Product : InfoQueued(r) => InfoQueued(r)' \/ (k.do = "info" /\ k.product = r)
  BY <1>4 DEF InfoQueued
<1>14. k.do = "info" => k.version = version[k.product]["info"] \/ InfoQueued(k.product)'
  BY <1>1, <1>2, <1>5, <1>11 DEF InfoQueued
<1> QED
  BY <1>8, <1>9, <1>10, <1>12, <1>13, <1>14 DEF QueueFacts

\* A step that sends no session anything and makes no subscriber.
LEMMA HeadedAtRest ==
  ASSUME HeadedForNews, UNCHANGED sending,
         \A s \in Session, p \in Product : active'[s] = "open" /\ s \in product_to_sessions'[p] =>
           /\ active[s] = "open" /\ s \in product_to_sessions[p]
           /\ owed'[s] = owed[s] /\ informed'[s] = informed[s],
         \A p \in Product :
           InfoQueued(p)' \/ (~InfoQueued(p) /\ version'[p]["info"] = version[p]["info"])
  PROVE  HeadedForNews'
<1> SUFFICES ASSUME NEW s \in Session, NEW p \in Product,
                    active'[s] = "open", s \in product_to_sessions'[p], ~InfoQueued(p)',
                    NEW v \in Nat, Heading(s, p, v)'
             PROVE  v >= version'[p]["info"] - 1
  BY DEF HeadedForNews
<1>1. owed'[s] = owed[s] /\ informed'[s] = informed[s]
  OBVIOUS
<1>2. Heading(s, p, v)
  BY <1>1 DEF Heading
<1> QED
  BY <1>2 DEF HeadedForNews

\* What a write leaves on the client's side: an ack nothing, a broadcast one message
\* less to come.
LEMMA WrittenWasOwed ==
  ASSUME WritesOK, WriteFacts, NEW s \in Session, WriteDone(s), active[s] = "open"
  PROVE  \/ UNCHANGED <<owed, informed>>
         \/ /\ owed[s] # <<>> /\ owed'[s] = Tail(owed[s])
            /\ \A p \in Product : informed'[s][p] = IF InfoOf(Head(owed[s]), p)
                                                   THEN Head(owed[s]).version ELSE informed[s][p]
<1>1. in_flight[s] # <<>>
  BY DEF WriteDone
<1>2. PICK m : m = Head(in_flight[s])
  OBVIOUS
<1>3. in_flight[s] = <<m>> /\ m \in Ack \cup BroadcastMsg
  BY <1>1, <1>2, OneInFlight DEF WriteFacts
<1>4. /\ informed' = IF m.kind # "info" THEN informed
                     ELSE [informed EXCEPT ![s][m.product] = m.version]
      /\ owed' = IF owed[s] = <<>> \/ m # Head(owed[s]) THEN owed
                 ELSE [owed EXCEPT ![s] = Tail(@)]
  BY <1>2 DEF WriteDone
<1>5. PICK w : w = write_queue[s]["worker"]
  OBVIOUS
<1>6. w \in Seq(BroadcastMsg)
  BY <1>5 DEF WriteFacts, LanesApart
<1>7. owed[s] = OnTheWire(s) \o w
  BY <1>5 DEF WriteFacts, NothingDropped
<1>8. CASE m.kind = "ack"
  <2>1. OnTheWire(s) = <<>>
    BY <1>2, <1>8 DEF OnTheWire
  <2>2. owed[s] = w
    BY <1>6, <1>7, <2>1
  <2>3. w # <<>> => Head(w) \in BroadcastMsg
    BY <1>6, TailFacts
  <2>4. w # <<>> => m # Head(w)
    BY <1>8, <2>3 DEF BroadcastMsg, Kinds
  <2> QED
    BY <1>4, <1>8, <2>2, <2>4
<1>9. CASE m.kind # "ack"
  <2>1. OnTheWire(s) = <<m>>
    BY <1>1, <1>2, <1>3, <1>9 DEF OnTheWire
  <2>2. m \in BroadcastMsg
    BY <1>3, <1>9 DEF Ack
  <2>3. owed[s] = <<m>> \o w
    BY <1>7, <2>1
  <2>4. owed[s] # <<>> /\ Head(owed[s]) = m
    BY <1>6, <2>2, <2>3
  <2>5. owed'[s] = Tail(owed[s])
    BY <1>4, <2>4 DEF WritesOK
  <2>6. m.product \in Product
    BY <2>2 DEF BroadcastMsg
  <2>7. \A p \in Product : informed'[s][p] = IF InfoOf(m, p) THEN m.version ELSE informed[s][p]
    BY <1>4, <2>6 DEF WritesOK, InfoOf
  <2> QED
    BY <2>4, <2>5, <2>7
<1> QED
  BY <1>8, <1>9

\* A write that ends brings the client where it was heading.
LEMMA HeadedWrite ==
  ASSUME TasksOK, WritesOK, SessionsOK, WriteFacts, HeadedForNews, NEW s \in Session, WriteDone(s)
  PROVE  HeadedForNews'
<1> SUFFICES ASSUME NEW r \in Session, NEW p \in Product,
                    active'[r] = "open", r \in product_to_sessions'[p], ~InfoQueued(p)',
                    NEW v \in Nat, Heading(r, p, v)'
             PROVE  v >= version'[p]["info"] - 1
  BY DEF HeadedForNews
<1>1. UNCHANGED <<product_to_sessions, sending, version>>
  BY DEF WriteDone, serverVars
<1>2. tasks'["publisher"] = tasks["publisher"] \/ active'[s] # "open"
  BY DEF WriteDone, Close, SessionsOK
<1>3. active[r] = "open"
  BY DEF WriteDone, Close, SessionsOK
<1>4. CASE r = s
  <2>1. tasks'["publisher"] = tasks["publisher"]
    BY <1>2, <1>4
  <2>2. ~InfoQueued(p)
    BY <2>1 DEF InfoQueued, Queued
  <2>3. CASE UNCHANGED <<owed, informed>>
    <3>1. Heading(r, p, v)
      BY <1>1, <2>3 DEF Heading
    <3> QED
      BY <1>1, <1>3, <2>2, <3>1 DEF HeadedForNews
  <2>4. CASE /\ owed[s] # <<>> /\ owed'[s] = Tail(owed[s])
             /\ informed'[s][p] = IF InfoOf(Head(owed[s]), p)
                                  THEN Head(owed[s]).version ELSE informed[s][p]
    <3> DEFINE q == owed[s]
               w == owed'[s]
    <3>1. q \in Seq(BroadcastMsg)
      BY DEF WritesOK
    <3>2. /\ 1 \in DOMAIN q /\ Head(q) = q[1]
          /\ \A i \in DOMAIN w : i \in Nat /\ i + 1 \in DOMAIN q /\ w[i] = q[i + 1]
          /\ \A i \in DOMAIN q : i \in Nat /\ (i = 1 \/ (i > 1 /\ i - 1 \in DOMAIN w /\ w[i - 1] = q[i]))
      BY <2>4, <3>1, TailFacts
    <3>3. CASE \E x \in sending : x[1] = s /\ InfoOf(x[2], p) /\ x[2].version = v
      <4>1. Heading(s, p, v)
        BY <3>3 DEF Heading
      <4> QED
        BY <1>1, <1>3, <1>4, <2>2, <4>1 DEF HeadedForNews
    <3>4. CASE /\ \A x \in sending : x[1] = s => ~InfoOf(x[2], p)
               /\ \E i \in DOMAIN w :
                    /\ InfoOf(w[i], p) /\ w[i].version = v
                    /\ \A j \in DOMAIN w : j > i => ~InfoOf(w[j], p)
      <4>1. PICK i \in DOMAIN w : /\ InfoOf(w[i], p) /\ w[i].version = v
                                  /\ \A j \in DOMAIN w : j > i => ~InfoOf(w[j], p)
        BY <3>4
      <4>2. i \in Nat /\ i + 1 \in DOMAIN q /\ InfoOf(q[i + 1], p) /\ q[i + 1].version = v
        BY <3>2, <4>1
      <4>3. ASSUME NEW j \in DOMAIN q, j > i + 1
            PROVE  ~InfoOf(q[j], p)
        <5>1. j \in Nat /\ j # 1 /\ j - 1 > i
          BY <3>2, <4>2, <4>3, <4>1
        <5> QED
          BY <3>2, <4>1, <5>1
      <4>4. Heading(s, p, v)
        BY <3>4, <4>2, <4>3 DEF Heading
      <4> QED
        BY <1>1, <1>3, <1>4, <2>2, <4>4 DEF HeadedForNews
    <3>5. CASE /\ \A x \in sending : x[1] = s => ~InfoOf(x[2], p)
               /\ \A i \in DOMAIN w : ~InfoOf(w[i], p)
               /\ informed'[s][p] = v
      <4>1. \A j \in DOMAIN q : j # 1 => ~InfoOf(q[j], p)
        BY <3>2, <3>5
      <4>2. Heading(s, p, v)
        <5>1. CASE InfoOf(q[1], p)
          <6>1. q[1].version = v
            BY <2>4, <3>2, <3>5, <5>1
          <6>2. \A j \in DOMAIN q : j > 1 => ~InfoOf(q[j], p)
            BY <4>1
          <6> QED
            BY <3>2, <3>5, <5>1, <6>1, <6>2 DEF Heading
        <5>2. CASE ~InfoOf(q[1], p)
          <6>1. informed[s][p] = v /\ \A j \in DOMAIN q : ~InfoOf(q[j], p)
            BY <2>4, <3>2, <3>5, <4>1, <5>2
          <6> QED
            BY <3>5, <6>1 DEF Heading
        <5> QED
          BY <5>1, <5>2
      <4> QED
        BY <1>1, <1>3, <1>4, <2>2, <4>2 DEF HeadedForNews
    <3> QED
      BY <1>1, <1>4, <3>3, <3>4, <3>5 DEF Heading
  <2> QED
    BY <1>3, <1>4, <2>3, <2>4, WrittenWasOwed
<1>5. CASE r # s
  <2>1. owed'[r] = owed[r] /\ informed'[r] = informed[r]
    BY <1>5 DEF WriteDone, WritesOK
  <2>2. Heading(r, p, v)
    BY <1>1, <2>1 DEF Heading
  <2>3. InfoQueued(p) => InfoQueued(p)'
    <3>1. tasks'["publisher"] = tasks["publisher"]
      <4>1. UNCHANGED tasks \/ \E k : tasks' = [tasks EXCEPT !["io"] = k]
        BY DEF WriteDone, Close, IoTask
      <4> QED
        BY <4>1 DEF TasksOK, Thread
    <3> QED
      BY <3>1 DEF InfoQueued, Queued
  <2> QED
    BY <1>1, <1>3, <2>2, <2>3 DEF HeadedForNews
<1> QED
  BY <1>4, <1>5

\* send_message moves a message from what the task has to send to what is owed.
LEMMA HeadedSend ==
  ASSUME WritesOK, MapsOK, SentOnce, HeadedForNews, Send
  PROVE  SentOnce' /\ HeadedForNews'
<1>1. PICK one \in sending :
        /\ sending' = sending \ {one}
        /\ IF active[one[1]] = "open"
           THEN owed' = [owed EXCEPT ![one[1]] = Append(@, one[2])]
           ELSE UNCHANGED owed
        /\ UNCHANGED <<active, tasks, serverVars, informed, version>>
  BY DEF Send
<1>2. SentOnce'
  BY <1>1 DEF SentOnce
<1>3. PICK s, m : s = one[1] /\ m = one[2]
  OBVIOUS
<1>4. s \in Session /\ m \in BroadcastMsg
  BY <1>3 DEF MapsOK
<1>5. \A x \in sending : x[1] = s => x = one
  BY <1>3 DEF SentOnce
<1>6. HeadedForNews'
  <2> SUFFICES ASSUME NEW r \in Session, NEW p \in Product,
                      active'[r] = "open", r \in product_to_sessions'[p], ~InfoQueued(p)',
                      NEW v \in Nat, Heading(r, p, v)'
               PROVE  v >= version'[p]["info"] - 1
    BY DEF HeadedForNews
  <2>1. active[r] = "open" /\ r \in product_to_sessions[p] /\ ~InfoQueued(p)
    BY <1>1 DEF serverVars, InfoQueued, Queued
  <2>2. CASE r # s
    <3>1. owed'[r] = owed[r] /\ informed'[r] = informed[r]
      BY <1>1, <1>3, <2>2 DEF WritesOK
    <3>2. \A x : x[1] = r => (x \in sending' <=> x \in sending)
      BY <1>1, <1>3, <2>2
    <3>3. Heading(r, p, v)
      BY <3>1, <3>2 DEF Heading
    <3> QED
      BY <1>1, <2>1, <3>3 DEF HeadedForNews
  <2>3. CASE r = s
    <3> DEFINE q == owed[s]
               w == owed'[s]
    <3>0. PICK n : n = Len(q) + 1
      OBVIOUS
    <3>1. w = Append(q, m) /\ q \in Seq(BroadcastMsg)
      BY <1>1, <1>3, <1>4, <2>1, <2>3 DEF WritesOK
    <3>2. /\ DOMAIN w = DOMAIN q \cup {n} /\ n \in Nat /\ w[n] = m
          /\ \A i \in DOMAIN q : w[i] = q[i] /\ i \in Nat /\ i < n
      BY <1>4, <3>0, <3>1, AppendFacts
    <3>3. \A x \in sending' : x[1] # s
      BY <1>1, <1>5
    <3>4. \/ \E i \in DOMAIN w :
               /\ InfoOf(w[i], p) /\ w[i].version = v
               /\ \A j \in DOMAIN w : j > i => ~InfoOf(w[j], p)
          \/ /\ \A i \in DOMAIN w : ~InfoOf(w[i], p)
             /\ informed'[s][p] = v
      BY <2>3, <3>3 DEF Heading
    <3>5. CASE InfoOf(m, p)
      <4>1. m.version = v
        BY <3>2, <3>4, <3>5
      <4>2. Heading(s, p, v)
        BY <1>3, <3>5, <4>1 DEF Heading
      <4> QED
        BY <1>1, <2>1, <2>3, <4>2 DEF HeadedForNews
    <3>6. CASE ~InfoOf(m, p)
      <4>1. \A x \in sending : x[1] = s => ~InfoOf(x[2], p)
        BY <1>3, <1>5, <3>6
      <4>2. \/ \E i \in DOMAIN q :
                 /\ InfoOf(q[i], p) /\ q[i].version = v
                 /\ \A j \in DOMAIN q : j > i => ~InfoOf(q[j], p)
            \/ /\ \A i \in DOMAIN q : ~InfoOf(q[i], p)
               /\ informed[s][p] = v
        BY <1>1, <3>2, <3>4, <3>6
      <4>3. Heading(s, p, v)
        BY <4>1, <4>2 DEF Heading
      <4> QED
        BY <1>1, <2>1, <2>3, <4>3 DEF HeadedForNews
    <3> QED
      BY <3>5, <3>6
  <2> QED
    BY <2>2, <2>3
<1> QED
  BY <1>2, <1>6

\* A broadcast heads every subscriber for the version it carries; if no other info of
\* the product is to come, that is the newest.
LEMMA HeadedBroadcast ==
  ASSUME MapsOK, HeadedForNews, sending = {}, NEW k \in PublisherTask, Broadcast(k),
         UNCHANGED <<active, owed, informed, version>>,
         \A p \in Product : InfoQueued(p) => InfoQueued(p)' \/ (k.do = "info" /\ k.product = p),
         k.do = "info" => k.version = version[k.product]["info"] \/ InfoQueued(k.product)'
  PROVE  SentOnce' /\ HeadedForNews'
<1>1. PICK m : m = Msg(k.do, k.product, k.version)
  OBVIOUS
<1>2. m.kind = k.do /\ m.product = k.product /\ m.version = k.version
  BY <1>1 DEF Msg
<1>3. sending' = {<<s, m>> : s \in product_to_sessions[k.product]}
      /\ UNCHANGED product_to_sessions
  BY <1>1 DEF Broadcast, serverVars
<1>4. SentOnce'
  BY <1>3 DEF SentOnce
<1>5. HeadedForNews'
  <2> SUFFICES ASSUME NEW r \in Session, NEW p \in Product,
                      active[r] = "open", r \in product_to_sessions[p], ~InfoQueued(p)',
                      NEW v \in Nat, Heading(r, p, v)'
               PROVE  v >= version[p]["info"] - 1
    BY <1>3 DEF HeadedForNews
  <2>1. \A x \in sending' : x[2] = m
    BY <1>3
  <2>2. CASE k.do = "info" /\ k.product = p
    <3>1. InfoOf(m, p)
      BY <1>2, <2>2 DEF InfoOf
    <3>2. <<r, m>> \in sending' /\ <<r, m>>[1] = r /\ <<r, m>>[2] = m
      BY <1>3, <2>2
    <3>3. v = m.version
      BY <2>1, <3>1, <3>2 DEF Heading
    <3>4. m.version = version[p]["info"]
      BY <1>2, <2>2
    <3>5. version[p]["info"] \in Nat
      BY DEF MapsOK, Kinds
    <3> QED
      BY <3>3, <3>4, <3>5
  <2>3. CASE ~(k.do = "info" /\ k.product = p)
    <3>1. ~InfoOf(m, p)
      BY <1>2, <2>3 DEF InfoOf
    <3>2. ~InfoQueued(p)
      BY <2>3
    <3>3. Heading(r, p, v)
      BY <2>1, <3>1 DEF Heading
    <3> QED
      BY <3>2, <3>3 DEF HeadedForNews
  <2> QED
    BY <2>2, <2>3
<1> QED
  BY <1>4, <1>5

\* A subscription replays what is retained, which is recent enough.
LEMMA HeadedSubscribe ==
  ASSUME TasksOK, MapsOK, QueueFacts, HeadedForNews, sending = {}, NEW k \in ClientTask, Subscribe(k),
         UNCHANGED <<active, owed, informed, version>>, tasks'["publisher"] = tasks["publisher"]
  PROVE  SentOnce' /\ HeadedForNews'
<1>1. PICK s \in Session, P \in Product : k.session = s /\ k.product = P
  BY DEF Subscribe, ClientTask
<1>2. PICK info : info = product_infos[P]
  OBVIOUS
<1>3. PICK m : m = Msg("info", P, info)
  OBVIOUS
<1>4. m.kind = "info" /\ m.product = P /\ m.version = info
  BY <1>3 DEF Msg
<1>5. /\ product_to_sessions' = [product_to_sessions EXCEPT ![P] = @ \cup {s}]
      /\ sending' = (IF info = 0 THEN {} ELSE {<<s, m>>})
  BY <1>1, <1>2, <1>3 DEF Subscribe
<1>6. SentOnce'
  BY <1>5 DEF SentOnce
<1>7. HeadedForNews'
  <2> SUFFICES ASSUME NEW r \in Session, NEW p \in Product,
                      active[r] = "open", r \in product_to_sessions'[p], ~InfoQueued(p)',
                      NEW v \in Nat, Heading(r, p, v)'
               PROVE  v >= version[p]["info"] - 1
    BY DEF HeadedForNews
  <2>1. ~InfoQueued(p)
    BY DEF InfoQueued, Queued
  <2>2. CASE r = s /\ p = P
    <3>1. info >= version[p]["info"] - 1 /\ info \in Nat /\ version[p]["info"] \in Nat
      BY <1>2, <2>1, <2>2, RetainedIsRecent DEF MapsOK, Kinds
    <3>2. CASE info = 0
      BY <3>1, <3>2
    <3>3. CASE info # 0
      <4>1. sending' = {<<s, m>>} /\ <<s, m>>[1] = s /\ <<s, m>>[2] = m
        BY <1>5, <3>3
      <4>2. InfoOf(m, p)
        BY <1>4, <2>2 DEF InfoOf
      <4>3. v = m.version
        BY <2>2, <4>1, <4>2 DEF Heading
      <4> QED
        BY <1>4, <3>1, <4>3
    <3> QED
      BY <3>2, <3>3
  <2>3. CASE ~(r = s /\ p = P)
    <3>1. r \in product_to_sessions[p]
      BY <1>5, <2>3 DEF MapsOK
    <3>2. \A x \in sending' : x[1] = r => ~InfoOf(x[2], p)
      BY <1>4, <1>5, <2>3 DEF InfoOf
    <3>3. Heading(r, p, v)
      BY <3>2 DEF Heading
    <3> QED
      BY <2>1, <3>1, <3>3 DEF HeadedForNews
  <2> QED
    BY <2>2, <2>3
<1> QED
  BY <1>6, <1>7

\* The worker's step, whichever task it takes.
LEMMA InfoRunTask ==
  ASSUME TasksOK, MapsOK, InfoFacts, RunTask
  PROVE  InfoFacts'
<1>1. PICK t \in DOMAIN tasks :
        /\ TakeTask(t)
        /\ LET k == Head(tasks[t])
           IN  AddSession(k) \/ RemoveSession(k) \/ Subscribe(k) \/ Unsubscribe(k)
                 \/ Broadcast(k) \/ Retain(k)
  BY DEF RunTask
<1>2. sending = {} /\ UNCHANGED <<active, owed, informed, version>>
  BY <1>1 DEF TakeTask, WorkerReady, clientVars
<1>3. /\ tasks[t] # <<>> /\ tasks' = [tasks EXCEPT ![t] = Tail(@)]
      /\ \/ t = "io" /\ Head(tasks["io"]) \in ClientTask
         \/ t = "publisher" /\ Head(tasks["publisher"]) \in PublisherTask
  BY <1>1, TaskTaken
<1>4. PICK k : k = Head(tasks[t])
  OBVIOUS
<1>5. AddSession(k) \/ RemoveSession(k) \/ Subscribe(k) \/ Unsubscribe(k)
        \/ Broadcast(k) \/ Retain(k)
  BY <1>1, <1>4
<1>6. CASE t = "publisher"
  <2>1. tasks'["publisher"] = Tail(tasks["publisher"]) /\ tasks["publisher"] # <<>>
    BY <1>3, <1>6 DEF TasksOK, Thread
  <2>2. k \in PublisherTask /\ k.do \in {"info", "data", "retain"} /\ k = Head(tasks["publisher"])
    BY <1>3, <1>4, <1>6 DEF PublisherTask
  <2>3. Broadcast(k) \/ Retain(k)
    BY <1>5, <2>2 DEF AddSession, RemoveSession, Subscribe, Unsubscribe
  <2>4. product_infos' = IF k.do = "retain" THEN [product_infos EXCEPT ![k.product] = k.version]
                         ELSE product_infos
    BY <2>3 DEF Broadcast, Retain, Kinds, serverVars
  <2>5. /\ QueueFacts'
        /\ \A r \in Product : InfoQueued(r) => InfoQueued(r)' \/ (k.do = "info" /\ k.product = r)
        /\ k.do = "info" => k.version = version[k.product]["info"] \/ InfoQueued(k.product)'
    BY <1>2, <2>1, <2>2, <2>4, QueueTake DEF InfoFacts
  <2>6. CASE Broadcast(k)
    <3>1. SentOnce' /\ HeadedForNews'
      BY <1>2, <2>2, <2>5, <2>6, HeadedBroadcast DEF InfoFacts
    <3> QED
      BY <2>5, <3>1 DEF InfoFacts
  <2>7. CASE Retain(k)
    <3>1. UNCHANGED <<sending, product_to_sessions>> /\ k.do # "info"
      BY <2>7 DEF Retain
    <3>2. SentOnce'
      BY <3>1 DEF InfoFacts, SentOnce
    <3>3. HeadedForNews'
      BY <1>2, <2>5, <3>1, HeadedAtRest DEF InfoFacts
    <3> QED
      BY <2>5, <3>2, <3>3 DEF InfoFacts
  <2> QED
    BY <2>3, <2>6, <2>7
<1>7. CASE t = "io"
  <2>1. tasks'["publisher"] = tasks["publisher"]
    BY <1>3, <1>7 DEF TasksOK, Thread
  <2>2. k \in ClientTask /\ k.do \in {"add", "remove", "subscribe", "unsubscribe"}
    BY <1>3, <1>4, <1>7 DEF ClientTask
  <2>3. AddSession(k) \/ RemoveSession(k) \/ Subscribe(k) \/ Unsubscribe(k)
    BY <1>5, <2>2 DEF Broadcast, Retain, Kinds
  <2>4. UNCHANGED product_infos
    BY <2>3 DEF AddSession, RemoveSession, Subscribe, Unsubscribe
  <2>5. QueueFacts'
    BY <1>2, <2>1, <2>4, QueueAtRest DEF InfoFacts
  <2>6. CASE Subscribe(k)
    <3>1. SentOnce' /\ HeadedForNews'
      BY <1>2, <2>1, <2>2, <2>6, HeadedSubscribe DEF InfoFacts
    <3> QED
      BY <2>5, <3>1 DEF InfoFacts
  <2>7. CASE AddSession(k) \/ RemoveSession(k) \/ Unsubscribe(k)
    <3>1. UNCHANGED sending
      BY <2>7 DEF AddSession, RemoveSession, Unsubscribe
    <3>2. \A s \in Session, p \in Product : s \in product_to_sessions'[p] => s \in product_to_sessions[p]
      <4>1. CASE AddSession(k)
        BY <4>1 DEF AddSession
      <4>2. CASE RemoveSession(k)
        BY <4>2 DEF RemoveSession
      <4>3. CASE Unsubscribe(k)
        BY <4>3 DEF Unsubscribe, MapsOK
      <4> QED
        BY <2>7, <4>1, <4>2, <4>3
    <3>3. SentOnce'
      BY <3>1 DEF InfoFacts, SentOnce
    <3>4. \A p \in Product : InfoQueued(p)' <=> InfoQueued(p)
      BY <2>1 DEF InfoQueued, Queued
    <3>5. HeadedForNews'
      BY <1>2, <3>1, <3>2, <3>4, HeadedAtRest DEF InfoFacts
    <3> QED
      BY <2>5, <3>3, <3>5 DEF InfoFacts
  <2> QED
    BY <2>3, <2>6, <2>7
<1> QED
  BY <1>3, <1>6, <1>7

\* A step in which the worker has no part.
LEMMA InfoAtRest ==
  ASSUME TasksOK, TaskFacts, InfoFacts, UNCHANGED <<sending, product_infos, version>>,
         tasks'["publisher"] = tasks["publisher"],
         \A s \in Session, p \in Product : s \in product_to_sessions'[p] => s \in product_to_sessions[p],
         \A s \in Session : active'[s] = "open" => active[s] \in {"none", "open"},
         \A s \in Session : active'[s] = "open" => owed'[s] = owed[s] /\ informed'[s] = informed[s]
  PROVE  InfoFacts'
<1>1. QueueFacts' /\ SentOnce'
  BY QueueAtRest DEF InfoFacts, SentOnce
<1>2. \A p \in Product : InfoQueued(p)' <=> InfoQueued(p)
  BY DEF InfoQueued, Queued
<1>3. \A s \in Session, p \in Product : active[s] = "none" => s \notin product_to_sessions[p]
  BY DEF TaskFacts, Untouched, Forgotten
<1>4. HeadedForNews'
  BY <1>2, <1>3, HeadedAtRest DEF InfoFacts
<1> QED
  BY <1>1, <1>4 DEF InfoFacts

\* Any step of any thread keeps the info facts.
LEMMA InfoStep ==
  ASSUME ServerInv, InfoFacts, [Next]_vars
  PROVE  InfoFacts'
<1>0. TasksOK /\ MapsOK /\ SessionsOK /\ WritesOK /\ TaskFacts /\ WriteFacts
  BY DEF ServerInv, ServerTypeOK
<1>1. ASSUME NEW s \in Session,
             Accept(s) \/ ReadFails(s) \/ WriteFails(s) \/ StartWrite(s)
      PROVE  InfoFacts'
  <2>1. UNCHANGED <<product_to_sessions, product_infos, sending, version, owed, informed>>
    BY <1>1 DEF Accept, ReadFails, WriteFails, StartWrite, serverVars, clientVars
  <2>2. tasks'["publisher"] = tasks["publisher"]
    BY <1>0, <1>1 DEF Accept, ReadFails, WriteFails, StartWrite, Close, IoTask, TasksOK, Thread
  <2>3. \A r \in Session : active'[r] = "open" => active[r] \in {"none", "open"}
    BY <1>0, <1>1 DEF Accept, ReadFails, WriteFails, StartWrite, Close, SessionsOK
  <2> QED
    BY <1>0, <2>1, <2>2, <2>3, InfoAtRest
<1>2. ASSUME NEW s \in Session, NEW do, NEW p, Request(s, do, p)
      PROVE  InfoFacts'
  <2>1. UNCHANGED <<product_to_sessions, product_infos, sending, version, owed, informed, active>>
    BY <1>2 DEF Request, serverVars, clientVars
  <2>2. tasks'["publisher"] = tasks["publisher"]
    BY <1>0, <1>2 DEF Request, IoTask, TasksOK, Thread
  <2> QED
    BY <1>0, <2>1, <2>2, InfoAtRest
<1>3. ASSUME NEW s \in Session, WriteDone(s)
      PROVE  InfoFacts'
  <2>1. HeadedForNews'
    BY <1>0, <1>3, HeadedWrite DEF InfoFacts
  <2>2. UNCHANGED <<product_infos, sending, version>>
    BY <1>3 DEF WriteDone, serverVars
  <2>3. tasks'["publisher"] = tasks["publisher"]
    <3>1. UNCHANGED tasks \/ \E k : tasks' = [tasks EXCEPT !["io"] = k]
      BY <1>3 DEF WriteDone, Close, IoTask
    <3> QED
      BY <1>0, <3>1 DEF TasksOK, Thread
  <2>4. QueueFacts' /\ SentOnce'
    BY <2>2, <2>3, QueueAtRest DEF InfoFacts, SentOnce
  <2> QED
    BY <2>1, <2>4 DEF InfoFacts
<1>4. CASE Send
  <2>1. SentOnce' /\ HeadedForNews'
    BY <1>0, <1>4, HeadedSend DEF InfoFacts
  <2>2. QueueFacts'
    BY <1>4, QueueAtRest DEF Send, InfoFacts, serverVars
  <2> QED
    BY <2>1, <2>2 DEF InfoFacts
<1>5. ASSUME NEW p \in Product, Publish(p) \/ PublishInfo(p)
      PROVE  InfoFacts'
  <2>1. UNCHANGED <<product_to_sessions, sending, owed, informed, active>>
    BY <1>5 DEF Publish, PublishInfo, serverVars, clientVars
  <2>2. CASE Publish(p)
    <3>1. QueueFacts' /\ \A r \in Product : (InfoQueued(r)' <=> InfoQueued(r))
      BY <1>0, <2>2, QueueData DEF InfoFacts
    <3>2. \A r \in Product : version'[r]["info"] = version[r]["info"]
      BY <1>0, <2>2 DEF Publish, MapsOK, Kinds
    <3>3. HeadedForNews'
      BY <2>1, <3>1, <3>2, HeadedAtRest DEF InfoFacts
    <3> QED
      BY <2>1, <3>1, <3>3 DEF InfoFacts, SentOnce
  <2>3. CASE PublishInfo(p)
    <3>1. /\ QueueFacts' /\ InfoQueued(p)'
          /\ \A r \in Product \ {p} : (InfoQueued(r)' <=> InfoQueued(r))
                                       /\ version'[r]["info"] = version[r]["info"]
      BY <1>0, <2>3, QueueInfo DEF InfoFacts
    <3>2. \A r \in Product :
            InfoQueued(r)' \/ (~InfoQueued(r) /\ version'[r]["info"] = version[r]["info"])
      <4> SUFFICES ASSUME NEW r \in Product
                   PROVE  InfoQueued(r)' \/ (~InfoQueued(r) /\ version'[r]["info"] = version[r]["info"])
        OBVIOUS
      <4>1. CASE r = p
        BY <3>1, <4>1 DEF InfoQueued, Queued
      <4>2. CASE r # p
        <5>1. r \in Product \ {p}
          BY <4>2
        <5>2. (InfoQueued(r)' <=> InfoQueued(r)) /\ version'[r]["info"] = version[r]["info"]
          BY <3>1, <5>1
        <5> QED
          BY <5>2
      <4> QED
        BY <4>1, <4>2
    <3>3. HeadedForNews'
      BY <2>1, <3>2, HeadedAtRest DEF InfoFacts
    <3> QED
      BY <2>1, <3>1, <3>3 DEF InfoFacts, SentOnce
  <2> QED
    BY <1>5, <2>2, <2>3
<1>6. CASE SendKick \/ StopServer \/ UNCHANGED vars
  <2>1. UNCHANGED <<tasks, product_to_sessions, product_infos, sending, version, owed, informed, active>>
    BY <1>6 DEF SendKick, StopServer, vars, serverVars, clientVars
  <2> QED
    BY <1>0, <2>1, InfoAtRest
<1>7. CASE CloseSessions
  <2>1. /\ active' = [s \in Session |-> IF session_to_products[s] # None THEN "closed" ELSE active[s]]
        /\ product_to_sessions' = [p \in Product |-> {}]
        /\ UNCHANGED <<product_infos, sending, version, owed, informed>>
    BY <1>7 DEF CloseSessions, clientVars
  <2>2. tasks'["publisher"] = tasks["publisher"]
    <3>1. PICK own : tasks' = [tasks EXCEPT !["owner"] = own]
      BY <1>7 DEF CloseSessions
    <3> QED
      BY <1>0, <3>1 DEF TasksOK, Thread
  <2>3. \A s \in Session : active'[s] = "open" => active[s] \in {"none", "open"}
    BY <2>1
  <2> QED
    BY <1>0, <2>1, <2>2, <2>3, InfoAtRest
<1> QED
  BY <1>0, <1>1, <1>2, <1>3, <1>4, <1>5, <1>6, <1>7, InfoRunTask
  DEF Next, PublisherStep, ClientStep, WorkerStep, IoStep

\* on_subscribe's replay and the RETAIN behind each broadcast: once everything is
\* delivered a subscriber has the newest product info, or the one before it if it
\* subscribed between the two.
THEOREM InfoIsReplayed == Spec => []InfoReplayed
<1>1. Init => InfoFacts
  <2> SUFFICES ASSUME Init
               PROVE  InfoFacts
    OBVIOUS
  <2>1. /\ tasks["publisher"] = <<>> /\ sending = {}
        /\ \A p \in Product : product_to_sessions[p] = {} /\ product_infos[p] = 0 /\ version[p]["info"] = 0
    BY DEF Init, Kinds
  <2>2. QueueFacts
    BY <2>1 DEF QueueFacts, RetainFollowsInfo, RetainsCountUp, NewestIsRetained, NewestIsBroadcast
  <2>3. SentOnce /\ HeadedForNews
    BY <2>1 DEF SentOnce, HeadedForNews
  <2> QED
    BY <2>2, <2>3 DEF InfoFacts
<1>2. ServerInv /\ InfoFacts /\ [Next]_vars => InfoFacts'
  BY InfoStep
<1>3. ServerInv /\ InfoFacts => InfoReplayed
  <2> SUFFICES ASSUME ServerInv, InfoFacts, Settled, NEW s \in Session, NEW p \in Product,
                      active[s] = "open", s \in product_to_sessions[p]
               PROVE  informed[s][p] >= version[p]["info"] - 1
    BY DEF InfoReplayed
  <2>1. TasksOK /\ WritesOK /\ NothingDropped
    BY DEF ServerInv, ServerTypeOK, WriteFacts
  <2>2. tasks["publisher"] = <<>> /\ sending = {} /\ in_flight[s] = <<>> /\ write_queue[s]["worker"] = <<>>
    BY <2>1 DEF Settled, WorkerReady, TasksOK, Thread, Enqueuer
  <2>3. ~InfoQueued(p)
    BY <2>2 DEF InfoQueued
  <2>4. owed[s] = <<>>
    <3>1. owed[s] = OnTheWire(s) \o <<>> /\ OnTheWire(s) = <<>>
      BY <2>1, <2>2 DEF NothingDropped, OnTheWire
    <3> QED
      BY <3>1
  <2>5. Heading(s, p, informed[s][p])
    BY <2>2, <2>4 DEF Heading
  <2>6. informed[s][p] \in Nat
    BY <2>1 DEF WritesOK
  <2> QED
    BY <2>3, <2>5, <2>6 DEF InfoFacts, HeadedForNews
<1> QED
  BY <1>1, <1>2, <1>3, ServerInvariant, PTL DEF Spec
=============================================================================
