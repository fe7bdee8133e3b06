----------------------- MODULE ExchangeSocket_proofs ------------------------
(***************************************************************************)
(* Proofs about ExchangeSocket, for both listeners and any number of       *)
(* failures: the pending flag is exact, and an open connection whose       *)
(* reports have been handled has been seeded.                              *)
(***************************************************************************)
EXTENDS ExchangeSocket, TLAPS

Report == {Dialling, Up, Down}

SocketTypeOK ==
  /\ exchange \in {"binance", "kis"} /\ running \in BOOLEAN
  /\ worker \in {"loops", "exited", "joined", "crashed"}
  /\ posted \in {"start", "schedule", "none"}
  /\ timer \in BOOLEAN /\ pending \in BOOLEAN /\ opened \in BOOLEAN /\ late \in BOOLEAN
  /\ dial \in Nat /\ failures \in 0..MaxFailures
  /\ conn \in Conn /\ client \in Client
  /\ reports \in [Thread -> Seq(Report)]
-----------------------------------------------------------------------------
(* Reports.                                                                *)

\* The three reports differ.
LEMMA ReportsDiffer ==
  /\ Dialling.connecting /\ ~Dialling.opened
  /\ ~Up.connecting /\ Up.opened /\ ~Down.connecting /\ ~Down.opened
  /\ Dialling # Up /\ Dialling # Down /\ Up # Down
  BY DEF Dialling, Up, Down

\* A report's fields are flags.
LEMMA ReportFlags ==
  ASSUME NEW e \in Report
  PROVE  e.opened \in BOOLEAN /\ e.connecting \in BOOLEAN
<1>1. CASE e = Dialling
  BY <1>1 DEF Dialling
<1>2. CASE e = Up
  BY <1>2 DEF Up
<1>3. CASE e = Down
  BY <1>3 DEF Down
<1>4. QED  BY <1>1, <1>2, <1>3 DEF Report

\* An enqueue lengthens one thread's queue and leaves the others.
LEMMA ReportEffect ==
  ASSUME SocketTypeOK, NEW t, NEW what \in Seq(Report), ReportAs(t, what)
  PROVE  /\ reports' \in [Thread -> Seq(Report)]
         /\ t \in Thread => reports'[t] = reports[t] \o what
         /\ \A u \in Thread : u # t => reports'[u] = reports[u]
<1>1. reports \in [Thread -> Seq(Report)]
  BY DEF SocketTypeOK
<1>2. \A u \in Thread : reports[u] \o what \in Seq(Report)
  BY <1>1
<1>3. QED  BY <1>1, <1>2 DEF ReportAs

\* What the constructor and the handlers enqueue.
LEMMA ReportSeqs ==
  /\ <<Dialling>> \in Seq(Report) /\ <<Dialling, Dialling>> \in Seq(Report)
  /\ <<Up>> \in Seq(Report) /\ <<Down>> \in Seq(Report)
  BY DEF Report

\* The worker's dequeue shortens one thread's queue and leaves the others.
LEMMA TakeEffect ==
  ASSUME SocketTypeOK, NEW t \in Thread, TakeReport(t)
  PROVE  /\ reports' \in [Thread -> Seq(Report)]
         /\ reports[t] \in Seq(Report) /\ reports[t] # <<>> /\ Head(reports[t]) \in Report
         /\ reports'[t] = Tail(reports[t])
         /\ \A u \in Thread : u # t => reports'[u] = reports[u]
<1>1. reports \in [Thread -> Seq(Report)] /\ reports[t] # <<>>
  BY DEF SocketTypeOK, TakeReport
<1>2. Tail(reports[t]) \in Seq(Report) /\ Head(reports[t]) \in Report
  BY <1>1
<1>3. QED  BY <1>1, <1>2 DEF TakeReport
-----------------------------------------------------------------------------
(* Types.                                                                  *)

\* A dial keeps the types.
LEMMA DialTypes ==
  ASSUME SocketTypeOK, Dial
  PROVE  /\ dial' \in Nat /\ conn' \in Conn /\ failures' \in 0..MaxFailures
         /\ reports' \in [Thread -> Seq(Report)]
<1>1. reports' \in [Thread -> Seq(Report)]
  BY ReportEffect, ReportSeqs DEF Dial
<1>2. dial' \in Nat /\ conn' \in Conn /\ failures' \in 0..MaxFailures
  BY SocketAssumption DEF Dial, Fails, SocketTypeOK, Conn
<1>3. QED  BY <1>1, <1>2

\* So does a listenKey refused.
LEMMA NoKeyTypes ==
  ASSUME SocketTypeOK, NoKey
  PROVE  /\ pending' = TRUE /\ posted' = "schedule" /\ UNCHANGED <<dial, conn, reports>>
         /\ failures' \in 0..MaxFailures
<1>1. pending' = TRUE /\ posted' = "schedule" /\ UNCHANGED <<dial, conn, reports>> /\ Fails
  BY DEF NoKey
<1>2. QED  BY <1>1, SocketAssumption DEF Fails, SocketTypeOK

\* Every step keeps the types.
LEMMA SocketTypes == SocketTypeOK /\ [Next]_vars => SocketTypeOK'
<1> SUFFICES ASSUME SocketTypeOK, [Next]_vars PROVE SocketTypeOK'  OBVIOUS
<1>1. CASE RunStart
  <2>1. CASE Dial
    BY <1>1, <2>1, DialTypes DEF RunStart, NoKey, ownerVars, historyVars, SocketTypeOK
  <2>2. CASE NoKey
    <3>1. UNCHANGED <<ownerVars, timer, opened, client, historyVars>>
      BY <1>1 DEF RunStart
    <3>2. QED  BY <2>2, <3>1, NoKeyTypes DEF ownerVars, historyVars, SocketTypeOK
  <2>3. QED  BY <1>1, <2>1, <2>2 DEF RunStart
<1>2. CASE RunSchedule
  BY <1>2 DEF RunSchedule, ownerVars, historyVars, SocketTypeOK, Conn
<1>3. CASE TimerFires
  <2>1. CASE Dial /\ pending' = FALSE /\ UNCHANGED posted
    <3>1. /\ UNCHANGED <<ownerVars, opened, client, historyVars, posted>>
          /\ timer' = FALSE /\ pending' = FALSE
      BY <1>3, <2>1 DEF TimerFires
    <3>2. QED  BY <2>1, <3>1, DialTypes DEF ownerVars, historyVars, SocketTypeOK
  <2>2. CASE NoKey
    <3>1. UNCHANGED <<ownerVars, opened, client, historyVars>> /\ timer' = FALSE
      BY <1>3 DEF TimerFires
    <3>2. QED  BY <2>2, <3>1, NoKeyTypes DEF ownerVars, historyVars, SocketTypeOK
  <2>3. QED  BY <1>3, <2>1, <2>2 DEF TimerFires
<1>4. CASE KisTimerFires
  BY <1>4, DialTypes DEF KisTimerFires, ownerVars, historyVars, SocketTypeOK, Client
<1>5. CASE KisClientAssigned
  BY <1>5 DEF KisClientAssigned, ownerVars, historyVars, SocketTypeOK, Client
<1>6. CASE KisPreviousReports
  <2>1. reports' \in [Thread -> Seq(Report)]
    BY <1>6, ReportEffect, ReportSeqs DEF KisPreviousReports
  <2>2. QED
    BY <1>6, <2>1, SocketAssumption DEF KisPreviousReports, Fails, ownerVars, historyVars,
                                        SocketTypeOK
<1>7. ASSUME NEW was \in Conn, NEW becomes \in Conn, NEW says \in {Up, Down},
             Handler(was, becomes, says), Fails \/ UNCHANGED failures
      PROVE  SocketTypeOK'
  <2>1. reports' \in [Thread -> Seq(Report)]
    BY <1>7, ReportEffect, ReportSeqs DEF Handler
  <2>2. failures' \in 0..MaxFailures
    BY <1>7, SocketAssumption DEF Fails, SocketTypeOK
  <2>3. QED  BY <1>7, <2>1, <2>2 DEF Handler, ownerVars, historyVars, SocketTypeOK
<1>8. CASE OpenHandler \/ FailHandler \/ PongTimeout \/ CloseHandler
  BY <1>7, <1>8 DEF OpenHandler, FailHandler, PongTimeout, CloseHandler, Conn
<1>9. ASSUME NEW t \in Thread, WorkerHandles(t) PROVE SocketTypeOK'
  <2> TakeReport(t)
    BY <1>9 DEF WorkerHandles
  <2>1. reports' \in [Thread -> Seq(Report)] /\ Head(reports[t]) \in Report
    BY TakeEffect
  <2>2. Head(reports[t]).opened \in BOOLEAN
    BY <2>1, ReportFlags
  <2>3. late' \in BOOLEAN /\ UNCHANGED <<exchange, running, dial, failures>>
    BY <1>9 DEF WorkerHandles
  <2>4. CASE BinanceHandles(Head(reports[t]))
    <3>1. UNCHANGED <<worker, timer, conn, client>> /\ OnWsStatus(Head(reports[t]))
      BY <2>4 DEF BinanceHandles
    <3>2. /\ opened' \in BOOLEAN /\ pending' \in BOOLEAN
          /\ posted' \in {"start", "schedule", "none"}
      BY <2>2, <3>1 DEF OnWsStatus, SocketTypeOK
    <3>3. QED  BY <2>1, <2>3, <3>1, <3>2 DEF SocketTypeOK
  <2>5. CASE KisHandles(Head(reports[t]))
    <3>1. /\ opened' \in BOOLEAN /\ posted' = posted
          /\ \/ KisOnOpen \/ KisOnFail
             \/ UNCHANGED <<worker, timer, pending, attempts, conn, client, seeded>>
      BY <2>2, <2>5 DEF KisHandles
    <3>2. /\ worker' \in {worker, "crashed"} /\ timer' \in BOOLEAN /\ pending' \in BOOLEAN
          /\ conn' \in Conn /\ client' \in Client
      <4>1. CASE KisOnOpen
        BY <4>1 DEF KisOnOpen, SocketTypeOK
      <4>2. CASE KisOnFail
        BY <4>2 DEF KisOnFail, SocketTypeOK, Conn, Client
      <4>3. QED  BY <3>1, <4>1, <4>2 DEF SocketTypeOK
    <3>3. QED  BY <2>1, <2>3, <3>1, <3>2 DEF SocketTypeOK
  <2>6. QED  BY <1>9, <2>4, <2>5 DEF WorkerHandles
<1>10. CASE WorkerExits
  <2>1. reports' \in [Thread -> Seq(Report)]
    BY <1>10, TakeEffect DEF WorkerExits
  <2>2. QED  BY <1>10, <2>1 DEF WorkerExits, historyVars, SocketTypeOK
<1>11. CASE Stop
  <2>1. reports' \in [Thread -> Seq(Report)]
    BY <1>11, ReportEffect, ReportSeqs DEF Stop
  <2>2. QED  BY <1>11, <2>1 DEF Stop, historyVars, SocketTypeOK
<1>12. CASE Joined
  BY <1>12 DEF Joined, historyVars, SocketTypeOK, Conn
<1>13. CASE UNCHANGED vars
  BY <1>13 DEF vars, SocketTypeOK
<1>14. QED
  BY <1>1, <1>2, <1>3, <1>4, <1>5, <1>6, <1>8, <1>9, <1>10, <1>11, <1>12, <1>13
  DEF Next, IoStep, SocketStep, WorkerStep
-----------------------------------------------------------------------------
(* The pending flag.                                                       *)

\* Before start()'s task has run there is nothing that could redial.
NotStarted ==
  running /\ posted = "start" /\ exchange = "binance" =>
    /\ ~pending /\ ~timer /\ dial = 0 /\ conn = "none"
    /\ \A t \in Thread : reports[t] = <<>>

RedialInv == SocketTypeOK /\ NotStarted /\ RedialInHand

\* The timer's handler: one redial ends, and another begins only without a key.
LEMMA TimerKeepsFlag ==
  ASSUME RedialInv, TimerFires
  PROVE  NotStarted' /\ RedialInHand'
<1>1. /\ running /\ timer /\ exchange = "binance" /\ timer' = FALSE
      /\ running' = running /\ exchange' = exchange
  BY DEF TimerFires, ownerVars
<1>2. posted = "none"
  BY <1>1 DEF RedialInv, SocketTypeOK, NotStarted, RedialInHand
<1>3. (pending' = FALSE /\ posted' = posted) \/ (pending' = TRUE /\ posted' = "schedule")
  BY DEF TimerFires, NoKey
<1>4. QED  BY <1>1, <1>2, <1>3 DEF NotStarted, RedialInHand

\* on_ws_status starts a redial only when none is on its way.
LEMMA StatusKeepsFlag ==
  ASSUME RedialInv, NEW t \in Thread, WorkerHandles(t)
  PROVE  NotStarted' /\ RedialInHand'
<1>1. running /\ reports[t] # <<>> /\ running' = running /\ exchange' = exchange
  BY DEF WorkerHandles, TakeReport
<1>2. CASE exchange # "binance"
  BY <1>1, <1>2 DEF NotStarted, RedialInHand
<1>3. CASE exchange = "binance"
  <2>1. OnWsStatus(Head(reports[t])) /\ UNCHANGED timer
    BY <1>3 DEF WorkerHandles, BinanceHandles, KisHandles
  <2>2. posted # "start"
    BY <1>1, <1>3 DEF RedialInv, NotStarted
  <2>3. \/ pending' = pending /\ posted' = posted
        \/ ~pending /\ pending' = TRUE /\ posted' = "schedule"
    BY <2>1 DEF OnWsStatus
  <2>4. QED  BY <1>1, <1>3, <2>1, <2>2, <2>3 DEF RedialInv, NotStarted, RedialInHand
<1>4. QED  BY <1>2, <1>3

\* Every step keeps the flag exact.
LEMMA RedialStep == RedialInv /\ [Next]_vars => RedialInv'
<1> SUFFICES ASSUME RedialInv, [Next]_vars PROVE NotStarted' /\ RedialInHand'
  BY SocketTypes DEF RedialInv
<1>1. CASE RunStart
  <2>1. /\ running /\ posted = "start" /\ UNCHANGED <<running, exchange, timer>>
        /\ \/ posted' = "none" /\ UNCHANGED pending
           \/ pending' = TRUE /\ posted' = "schedule"
    BY <1>1 DEF RunStart, NoKey, ownerVars
  <2>2. QED  BY <2>1 DEF RedialInv, NotStarted, RedialInHand
<1>2. CASE RunSchedule
  BY <1>2 DEF RunSchedule, ownerVars, RedialInv, NotStarted, RedialInHand
<1>3. CASE TimerFires
  BY <1>3, TimerKeepsFlag
<1>4. CASE KisTimerFires \/ KisClientAssigned \/ KisPreviousReports
  BY <1>4 DEF KisTimerFires, KisClientAssigned, KisPreviousReports, ownerVars, NotStarted,
              RedialInHand
<1>5. ASSUME NEW was \in {"dialing", "open", "lapsed"}, NEW becomes, NEW says,
             Handler(was, becomes, says)
      PROVE  NotStarted' /\ RedialInHand'
  BY <1>5 DEF Handler, ownerVars, RedialInv, NotStarted, RedialInHand
<1>6. CASE OpenHandler \/ FailHandler \/ PongTimeout \/ CloseHandler
  BY <1>5, <1>6 DEF OpenHandler, FailHandler, PongTimeout, CloseHandler
<1>7. ASSUME NEW t \in Thread, WorkerHandles(t) PROVE NotStarted' /\ RedialInHand'
  BY <1>7, StatusKeepsFlag
<1>8. CASE WorkerExits \/ Stop \/ Joined
  BY <1>8 DEF WorkerExits, Stop, Joined, NotStarted, RedialInHand
<1>9. CASE UNCHANGED vars
  BY <1>9 DEF vars, RedialInv, NotStarted, RedialInHand
<1>10. QED
  BY <1>1, <1>2, <1>3, <1>4, <1>6, <1>7, <1>8, <1>9 DEF Next, IoStep, SocketStep, WorkerStep

\* The listener is constructed with nothing running.
LEMMA RedialInit == Init => RedialInv
<1> SUFFICES ASSUME Init PROVE RedialInv  OBVIOUS
<1>1. reports \in [Thread -> Seq(Report)]
  BY DEF Init
<1>2. SocketTypeOK
  <2>1. exchange \in {"binance", "kis"} /\ failures \in 0..MaxFailures /\ dial \in Nat
    BY SocketAssumption DEF Init
  <2>2. conn \in Conn /\ client \in Client
    BY DEF Init, Conn, Client
  <2>3. /\ running \in BOOLEAN /\ worker \in {"loops", "exited", "joined", "crashed"}
        /\ posted \in {"start", "schedule", "none"}
        /\ timer \in BOOLEAN /\ pending \in BOOLEAN /\ opened \in BOOLEAN /\ late \in BOOLEAN
    BY DEF Init
  <2>4. QED  BY <1>1, <2>1, <2>2, <2>3 DEF SocketTypeOK
<1>3. NotStarted /\ RedialInHand
  BY DEF Init, NotStarted, RedialInHand
<1>4. QED  BY <1>2, <1>3 DEF RedialInv

\* The flag that keeps a redial from being started twice, and from never being
\* started: market_reconnect_pending_ and its likes are set exactly while a redial
\* is posted or its timer armed, whichever of the four threads' steps interleave.
THEOREM RedialFlagExact == Spec => []RedialInHand
<1>1. RedialInv => RedialInHand
  BY DEF RedialInv
<1>2. QED  BY <1>1, RedialInit, RedialStep, PTL DEF Spec
-----------------------------------------------------------------------------
(* Seeding.  As long as no report was handled late, the reports of the     *)
(* current client tell its history, and the worker is never ahead of it.   *)

Alive == {"dialing", "open"}
Redialling == pending \/ timer \/ posted = "schedule"
Calm == running /\ ~late /\ worker # "crashed"

AllDown(q) == \A i \in 1..Len(q) : q[i] = Down
AllDialling(q) == \A i \in 1..Len(q) : q[i] = Dialling
UpFirst(q) == \A i \in 1..Len(q) : q[i] \in {Up, Down} /\ (i > 1 => q[i] = Down)

\* Every client but a live one has cost a failure: the threads do not run out.
DialsPaid == dial <= failures + (IF conn \in Alive THEN 1 ELSE 0)

\* The queues of the clients to come are empty, the io thread's only says that it
\* dials.
QueuesFresh ==
  /\ \A t \in Thread : t > dial => reports[t] = <<>>
  /\ AllDialling(reports[Io])
  /\ dial = 0 => conn = "none" /\ reports[Io] = <<>>

\* What the current client has in the queue, by what it has come to.
TellsHistory ==
  /\ UpFirst(reports[dial])
  /\ conn = "dialing" => reports[dial] = <<>>
  /\ conn = "open" => (reports[dial] = <<>> /\ seeded = dial) \/ reports[dial] = <<Up>>

\* A redial is only begun for the current client, once it is down and known to be.
RedialsTheDead ==
  Redialling => ~opened /\ conn \notin Alive /\ AllDown(reports[dial])

StartsFromNothing ==
  posted = "start" => dial = 0 /\ ~opened /\ ~pending /\ ~timer /\ client = "current"

\* KisListener has no client from its failure to its redial.
KisClientGone ==
  exchange = "kis" =>
    /\ client # "previous" /\ posted # "schedule"
    /\ timer => client = "null" /\ conn = "none"

SeedFacts ==
  /\ DialsPaid /\ QueuesFresh /\ TellsHistory /\ RedialsTheDead
  /\ opened => seeded = dial
  /\ StartsFromNothing /\ KisClientGone

SeedInv == RedialInv /\ (Calm => SeedFacts)

\* Adding a report of a drop.
LEMMA AppendDown ==
  ASSUME NEW q \in Seq(Report)
  PROVE  /\ UpFirst(q) => UpFirst(q \o <<Down>>)
         /\ AllDown(q) => AllDown(q \o <<Down>>)
<1>1. /\ q \o <<Down>> \in Seq(Report) /\ Len(q \o <<Down>>) = Len(q) + 1
      /\ \A i \in 1..Len(q) : (q \o <<Down>>)[i] = q[i]
      /\ (q \o <<Down>>)[Len(q) + 1] = Down
  BY DEF Report
<1>2. QED  BY <1>1 DEF UpFirst, AllDown

\* Taking the oldest report.
LEMMA TakeFirst ==
  ASSUME NEW q \in Seq(Report), q # <<>>
  PROVE  /\ UpFirst(q) => Head(q) \in {Up, Down} /\ UpFirst(Tail(q)) /\ AllDown(Tail(q))
         /\ AllDown(q) => Head(q) = Down /\ AllDown(Tail(q))
         /\ AllDialling(q) => Head(q) = Dialling /\ AllDialling(Tail(q))
<1>1. /\ Tail(q) \in Seq(Report) /\ Len(Tail(q)) = Len(q) - 1 /\ Head(q) = q[1]
      /\ Len(q) \in Nat /\ Len(q) > 0
      /\ \A i \in 1..Len(Tail(q)) : Tail(q)[i] = q[i + 1] /\ i + 1 \in 2..Len(q)
  OBVIOUS
<1>2. QED  BY <1>1 DEF UpFirst, AllDown, AllDialling

\* A client has a thread of its own.
LEMMA ThreadOfClient ==
  ASSUME SocketTypeOK, DialsPaid
  PROVE  /\ dial \in Thread /\ dial < Owner /\ Io \in Thread /\ Owner \in Thread
         /\ conn \notin Alive => dial + 1 \in Thread /\ dial + 1 < Owner
  BY SocketAssumption DEF SocketTypeOK, DialsPaid, Thread, Io, Owner, MaxDials

\* A dial begins a new history: nothing of the old client is still to be handled in
\* time.
LEMMA DialSeeds ==
  ASSUME SocketTypeOK, SeedFacts, Dial, conn \notin Alive, ~opened,
         UNCHANGED <<exchange, opened, seeded>>,
         pending' = FALSE, timer' = FALSE, posted' = "none",
         exchange = "kis" => client' # "previous"
  PROVE  SeedFacts'
<1>1. /\ dial \in Nat /\ dial' = dial + 1 /\ dial \in Thread /\ dial' \in Thread /\ Io \in Thread
      /\ failures \in Nat
  BY ThreadOfClient DEF SeedFacts, Dial, SocketTypeOK
<1>2. PICK what \in {<<Dialling>>, <<Dialling, Dialling>>} : ReportAs(Io, what)
  BY DEF Dial
<1>3. /\ reports'[Io] = reports[Io] \o what
      /\ \A u \in Thread : u # Io => reports'[u] = reports[u]
  BY <1>1, <1>2, ReportEffect, ReportSeqs
<1>4. \/ conn' = "dialing" /\ failures' = failures
      \/ conn' = "stuck" /\ failures' = failures + 1
  BY DEF Dial, Fails
<1>5. DialsPaid'
  BY <1>1, <1>4 DEF SeedFacts, DialsPaid, Alive
<1>6. reports'[dial'] = <<>>
  BY <1>1, <1>3 DEF SeedFacts, QueuesFresh, Io
<1>7. QueuesFresh'
  <2>1. reports[Io] \in Seq(Report)
    BY <1>1 DEF SocketTypeOK
  <2>2. AllDialling(reports[Io] \o <<Dialling>>)
    BY <2>1 DEF SeedFacts, QueuesFresh, AllDialling, Report
  <2>3. AllDialling(reports[Io] \o <<Dialling, Dialling>>)
    BY <2>1 DEF SeedFacts, QueuesFresh, AllDialling, Report
  <2>4. AllDialling(reports'[Io])
    BY <1>2, <1>3, <2>2, <2>3
  <2>5. \A t \in Thread : t > dial' => reports'[t] = <<>>
    BY <1>1, <1>3 DEF SeedFacts, QueuesFresh, Io, Thread
  <2>6. QED  BY <1>1, <2>4, <2>5 DEF QueuesFresh, Io
<1>8. TellsHistory'
  BY <1>4, <1>6 DEF TellsHistory, UpFirst
<1>9. RedialsTheDead' /\ StartsFromNothing' /\ KisClientGone'
  BY DEF RedialsTheDead, Redialling, StartsFromNothing, KisClientGone
<1>10. QED  BY <1>5, <1>7, <1>8, <1>9 DEF SeedFacts

\* Without a key the redial is put off, with no client.
LEMMA NoKeySeeds ==
  ASSUME SocketTypeOK, SeedFacts, NoKey, exchange = "binance",
         Redialling \/ posted = "start",
         UNCHANGED <<exchange, opened, seeded>>
  PROVE  SeedFacts'
<1>1. /\ pending' = TRUE /\ posted' = "schedule" /\ UNCHANGED <<dial, conn, reports>>
      /\ failures' = failures + 1 /\ failures \in Nat /\ dial \in Nat
  BY DEF NoKey, Fails, SocketTypeOK
<1>2. DialsPaid' /\ QueuesFresh' /\ TellsHistory'
  BY <1>1 DEF SeedFacts, DialsPaid, QueuesFresh, TellsHistory
<1>3. ~opened /\ conn \notin Alive /\ AllDown(reports[dial])
  BY DEF SeedFacts, RedialsTheDead, StartsFromNothing, QueuesFresh, Alive, AllDown, Io
<1>4. RedialsTheDead' /\ StartsFromNothing' /\ KisClientGone'
  BY <1>1, <1>3 DEF RedialsTheDead, StartsFromNothing, KisClientGone
<1>5. QED  BY <1>1, <1>2, <1>4 DEF SeedFacts

\* The client's handlers write its history down in order.
LEMMA HandlerSeeds ==
  ASSUME SocketTypeOK, SeedFacts, NEW was, NEW becomes, NEW says, Handler(was, becomes, says),
         \/ was = "dialing" /\ becomes = "open" /\ says = Up /\ UNCHANGED failures
         \/ was \in Alive /\ becomes \in {"lapsed", "down"} /\ says = Down /\ Fails
         \/ was = "lapsed" /\ becomes = "down" /\ says = Down /\ UNCHANGED failures
  PROVE  SeedFacts'
<1>1. /\ conn = was /\ conn' = becomes /\ ReportAs(dial, <<says>>)
      /\ UNCHANGED <<exchange, posted, timer, pending, opened, dial, client, seeded>>
  BY DEF Handler, ownerVars, historyVars
<1>2. dial \in Nat /\ dial \in Thread /\ Io \in Thread /\ failures \in Nat /\ dial > 0
  BY <1>1, ThreadOfClient DEF SeedFacts, SocketTypeOK, QueuesFresh, Alive
<1>3. /\ reports'[dial] = reports[dial] \o <<says>> /\ reports[dial] \in Seq(Report)
      /\ \A u \in Thread : u # dial => reports'[u] = reports[u]
  BY <1>1, <1>2, ReportEffect, ReportSeqs DEF SocketTypeOK
<1>4. DialsPaid'
  BY <1>1, <1>2 DEF SeedFacts, DialsPaid, Alive, Fails
<1>5. QueuesFresh'
  BY <1>1, <1>2, <1>3 DEF SeedFacts, QueuesFresh, Io, Thread
<1>6. StartsFromNothing' /\ KisClientGone'
  BY <1>1, <1>2 DEF SeedFacts, StartsFromNothing, KisClientGone, Alive
<1>7. CASE was = "dialing" /\ becomes = "open" /\ says = Up
  <2>1. reports'[dial] = <<Up>>
    <3>1. reports[dial] = <<>>
      BY <1>1, <1>7 DEF SeedFacts, TellsHistory
    <3>2. <<>> \o <<Up>> = <<Up>>
      OBVIOUS
    <3>3. QED  BY <1>3, <1>7, <3>1, <3>2
  <2>2. UpFirst(<<Up>>)
    BY DEF UpFirst
  <2>3. TellsHistory'
    BY <1>1, <1>7, <2>1, <2>2 DEF TellsHistory
  <2>4. RedialsTheDead'
    BY <1>1, <1>7 DEF SeedFacts, RedialsTheDead, Redialling, Alive
  <2>5. QED  BY <1>1, <1>4, <1>5, <1>6, <2>3, <2>4 DEF SeedFacts
<1>8. CASE becomes \in {"lapsed", "down"} /\ says = Down
  <2>1. UpFirst(reports'[dial])
    BY <1>3, <1>8, AppendDown DEF SeedFacts, TellsHistory
  <2>2. TellsHistory'
    BY <1>1, <1>8, <2>1 DEF TellsHistory
  <2>3. RedialsTheDead'
    BY <1>1, <1>3, <1>8, AppendDown DEF SeedFacts, RedialsTheDead, Redialling, Alive
  <2>4. QED  BY <1>1, <1>4, <1>5, <1>6, <2>2, <2>3 DEF SeedFacts
<1>9. QED  BY <1>7, <1>8

\* What the worker makes of each report, when it comes in time and does not crash.
LEMMA HandledReport ==
  ASSUME SocketTypeOK, NEW t \in Thread, WorkerHandles(t), NEW e, e = Head(reports[t]),
         client = "current", worker' # "crashed"
  PROVE  /\ UNCHANGED <<exchange, dial, failures>> /\ opened' = e.opened
         /\ e = Dialling => UNCHANGED <<pending, posted, timer, conn, client, seeded>>
         /\ e = Up => /\ UNCHANGED <<posted, timer, conn, client>>
                      /\ pending' = pending \/ pending' = FALSE
                      /\ seeded' = IF opened THEN seeded ELSE dial
         /\ e = Down => /\ seeded' = seeded
                        /\ \/ UNCHANGED <<timer, conn, client>> /\ exchange = "binance"
                           \/ UNCHANGED <<posted, timer, conn, client>>
                           \/ /\ UNCHANGED posted
                              /\ timer' = TRUE /\ conn' = "none" /\ client' = "null"
<1>1. UNCHANGED <<exchange, dial, failures>>
  BY DEF WorkerHandles
<1>2. CASE BinanceHandles(e)
  <2>1. UNCHANGED <<timer, conn, client>> /\ OnWsStatus(e) /\ exchange = "binance"
    BY <1>2 DEF BinanceHandles
  <2>2. CASE e = Dialling
    BY <1>1, <2>1, <2>2, ReportsDiffer DEF OnWsStatus
  <2>3. CASE e = Up
    BY <1>1, <2>1, <2>3, ReportsDiffer DEF OnWsStatus
  <2>4. CASE e = Down
    BY <1>1, <2>1, <2>4, ReportsDiffer DEF OnWsStatus
  <2>5. opened' = e.opened
    BY <2>1 DEF OnWsStatus
  <2>6. QED  BY <1>1, <2>2, <2>3, <2>4, <2>5, ReportsDiffer
<1>3. CASE KisHandles(e)
  <2>1. /\ opened' = e.opened /\ posted' = posted
        /\ \/ (~opened /\ e.opened) /\ KisOnOpen
           \/ (~e.opened /\ ~e.connecting /\ ~pending) /\ KisOnFail
           \/ /\ ~(~opened /\ e.opened)
              /\ UNCHANGED <<worker, timer, pending, attempts, conn, client, seeded>>
    BY <1>3, Zenon DEF KisHandles
  <2>2. CASE e = Dialling
    BY <1>1, <2>1, <2>2, ReportsDiffer
  <2>3. CASE e = Up
    BY <1>1, <2>1, <2>3, ReportsDiffer DEF KisOnOpen
  <2>4. CASE e = Down
    BY <1>1, <2>1, <2>4, ReportsDiffer DEF KisOnFail
  <2>5. QED  BY <1>1, <2>1, <2>2, <2>3, <2>4, ReportsDiffer
<1>4. QED  BY <1>2, <1>3 DEF WorkerHandles

\* on_ws_status follows the current client's history: it seeds on its Up, and
\* redials on its Down.
LEMMA WorkerSeeds ==
  ASSUME RedialInv, SeedFacts, NEW t \in Thread, WorkerHandles(t), ~late', worker' # "crashed"
  PROVE  SeedFacts'
<1> DEFINE e == Head(reports[t])
<1> SocketTypeOK
  BY DEF RedialInv
<1>1. t \notin 1..(dial - 1) /\ client = "current" /\ TakeReport(t)
  BY DEF WorkerHandles
<1>2. /\ reports[t] \in Seq(Report) /\ reports[t] # <<>> /\ reports'[t] = Tail(reports[t])
      /\ \A u \in Thread : u # t => reports'[u] = reports[u]
  BY <1>1, TakeEffect
<1>3. /\ dial \in Nat /\ dial \in Thread /\ dial > 0 /\ t \in {Io, dial} /\ Io # dial
      /\ Io \in Thread /\ failures \in Nat /\ posted # "start"
  <2>1. dial \in Nat /\ dial \in Thread /\ Io \in Thread /\ failures \in Nat
    BY ThreadOfClient DEF SeedFacts, SocketTypeOK
  <2>2. t <= dial
    BY <1>2, <2>1 DEF SeedFacts, QueuesFresh, Thread
  <2>3. t \in {Io, dial}
    BY <1>1, <2>1, <2>2 DEF Thread, Io
  <2>4. dial # 0
    BY <1>2, <2>3 DEF SeedFacts, QueuesFresh, Io
  <2>5. QED  BY <2>1, <2>3, <2>4 DEF Io, SeedFacts, StartsFromNothing
<1>4. /\ UNCHANGED <<exchange, dial, failures>> /\ opened' = e.opened
      /\ e = Dialling => UNCHANGED <<pending, posted, timer, conn, client, seeded>>
      /\ e = Up => /\ UNCHANGED <<posted, timer, conn, client>>
                   /\ pending' = pending \/ pending' = FALSE
                   /\ seeded' = IF opened THEN seeded ELSE dial
      /\ e = Down => /\ seeded' = seeded
                     /\ \/ UNCHANGED <<timer, conn, client>> /\ exchange = "binance"
                        \/ UNCHANGED <<posted, timer, conn, client>>
                        \/ /\ UNCHANGED posted
                           /\ timer' = TRUE /\ conn' = "none" /\ client' = "null"
  BY <1>1, HandledReport
<1>5. QueuesFresh'
  <2>1. \A u \in Thread : u > dial => reports'[u] = <<>>
    BY <1>2, <1>3 DEF SeedFacts, QueuesFresh, Thread, Io
  <2>2. AllDialling(reports'[Io])
    BY <1>2, <1>3, TakeFirst DEF SeedFacts, QueuesFresh
  <2>3. QED  BY <1>3, <1>4, <2>1, <2>2 DEF QueuesFresh
<1>6. CASE t = Io
  <2>1. e = Dialling
    BY <1>2, <1>6, TakeFirst DEF SeedFacts, QueuesFresh
  <2>2. /\ UNCHANGED <<exchange, dial, failures, pending, posted, timer, conn, client, seeded>>
        /\ ~opened' /\ reports'[dial] = reports[dial]
    BY <1>2, <1>3, <1>4, <1>6, <2>1, ReportsDiffer
  <2>3. DialsPaid' /\ TellsHistory' /\ StartsFromNothing' /\ KisClientGone'
    BY <2>2 DEF SeedFacts, DialsPaid, TellsHistory, StartsFromNothing, KisClientGone
  <2>4. RedialsTheDead'
    BY <2>2 DEF SeedFacts, RedialsTheDead, Redialling
  <2>5. QED  BY <1>5, <2>2, <2>3, <2>4 DEF SeedFacts
<1>7. CASE t = dial /\ e = Up
  <2>1. UpFirst(reports'[dial]) /\ ~Redialling
    BY <1>2, <1>7, TakeFirst, ReportsDiffer DEF SeedFacts, TellsHistory, RedialsTheDead
  <2>2. /\ UNCHANGED <<exchange, dial, failures, posted, timer, conn, client>>
        /\ ~Redialling' /\ seeded' = dial
    BY <1>4, <1>7, <2>1 DEF Redialling, SeedFacts
  <2>3. DialsPaid' /\ KisClientGone'
    BY <2>2 DEF SeedFacts, DialsPaid, KisClientGone
  <2>4. StartsFromNothing' /\ RedialsTheDead'
    BY <1>3, <2>2 DEF StartsFromNothing, RedialsTheDead
  <2>5. TellsHistory'
    <3>1. conn # "dialing"
      BY <1>2, <1>7 DEF SeedFacts, TellsHistory
    <3>2. conn = "open" => reports'[dial] = <<>>
      <4>1. conn = "open" => reports[dial] = <<Up>>
        BY <1>2, <1>7 DEF SeedFacts, TellsHistory
      <4>2. Tail(<<Up>>) = <<>>
        OBVIOUS
      <4>3. QED  BY <1>2, <1>7, <4>1, <4>2
    <3>3. QED  BY <2>1, <2>2, <3>1, <3>2 DEF TellsHistory
  <2>6. QED  BY <1>5, <2>2, <2>3, <2>4, <2>5 DEF SeedFacts
<1>8. CASE t = dial /\ e = Down
  <2>1. UpFirst(reports'[dial]) /\ AllDown(reports'[dial])
    BY <1>2, <1>8, TakeFirst DEF SeedFacts, TellsHistory
  <2>2. conn \notin Alive
    <3>1. conn # "dialing"
      BY <1>2, <1>8 DEF SeedFacts, TellsHistory
    <3>2. conn # "open"
      <4>1. Head(<<Up>>) = Up
        OBVIOUS
      <4>2. QED  BY <1>2, <1>8, <4>1, ReportsDiffer DEF SeedFacts, TellsHistory
    <3>3. QED  BY <3>1, <3>2 DEF Alive
  <2>3. conn' \notin Alive /\ ~opened' /\ UNCHANGED <<exchange, dial, failures, seeded>>
    BY <1>4, <1>8, <2>2, ReportsDiffer DEF Alive
  <2>4. DialsPaid' /\ RedialsTheDead'
    BY <1>3, <2>1, <2>2, <2>3 DEF SeedFacts, DialsPaid, RedialsTheDead
  <2>5. TellsHistory'
    BY <2>1, <2>3 DEF TellsHistory, Alive
  <2>6. KisClientGone'
    BY <1>4, <1>8 DEF SeedFacts, KisClientGone
  <2>7. StartsFromNothing'
    BY <1>3, <1>8 DEF WorkerHandles, BinanceHandles, OnWsStatus, KisHandles, StartsFromNothing
  <2>8. QED  BY <1>5, <2>3, <2>4, <2>5, <2>6, <2>7 DEF SeedFacts
<1>9. CASE t = dial
  BY <1>2, <1>7, <1>8, <1>9, TakeFirst DEF SeedFacts, TellsHistory
<1>10. QED  BY <1>3, <1>6, <1>9

\* Every step keeps the reports and the seeding in step.
LEMMA SeedStep == SeedInv /\ [Next]_vars => SeedInv'
<1> SUFFICES ASSUME SeedInv, [Next]_vars, Calm' PROVE SeedFacts'
  BY RedialStep DEF SeedInv
<1> RedialInv /\ SocketTypeOK /\ SocketTypeOK'
  BY SocketTypes DEF SeedInv, RedialInv
<1>1. CASE UNCHANGED vars
  <2>1. Calm
    BY <1>1 DEF vars, Calm
  <2>2. QED
    BY <1>1, <2>1 DEF vars, SeedInv, SeedFacts, DialsPaid, QueuesFresh, TellsHistory,
         RedialsTheDead, Redialling, StartsFromNothing, KisClientGone
<1> SUFFICES ASSUME Next PROVE SeedFacts'
  BY <1>1
<1> Calm /\ SeedFacts
  <2>1. running /\ ~late
    <3>1. CASE IoStep
      <4>1. UNCHANGED <<ownerVars, historyVars>>
        BY <3>1, Zenon DEF IoStep, RunStart, RunSchedule, TimerFires, KisTimerFires,
                           KisClientAssigned
      <4>2. QED  BY <4>1 DEF Calm, ownerVars, historyVars
    <3>2. CASE SocketStep
      <4>1. UNCHANGED <<ownerVars, historyVars>>
        BY <3>2, Zenon DEF SocketStep, OpenHandler, FailHandler, PongTimeout, CloseHandler,
                           KisPreviousReports, Handler
      <4>2. QED  BY <4>1 DEF Calm, ownerVars, historyVars
    <3>3. CASE WorkerStep
      BY <3>3 DEF Calm, WorkerStep, WorkerExits, WorkerHandles, SocketTypeOK
    <3>4. CASE Stop \/ Joined
      BY <3>4 DEF Calm, Stop, Joined
    <3>5. QED  BY <3>1, <3>2, <3>3, <3>4 DEF Next
  <2>2. QED  BY <2>1 DEF Calm, Next, SeedInv
<1>2. CASE RunStart
  <2>1. /\ posted = "start" /\ UNCHANGED <<exchange, timer, opened, client, seeded>>
        /\ dial = 0 /\ conn \notin Alive /\ ~opened /\ ~timer /\ ~pending /\ client = "current"
    BY <1>2 DEF RunStart, ownerVars, historyVars, SeedFacts, StartsFromNothing, QueuesFresh,
                Alive
  <2>2. CASE NoKey
    BY <2>1, <2>2, NoKeySeeds DEF NoKey
  <2>3. CASE Dial /\ posted' = "none" /\ UNCHANGED pending
    <3>1. pending' = FALSE /\ timer' = FALSE /\ client' # "previous"
      BY <2>1, <2>3 DEF SocketTypeOK
    <3>2. QED  BY <2>1, <2>3, <3>1, DialSeeds
  <2>4. QED  BY <1>2, <2>2, <2>3 DEF RunStart
<1>3. CASE RunSchedule
  <2>1. /\ posted = "schedule" /\ posted' = "none" /\ conn' = "none" /\ exchange # "kis"
        /\ UNCHANGED <<exchange, pending, opened, dial, client, reports, seeded, failures>>
    BY <1>3 DEF RunSchedule, ownerVars, historyVars, SeedFacts, KisClientGone
  <2>2. Redialling /\ dial \in Nat /\ failures \in Nat
    BY <2>1 DEF Redialling, SocketTypeOK
  <2>3. DialsPaid' /\ QueuesFresh' /\ TellsHistory' /\ RedialsTheDead'
    BY <2>1, <2>2 DEF SeedFacts, DialsPaid, QueuesFresh, TellsHistory, RedialsTheDead, Alive
  <2>4. QED  BY <2>1, <2>3 DEF SeedFacts, StartsFromNothing, KisClientGone
<1>4. CASE TimerFires
  <2>1. /\ timer /\ exchange = "binance" /\ timer' = FALSE
        /\ UNCHANGED <<exchange, opened, client, seeded>>
    BY <1>4 DEF TimerFires, ownerVars, historyVars
  <2>2. Redialling /\ posted = "none" /\ ~opened /\ conn \notin Alive
    BY <2>1 DEF Calm, Redialling, RedialInv, RedialInHand, NotStarted, SocketTypeOK, SeedFacts,
                RedialsTheDead
  <2>3. CASE NoKey
    BY <2>1, <2>2, <2>3, NoKeySeeds
  <2>4. CASE Dial /\ pending' = FALSE /\ UNCHANGED posted
    BY <2>1, <2>2, <2>4, DialSeeds
  <2>5. QED  BY <1>4, <2>3, <2>4 DEF TimerFires
<1>5. CASE KisTimerFires
  <2>1. /\ timer /\ exchange = "kis" /\ timer' = FALSE /\ pending' = FALSE /\ Dial
        /\ UNCHANGED <<exchange, posted, opened, seeded>>
        /\ client' = IF client = "current" THEN "previous" ELSE "null"
    BY <1>5 DEF KisTimerFires, ownerVars, historyVars
  <2>2. /\ Redialling /\ posted = "none" /\ ~opened /\ conn \notin Alive /\ client' = "null"
    BY <2>1 DEF Redialling, SocketTypeOK, SeedFacts, RedialsTheDead, KisClientGone,
                StartsFromNothing
  <2>3. QED  BY <2>1, <2>2, DialSeeds
<1>6. CASE KisClientAssigned
  <2>1. /\ exchange = "kis" /\ conn # "none" /\ client' = "current"
        /\ UNCHANGED <<exchange, posted, timer, pending, opened, dial, conn, reports, seeded,
                       failures>>
    BY <1>6 DEF KisClientAssigned, ownerVars, historyVars
  <2>2. QED
    BY <2>1 DEF SeedFacts, DialsPaid, QueuesFresh, TellsHistory, RedialsTheDead, Redialling,
                StartsFromNothing, KisClientGone
<1>7. CASE KisPreviousReports
  BY <1>7 DEF KisPreviousReports, SeedFacts, KisClientGone
<1>8. CASE OpenHandler
  BY <1>8, HandlerSeeds DEF OpenHandler
<1>9. CASE FailHandler \/ PongTimeout
  BY <1>9, HandlerSeeds DEF FailHandler, PongTimeout, Alive
<1>10. CASE CloseHandler
  BY <1>10, HandlerSeeds DEF CloseHandler, Alive
<1>11. ASSUME NEW t \in Thread, WorkerHandles(t) PROVE SeedFacts'
  BY <1>11, WorkerSeeds DEF Calm
<1>12. CASE WorkerExits \/ Stop \/ Joined
  BY <1>12 DEF WorkerExits, Stop, Joined, Calm
<1>13. QED
  BY <1>2, <1>3, <1>4, <1>5, <1>6, <1>7, <1>8, <1>9, <1>10, <1>11, <1>12
  DEF Next, IoStep, SocketStep, WorkerStep

\* "so seed authoritative state from REST snapshots on every (re)connect": an open
\* connection whose reports have been handled has been seeded (KIS: subscribed)
\* since it was dialled, for any number of failures, unless a report was handled
\* after its client had been replaced.
THEOREM EveryOpenIsSeeded == Spec => []SeededOnEveryOpen
<1>1. Init => SeedInv
  <2> SUFFICES ASSUME Init PROVE SeedFacts
    BY RedialInit DEF SeedInv
  <2>1. /\ dial = 0 /\ failures = 0 /\ conn = "none" /\ ~opened /\ ~pending /\ ~timer
        /\ posted = "start" /\ client = "current" /\ \A t \in Thread : reports[t] = <<>>
    BY DEF Init
  <2>2. Io \in Thread /\ Io = 0
    BY SocketAssumption DEF Io, Thread, MaxDials
  <2>3. DialsPaid /\ QueuesFresh
    BY <2>1, <2>2 DEF DialsPaid, QueuesFresh, AllDialling
  <2>4. TellsHistory
    BY <2>1, <2>2 DEF TellsHistory, UpFirst
  <2>5. QED
    BY <2>1, <2>3, <2>4 DEF SeedFacts, RedialsTheDead, Redialling, StartsFromNothing,
                            KisClientGone
<1>2. SeedInv => SeededOnEveryOpen
  <2> SUFFICES ASSUME SeedInv, running, ~late, conn = "open", worker # "crashed",
                      \A t \in Thread : reports[t] = <<>>
               PROVE  seeded = dial
    BY DEF SeededOnEveryOpen
  <2>1. SeedFacts /\ SocketTypeOK
    BY DEF SeedInv, Calm, RedialInv
  <2>2. reports[dial] = <<>>
    BY <2>1, ThreadOfClient DEF SeedFacts
  <2>3. <<Up>> # <<>>
    OBVIOUS
  <2>4. QED  BY <2>1, <2>2, <2>3 DEF SeedFacts, TellsHistory
<1>3. QED  BY <1>1, <1>2, SeedStep, PTL DEF Spec
=============================================================================
