----------------------------- MODULE TaskRunner -----------------------------
(***************************************************************************)
(* SerialTaskRunner (utils/task_runner.{hpp,cpp}): the worker thread that  *)
(* makes the REST order gateway's blocking calls, one at a time.           *)
(*                                                                         *)
(* Threads: the posters (post), the worker (loop) and the owner (drain and *)
(* the destructor).  Every access to the atomic outstanding_ and to the    *)
(* queue is a step of its own.  The queue is a moodycamel queue: FIFO per  *)
(* posting thread, with no order promised between threads.  A task is its  *)
(* number among those accepted from its poster.                            *)
(***************************************************************************)
EXTENDS Integers, Sequences, FiniteSets

CONSTANTS
  Poster,      \* the threads that post; the gateway has one, the trader thread
  MaxQueued,   \* max_queued_
  MaxPosts     \* bound: tasks accepted from each poster

\* The constructor makes any other max_queued 1.
ASSUME RunnerAssumption ==
  IsFiniteSet(Poster) /\ MaxQueued \in Nat \ {0} /\ MaxPosts \in Nat

VARIABLES
  outstanding,  \* outstanding_
  queue,        \* queue_, per posting thread
  posting,      \* per poster: "idle", or the branch post() is in
  worker,       \* the worker: "idle", "busy", "finished" or "exited"
  task,         \* the task the worker holds: <<poster, number>>
  owner,        \* "alive", "draining", "drained" (running_ is FALSE) or "gone"
  accepted,     \* per poster: tasks accepted
  ran           \* per poster: the task run last

vars == <<outstanding, queue, posting, worker, task, owner, accepted, ran>>

NoTask == <<>>

TypeOK ==
  /\ outstanding \in Nat
  /\ queue \in [Poster -> Seq(Nat)]
  /\ posting \in [Poster -> {"idle", "enqueue", "refuse"}]
  /\ worker \in {"idle", "busy", "finished", "exited"}
  /\ task \in (Poster \X Nat) \cup {NoTask}
  /\ owner \in {"alive", "draining", "drained", "gone"}
  /\ accepted \in [Poster -> Nat]
  /\ ran \in [Poster -> Nat]

Init ==
  /\ outstanding = 0
  /\ queue = [p \in Poster |-> <<>>]
  /\ posting = [p \in Poster |-> "idle"]
  /\ worker = "idle" /\ task = NoTask
  /\ owner = "alive"
  /\ accepted = [p \in Poster |-> 0]
  /\ ran = [p \in Poster |-> 0]
-----------------------------------------------------------------------------
(* post()                                                                  *)

\* Mutant: one more than max_queued is let in.
CountOneTooMany(p) ==
  /\ owner = "alive" /\ posting[p] = "idle" /\ accepted[p] < MaxPosts
  /\ outstanding' = outstanding + 1
  /\ posting' = [posting EXCEPT ![p] = IF outstanding > MaxQueued THEN "refuse" ELSE "enqueue"]
  /\ UNCHANGED <<queue, worker, task, owner, accepted, ran>>

\* fetch_add, and what its old value says.
PostCount(p) ==
  /\ owner = "alive" /\ posting[p] = "idle" /\ accepted[p] < MaxPosts
  /\ outstanding' = outstanding + 1
  /\ posting' = [posting EXCEPT ![p] = IF outstanding >= MaxQueued THEN "refuse" ELSE "enqueue"]
  /\ UNCHANGED <<queue, worker, task, owner, accepted, ran>>

\* Mutant: a refusal leaves its count behind.
RefuseKeepsCount(p) ==
  /\ posting[p] = "refuse"
  /\ posting' = [posting EXCEPT ![p] = "idle"]
  /\ UNCHANGED <<outstanding, queue, worker, task, owner, accepted, ran>>

\* Refused: the count is taken back and the caller reports a failed request.
PostRefuse(p) ==
  /\ posting[p] = "refuse"
  /\ outstanding' = outstanding - 1
  /\ posting' = [posting EXCEPT ![p] = "idle"]
  /\ UNCHANGED <<queue, worker, task, owner, accepted, ran>>

PostEnqueue(p) ==
  /\ posting[p] = "enqueue"
  /\ accepted' = [accepted EXCEPT ![p] = @ + 1]
  /\ queue' = [queue EXCEPT ![p] = Append(@, accepted[p] + 1)]
  /\ posting' = [posting EXCEPT ![p] = "idle"]
  /\ UNCHANGED <<outstanding, worker, task, owner, ran>>
-----------------------------------------------------------------------------
(* loop()                                                                  *)

\* Mutant: the newest task first.
TakeNewest(p) ==
  /\ worker = "idle" /\ queue[p] # <<>>
  /\ task' = <<p, queue[p][Len(queue[p])]>>
  /\ queue' = [queue EXCEPT ![p] = SubSeq(@, 1, Len(@) - 1)]
  /\ worker' = "busy"
  /\ UNCHANGED <<outstanding, posting, owner, accepted, ran>>

WorkerTake(p) ==
  /\ worker = "idle" /\ queue[p] # <<>>
  /\ task' = <<p, Head(queue[p])>>
  /\ queue' = [queue EXCEPT ![p] = Tail(@)]
  /\ worker' = "busy"
  /\ UNCHANGED <<outstanding, posting, owner, accepted, ran>>

\* work() returns or throws, and the callable is destroyed.
WorkerRun ==
  /\ worker = "busy"
  /\ ran' = [ran EXCEPT ![task[1]] = task[2]]
  /\ task' = NoTask
  /\ worker' = "finished"
  /\ UNCHANGED <<outstanding, queue, posting, owner, accepted>>

WorkerUncount ==
  /\ worker = "finished"
  /\ outstanding' = outstanding - 1
  /\ worker' = "idle"
  /\ UNCHANGED <<queue, posting, task, owner, accepted, ran>>

\* The timed wait found nothing, and running_ has been cleared.
WorkerExit ==
  /\ worker = "idle" /\ \A p \in Poster : queue[p] = <<>>
  /\ owner = "drained"
  /\ worker' = "exited"
  /\ UNCHANGED <<outstanding, queue, posting, task, owner, accepted, ran>>
-----------------------------------------------------------------------------
(* The destructor.  It runs once nobody posts any more.                    *)

BeginDrain ==
  /\ owner = "alive" /\ \A p \in Poster : posting[p] = "idle"
  /\ owner' = "draining"
  /\ UNCHANGED <<outstanding, queue, posting, worker, task, accepted, ran>>

\* drain() polls the counter...
DrainPolls == owner = "draining" /\ outstanding > 0 /\ UNCHANGED vars

\* ...until it is zero; then running_ is cleared.
DrainReturns ==
  /\ owner = "draining" /\ outstanding <= 0
  /\ owner' = "drained"
  /\ UNCHANGED <<outstanding, queue, posting, worker, task, accepted, ran>>

Join ==
  /\ owner = "drained" /\ worker = "exited"
  /\ owner' = "gone"
  /\ UNCHANGED <<outstanding, queue, posting, worker, task, accepted, ran>>

Gone == owner = "gone" /\ UNCHANGED vars

WorkerStep == WorkerRun \/ WorkerUncount \/ WorkerExit \/ \E p \in Poster : WorkerTake(p)

PosterStep == \E p \in Poster : PostCount(p) \/ PostRefuse(p) \/ PostEnqueue(p)

OwnerStep == BeginDrain \/ DrainPolls \/ DrainReturns \/ Join

Next == WorkerStep \/ PosterStep \/ OwnerStep \/ Gone

Spec == Init /\ [][Next]_vars

-----------------------------------------------------------------------------
(* Properties.                                                             *)

InFlight ==
  {t \in Poster \X (1..MaxPosts) : ran[t[1]] < t[2] /\ t[2] <= accepted[t[1]]}

\* "caps how much can be waiting, so a venue that stops answering cannot let the
\* backlog grow without bound": the tasks accepted and not yet run never exceed
\* max_queued, however the count-then-enqueue steps of several posters race each
\* other and the worker.
BacklogBounded == Cardinality(InFlight) <= MaxQueued

\* "A posted task calling back into an object that is being destroyed is exactly
\* what this prevents": once drain() has returned no task is queued, held or run.
NothingRunsAfterDrain ==
  owner \in {"drained", "gone"} =>
    worker # "busy" /\ \A p \in Poster : queue[p] = <<>>

\* The runner does what SerialExecutor promises: per poster, tasks run once each
\* and in posting order, none after and none left when drain() returns.
Promise == INSTANCE SerialExecutor WITH closed <- owner \in {"drained", "gone"}
KeepsPromise == Promise!Spec
=============================================================================
