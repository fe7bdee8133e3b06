------------------------ MODULE OrderGateways_proofs ------------------------
(***************************************************************************)
(* Proofs about the order gateways and the task runner under the KIS one,  *)
(* for any posting threads, backlog, number of requests and of failures.   *)
(*                                                                         *)
(* The runner: outstanding_ counts exactly the work there is, so that      *)
(* drain() is right to wait for zero and post() is right to refuse by it,  *)
(* and every step is one of SerialExecutor.  The Binance session hands a   *)
(* request to an open connection or to none.  The KIS gateway keeps the    *)
(* contract of IOrderGateway.                                              *)
(***************************************************************************)
EXTENDS OrderGateways, FiniteSetTheorems, TLAPS

(* The task runner.                                                        *)

Counting == {p \in Poster : posting[p] # "idle"}
Enqueuing == {p \in Poster : posting[p] = "enqueue"}
Held(p) == IF worker = "busy" /\ task[1] = p THEN 1 ELSE 0
Base(p) == ran[p] + Held(p)   \* the last task no longer queued
Finishing == IF worker = "finished" THEN 1 ELSE 0

\* s is b + 1, b + 2, ...
Numbered(s, b) == \A i \in 1..Len(s) : s[i] = b + i

\* outstanding_ is the tasks not yet run, the posts under way and the task run
\* but not yet counted off.
Counted == outstanding = Cardinality(InFlight) + Cardinality(Counting) + Finishing

\* What was let in, queued or about to be, stays within max_queued.
Limited == Cardinality(InFlight) + Cardinality(Enqueuing) <= MaxQueued

\* A poster's queue holds its unfinished tasks in order, without the one the
\* worker holds, which is the oldest.
InOrder ==
  /\ \A p \in Poster :
       /\ accepted[p] <= MaxPosts
       /\ posting[p] # "idle" => accepted[p] < MaxPosts /\ owner = "alive"
       /\ Numbered(queue[p], Base(p))
       /\ Base(p) + Len(queue[p]) = accepted[p]
  /\ worker = "busy" => task \in Poster \X Nat /\ task[2] = ran[task[1]] + 1

\* Nothing is left, and nothing held, once the owner has drained.
Drained ==
  owner \in {"drained", "gone"} =>
    /\ worker \in {"idle", "exited"}
    /\ \A p \in Poster : ran[p] = accepted[p]

RunnerInv == TypeOK /\ Counted /\ Limited /\ InOrder /\ Drained
-----------------------------------------------------------------------------
\* The sets that are counted are finite.
LEMMA FiniteCounts ==
  /\ IsFiniteSet(InFlight) /\ Cardinality(InFlight) \in Nat
  /\ IsFiniteSet(Counting) /\ Cardinality(Counting) \in Nat
  /\ IsFiniteSet(Enqueuing) /\ Cardinality(Enqueuing) \in Nat
  /\ Cardinality(Enqueuing) <= Cardinality(Counting)
<1>1. IsFiniteSet(Poster \X (1..MaxPosts))
  <2>1. IsFiniteSet(1..MaxPosts)
    BY FS_Interval, RunnerAssumption
  <2>2. QED  BY <2>1, FS_Product, RunnerAssumption, Zenon
<1>2. InFlight \in SUBSET (Poster \X (1..MaxPosts))
  BY DEF InFlight
<1>3. Counting \in SUBSET Poster /\ IsFiniteSet(Poster) /\ Enqueuing \in SUBSET Counting
  BY RunnerAssumption DEF Counting, Enqueuing
<1>4. IsFiniteSet(InFlight) /\ Cardinality(InFlight) \in Nat
  BY <1>1, <1>2, FS_Subset, FS_CardinalityType
<1>5. IsFiniteSet(Counting) /\ Cardinality(Counting) \in Nat
  BY <1>3, FS_Subset, FS_CardinalityType
<1>6. /\ IsFiniteSet(Enqueuing) /\ Cardinality(Enqueuing) \in Nat
      /\ Cardinality(Enqueuing) <= Cardinality(Counting)
  BY <1>3, <1>5, FS_Subset, FS_CardinalityType
<1>7. QED  BY <1>4, <1>5, <1>6

\* The constructor leaves the runner with nothing to do.
LEMMA RunnerInit == Init => RunnerInv
<1>1. SUFFICES ASSUME Init PROVE RunnerInv  OBVIOUS
<1>2. TypeOK
  BY <1>1 DEF Init, TypeOK
<1>3. InFlight = {} /\ Counting = {} /\ Enqueuing = {}
  BY <1>1, RunnerAssumption DEF Init, InFlight, Counting, Enqueuing
<1>4. Cardinality(InFlight) = 0 /\ Cardinality(Counting) = 0 /\ Cardinality(Enqueuing) = 0
  BY <1>3, FS_EmptySet
<1>5. Counted /\ Limited
  BY <1>1, <1>4, RunnerAssumption DEF Init, Counted, Limited, Finishing
<1>6. InOrder /\ Drained
  BY <1>1, RunnerAssumption DEF Init, InOrder, Drained, Held, Base, Numbered
<1>7. QED  BY <1>2, <1>5, <1>6 DEF RunnerInv
\* Appending the next number keeps a queue in order.
LEMMA AppendNumbered ==
  ASSUME NEW s \in Seq(Nat), NEW b \in Nat, Numbered(s, b), NEW n \in Nat, n = b + Len(s) + 1
  PROVE  Numbered(Append(s, n), b) /\ Len(Append(s, n)) = Len(s) + 1
  BY DEF Numbered

\* Dropping the first number keeps a queue in order.
LEMMA TailNumbered ==
  ASSUME NEW s \in Seq(Nat), NEW b \in Nat, Numbered(s, b), s # <<>>
  PROVE  /\ Head(s) = b + 1 /\ Tail(s) \in Seq(Nat) /\ Numbered(Tail(s), b + 1)
         /\ Len(Tail(s)) = Len(s) - 1 /\ Len(s) \in Nat /\ Len(s) > 0
  BY DEF Numbered

\* The part of the invariant the leaves below need about one poster.
LEMMA PosterFacts ==
  ASSUME RunnerInv, NEW p \in Poster
  PROVE  /\ accepted[p] \in Nat /\ ran[p] \in Nat /\ queue[p] \in Seq(Nat)
         /\ Held(p) \in {0, 1} /\ Base(p) \in Nat /\ ran[p] <= Base(p)
         /\ Len(queue[p]) \in Nat /\ Base(p) <= accepted[p]
         /\ accepted[p] <= MaxPosts
         /\ posting[p] # "idle" => accepted[p] < MaxPosts /\ owner = "alive"
         /\ Numbered(queue[p], Base(p))
         /\ Base(p) + Len(queue[p]) = accepted[p]
<1>1. accepted[p] \in Nat /\ ran[p] \in Nat /\ queue[p] \in Seq(Nat) /\ Len(queue[p]) \in Nat
  BY DEF RunnerInv, TypeOK
<1>2. Held(p) \in {0, 1}
  BY DEF Held
<1>3. Base(p) \in Nat /\ ran[p] <= Base(p)
  BY <1>1, <1>2 DEF Base
<1>4. /\ accepted[p] <= MaxPosts
      /\ posting[p] # "idle" => accepted[p] < MaxPosts /\ owner = "alive"
      /\ Numbered(queue[p], Base(p))
      /\ Base(p) + Len(queue[p]) = accepted[p]
  BY DEF RunnerInv, InOrder
<1>5. QED  BY <1>1, <1>2, <1>3, <1>4
-----------------------------------------------------------------------------
\* post() counts itself first; it goes on to enqueue only below max_queued.
LEMMA PostCountKeeps ==
  ASSUME RunnerInv, NEW p \in Poster, PostCount(p)
  PROVE  RunnerInv'
<1>1. TypeOK'
  BY DEF RunnerInv, TypeOK, PostCount
<1>2. InFlight' = InFlight /\ Finishing' = Finishing
  BY DEF PostCount, InFlight, Finishing
<1>3. Counting' = Counting \cup {p} /\ p \notin Counting
  BY DEF PostCount, Counting, RunnerInv, TypeOK
<1>4. Cardinality(Counting') = Cardinality(Counting) + 1
  BY <1>3, FiniteCounts, FS_AddElement
<1>5. Finishing \in {0, 1}
  BY DEF Finishing
<1>6. Counted'
  BY <1>2, <1>4, <1>5, FiniteCounts DEF RunnerInv, Counted, PostCount
<1>7. Limited'
  <2>1. CASE outstanding >= MaxQueued
    <3>1. Enqueuing' = Enqueuing
      BY <2>1 DEF PostCount, Enqueuing, RunnerInv, TypeOK
    <3>2. QED  BY <3>1, <1>2 DEF RunnerInv, Limited
  <2>2. CASE ~(outstanding >= MaxQueued)
    <3>1. Enqueuing' = Enqueuing \cup {p} /\ p \notin Enqueuing
      BY <2>2 DEF PostCount, Enqueuing, RunnerInv, TypeOK
    <3>2. Cardinality(Enqueuing') = Cardinality(Enqueuing) + 1
      BY <3>1, FiniteCounts, FS_AddElement
    <3>3. Cardinality(InFlight) + Cardinality(Enqueuing) <= outstanding
      BY <1>5, FiniteCounts DEF RunnerInv, Counted
    <3>4. Cardinality(InFlight) + Cardinality(Enqueuing) + 1 <= MaxQueued
      BY <2>2, <3>3, FiniteCounts, RunnerAssumption DEF RunnerInv, TypeOK
    <3>5. QED  BY <3>2, <3>4, <1>2, FiniteCounts DEF Limited
  <2>3. QED  BY <2>1, <2>2
<1>8. InOrder'
  BY DEF RunnerInv, TypeOK, InOrder, Held, Base, PostCount
<1>9. Drained'
  BY DEF RunnerInv, Drained, PostCount
<1>10. QED  BY <1>1, <1>6, <1>7, <1>8, <1>9 DEF RunnerInv

\* A refused post takes its own count back.
LEMMA PostRefuseKeeps ==
  ASSUME RunnerInv, NEW p \in Poster, PostRefuse(p)
  PROVE  RunnerInv'
<1>1. InFlight' = InFlight /\ Finishing' = Finishing
  BY DEF PostRefuse, InFlight, Finishing
<1>2. Counting' = Counting \ {p} /\ p \in Counting
  BY DEF PostRefuse, Counting, RunnerInv, TypeOK
<1>3. Cardinality(Counting') = Cardinality(Counting) - 1
  BY <1>2, FiniteCounts, FS_RemoveElement
<1>4. Enqueuing' = Enqueuing
  BY DEF PostRefuse, Enqueuing, RunnerInv, TypeOK
<1>5. Finishing \in {0, 1} /\ Cardinality(Counting) > 0
  BY <1>2, FiniteCounts, FS_EmptySet DEF Finishing
<1>6. Counted' /\ outstanding' \in Nat
  BY <1>1, <1>3, <1>5, FiniteCounts DEF RunnerInv, Counted, PostRefuse
<1>7. TypeOK'
  BY <1>6 DEF RunnerInv, TypeOK, PostRefuse
<1>8. Limited'
  BY <1>1, <1>4 DEF RunnerInv, Limited
<1>9. InOrder' /\ Drained'
  BY DEF RunnerInv, TypeOK, InOrder, Held, Base, Drained, PostRefuse
<1>10. QED  BY <1>6, <1>7, <1>8, <1>9 DEF RunnerInv

\* The post under way becomes a task in flight.
LEMMA PostEnqueueKeeps ==
  ASSUME RunnerInv, NEW p \in Poster, PostEnqueue(p)
  PROVE  RunnerInv'
<1> DEFINE new == <<p, accepted[p] + 1>>
<1>1. /\ accepted[p] \in Nat /\ accepted[p] < MaxPosts /\ ran[p] \in Nat /\ ran[p] <= accepted[p]
      /\ owner = "alive"
  BY PosterFacts DEF PostEnqueue
<1>2. InFlight' = InFlight \cup {new} /\ new \notin InFlight
  <2>1. ASSUME NEW t \in Poster \X (1..MaxPosts)
        PROVE  t \in InFlight' <=> t \in InFlight \/ t = new
    <3>1. CASE t[1] = p
      BY <1>1, <2>1, <3>1 DEF PostEnqueue, InFlight, RunnerInv, TypeOK
    <3>2. CASE t[1] # p
      BY <1>1, <2>1, <3>2 DEF PostEnqueue, InFlight, RunnerInv, TypeOK
    <3>3. QED  BY <3>1, <3>2
  <2>2. new \in Poster \X (1..MaxPosts)
    BY <1>1, RunnerAssumption
  <2>3. new \notin InFlight
    BY <1>1 DEF InFlight
  <2>4. InFlight \subseteq Poster \X (1..MaxPosts) /\ InFlight' \subseteq Poster \X (1..MaxPosts)
    BY DEF InFlight
  <2> HIDE DEF new
  <2>5. QED  BY <2>1, <2>2, <2>3, <2>4
<1>3. Cardinality(InFlight') = Cardinality(InFlight) + 1
  BY <1>2, FiniteCounts, FS_AddElement
<1>4. Counting' = Counting \ {p} /\ p \in Counting
  BY DEF PostEnqueue, Counting, RunnerInv, TypeOK
<1>5. Enqueuing' = Enqueuing \ {p} /\ p \in Enqueuing
  BY DEF PostEnqueue, Enqueuing, RunnerInv, TypeOK
<1>6. /\ Cardinality(Counting') = Cardinality(Counting) - 1
      /\ Cardinality(Enqueuing') = Cardinality(Enqueuing) - 1
  BY <1>4, <1>5, FiniteCounts, FS_RemoveElement
<1>7. Finishing' = Finishing /\ Finishing \in {0, 1} /\ outstanding' = outstanding
  BY DEF Finishing, PostEnqueue
<1>8. Counted' /\ Limited'
  <2>1. Counted /\ Limited
    BY DEF RunnerInv
  <2>2. Counted'
    BY <2>1, <1>3, <1>6, <1>7, FiniteCounts DEF Counted
  <2>3. Limited'
    BY <2>1, <1>3, <1>6, FiniteCounts, RunnerAssumption DEF Limited
  <2>4. QED  BY <2>2, <2>3
<1>9. TypeOK'
  BY DEF RunnerInv, TypeOK, PostEnqueue
<1>10. \A q \in Poster : Base(q)' = Base(q)
  BY DEF Base, Held, PostEnqueue
<1>11. InOrder'
  <2>1. ASSUME NEW q \in Poster
        PROVE  /\ (accepted[q] <= MaxPosts)'
               /\ (posting[q] # "idle" => accepted[q] < MaxPosts /\ owner = "alive")'
               /\ Numbered(queue[q], Base(q))'
               /\ (Base(q) + Len(queue[q]) = accepted[q])'
    <3>1. CASE q = p
      <4>1. queue'[p] = Append(queue[p], accepted[p] + 1)
        BY DEF PostEnqueue, RunnerInv, TypeOK
      <4>2. accepted'[p] = accepted[p] + 1 /\ posting'[p] = "idle"
        BY DEF PostEnqueue, RunnerInv, TypeOK
      <4>3. accepted[p] + 1 = Base(p) + Len(queue[p]) + 1 /\ accepted[p] + 1 \in Nat
        BY PosterFacts
      <4>4. /\ Numbered(Append(queue[p], accepted[p] + 1), Base(p))
            /\ Len(Append(queue[p], accepted[p] + 1)) = Len(queue[p]) + 1
        BY <4>3, PosterFacts, AppendNumbered
      <4>5. Numbered(queue'[p], Base(p)')
        BY <4>1, <4>4, <1>10
      <4>6. Base(p)' + Len(queue'[p]) = accepted'[p]
        BY <4>1, <4>2, <4>3, <4>4, <1>10, PosterFacts
      <4>7. QED  BY <3>1, <4>2, <4>5, <4>6, <1>1, RunnerAssumption DEF Numbered
    <3>2. CASE q # p
      <4>1. /\ queue'[q] = queue[q] /\ accepted'[q] = accepted[q]
            /\ posting'[q] = posting[q] /\ owner' = owner
        BY <3>2 DEF PostEnqueue, RunnerInv, TypeOK
      <4>2. QED  BY <4>1, <1>10, PosterFacts DEF Numbered
    <3>3. QED  BY <3>1, <3>2
  <2>2. (worker = "busy" => task \in Poster \X Nat /\ task[2] = ran[task[1]] + 1)'
    BY DEF RunnerInv, InOrder, PostEnqueue
  <2>3. QED  BY <2>1, <2>2 DEF InOrder
<1>12. Drained'
  BY <1>1 DEF Drained, PostEnqueue
<1>13. QED  BY <1>8, <1>9, <1>11, <1>12 DEF RunnerInv
-----------------------------------------------------------------------------
\* The worker takes the oldest task of a poster; the counts do not move.
LEMMA WorkerTakeKeeps ==
  ASSUME RunnerInv, NEW p \in Poster, WorkerTake(p)
  PROVE  RunnerInv'
<1>1. Held(p) = 0 /\ Base(p) = ran[p] /\ ran[p] \in Nat
  BY PosterFacts DEF Held, Base, WorkerTake
<1>2. /\ Head(queue[p]) = ran[p] + 1 /\ Tail(queue[p]) \in Seq(Nat)
      /\ Numbered(Tail(queue[p]), ran[p] + 1)
      /\ Len(Tail(queue[p])) = Len(queue[p]) - 1 /\ Len(queue[p]) \in Nat /\ Len(queue[p]) > 0
  <2>1. queue[p] # <<>>
    BY DEF WorkerTake
  <2>2. QED  BY <2>1, <1>1, PosterFacts, TailNumbered
<1>3. /\ queue'[p] = Tail(queue[p]) /\ \A q \in Poster : q # p => queue'[q] = queue[q]
      /\ task' = <<p, ran[p] + 1>> /\ worker' = "busy" /\ worker = "idle"
      /\ UNCHANGED <<outstanding, posting, owner, accepted, ran>>
  BY <1>2 DEF WorkerTake, RunnerInv, TypeOK
<1>4. /\ Base(p)' = ran[p] + 1
      /\ \A q \in Poster : q # p => Base(q)' = Base(q)
  <2>1. Held(p)' = 1 /\ \A q \in Poster : q # p => Held(q)' = Held(q)
    BY <1>3 DEF Held
  <2>2. QED  BY <2>1, <1>3 DEF Base
<1>5. TypeOK'
  BY <1>1, <1>2, <1>3 DEF RunnerInv, TypeOK, WorkerTake
<1>6. Counted' /\ Limited'
  <2>1. InFlight' = InFlight /\ Counting' = Counting /\ Enqueuing' = Enqueuing
    BY <1>3 DEF InFlight, Counting, Enqueuing
  <2>2. Finishing' = Finishing
    BY <1>3 DEF Finishing
  <2>3. QED  BY <2>1, <2>2, <1>3 DEF RunnerInv, Counted, Limited
<1>7. InOrder'
  <2>1. ASSUME NEW q \in Poster
        PROVE  /\ (accepted[q] <= MaxPosts)'
               /\ (posting[q] # "idle" => accepted[q] < MaxPosts /\ owner = "alive")'
               /\ Numbered(queue[q], Base(q))'
               /\ (Base(q) + Len(queue[q]) = accepted[q])'
    <3>1. CASE q = p
      <4>1. Numbered(queue'[p], Base(p)')
        BY <1>2, <1>3, <1>4
      <4>2. Base(p)' + Len(queue'[p]) = accepted'[p]
        BY <1>1, <1>2, <1>3, <1>4, PosterFacts
      <4>3. QED  BY <3>1, <4>1, <4>2, <1>3, PosterFacts DEF Numbered
    <3>2. CASE q # p
      <4>1. queue'[q] = queue[q] /\ Base(q)' = Base(q)
        BY <3>2, <1>3, <1>4
      <4>2. QED  BY <4>1, <1>3, PosterFacts DEF Numbered
    <3>3. QED  BY <3>1, <3>2
  <2>2. (worker = "busy" => task \in Poster \X Nat /\ task[2] = ran[task[1]] + 1)'
    BY <1>1, <1>3
  <2>3. QED  BY <2>1, <2>2 DEF InOrder
<1>8. Drained'
  <2>1. SUFFICES ASSUME owner \in {"drained", "gone"} PROVE FALSE
    BY <1>3 DEF Drained
  <2>2. ran[p] = accepted[p]
    BY <2>1 DEF RunnerInv, Drained
  <2>3. QED  BY <2>2, <1>1, <1>2, PosterFacts
<1>9. QED  BY <1>5, <1>6, <1>7, <1>8 DEF RunnerInv

\* The task has run: it leaves the set in flight and waits to be counted off.
LEMMA WorkerRunKeeps ==
  ASSUME RunnerInv, WorkerRun
  PROVE  RunnerInv'
<1> DEFINE p == task[1]
<1>1. /\ task \in Poster \X Nat /\ p \in Poster /\ task[2] = ran[p] + 1
      /\ task = <<p, ran[p] + 1>>
  BY DEF RunnerInv, InOrder, WorkerRun
<1> HIDE DEF p
<1>2. Held(p) = 1 /\ Base(p) = ran[p] + 1
  BY DEF WorkerRun, Held, Base, p
<1>3. /\ ran[p] \in Nat /\ accepted[p] \in Nat /\ ran[p] + 1 <= accepted[p]
      /\ accepted[p] <= MaxPosts
  BY <1>1, <1>2, PosterFacts
<1>4. /\ ran' = [ran EXCEPT ![p] = ran[p] + 1] /\ worker' = "finished" /\ worker = "busy"
      /\ task' = NoTask /\ UNCHANGED <<outstanding, queue, posting, owner, accepted>>
  BY <1>1 DEF WorkerRun, p
<1>5. TypeOK'
  BY <1>1, <1>3, <1>4 DEF RunnerInv, TypeOK
<1>6. InFlight' = InFlight \ {<<p, ran[p] + 1>>} /\ <<p, ran[p] + 1>> \in InFlight
  <2>1. ASSUME NEW t \in Poster \X (1..MaxPosts)
        PROVE  t \in InFlight' <=> t \in InFlight /\ t # <<p, ran[p] + 1>>
    <3>1. CASE t[1] = p
      BY <1>1, <1>3, <1>4, <2>1, <3>1 DEF InFlight, RunnerInv, TypeOK
    <3>2. CASE t[1] # p
      BY <1>1, <1>3, <1>4, <2>1, <3>2 DEF InFlight, RunnerInv, TypeOK
    <3>3. QED  BY <3>1, <3>2
  <2>2. <<p, ran[p] + 1>> \in InFlight
    BY <1>1, <1>3, RunnerAssumption DEF InFlight
  <2>3. InFlight \subseteq Poster \X (1..MaxPosts) /\ InFlight' \subseteq Poster \X (1..MaxPosts)
    BY DEF InFlight
  <2>4. QED  BY <2>1, <2>2, <2>3
<1>7. Cardinality(InFlight') = Cardinality(InFlight) - 1
  BY <1>6, FiniteCounts, FS_RemoveElement
<1>8. /\ Counting' = Counting /\ Enqueuing' = Enqueuing
      /\ Finishing = 0 /\ Finishing' = 1
  BY <1>4 DEF Counting, Enqueuing, Finishing
<1>9. Counted' /\ Limited'
  BY <1>4, <1>7, <1>8, FiniteCounts, RunnerAssumption DEF RunnerInv, Counted, Limited
<1>10. \A q \in Poster : Base(q)' = Base(q)
  <2>1. ASSUME NEW q \in Poster PROVE Base(q)' = Base(q)
    <3>1. Held(q)' = 0
      BY <1>4 DEF Held
    <3>2. CASE q = p
      BY <3>1, <3>2, <1>2, <1>3, <1>4 DEF Base, RunnerInv, TypeOK
    <3>3. CASE q # p
      <4>1. Held(q) = 0 /\ ran'[q] = ran[q]
        BY <3>3, <1>1, <1>4 DEF Held, p, RunnerInv, TypeOK
      <4>2. QED  BY <3>1, <4>1 DEF Base
    <3>4. QED  BY <3>2, <3>3
  <2>2. QED  BY <2>1
<1>11. InOrder'
  <2>1. ASSUME NEW q \in Poster
        PROVE  /\ (accepted[q] <= MaxPosts)'
               /\ (posting[q] # "idle" => accepted[q] < MaxPosts /\ owner = "alive")'
               /\ Numbered(queue[q], Base(q))'
               /\ (Base(q) + Len(queue[q]) = accepted[q])'
    BY <1>4, <1>10, PosterFacts DEF Numbered
  <2>2. QED  BY <2>1, <1>4 DEF InOrder
<1>12. Drained'
  BY <1>4 DEF RunnerInv, Drained
<1>13. QED  BY <1>5, <1>9, <1>11, <1>12 DEF RunnerInv

\* The count drops only now, after the task and its captures are gone.
LEMMA WorkerUncountKeeps ==
  ASSUME RunnerInv, WorkerUncount
  PROVE  RunnerInv'
<1>1. InFlight' = InFlight /\ Counting' = Counting /\ Enqueuing' = Enqueuing
  BY DEF WorkerUncount, InFlight, Counting, Enqueuing
<1>2. Finishing = 1 /\ Finishing' = 0 /\ outstanding' = outstanding - 1
  BY DEF WorkerUncount, Finishing
<1>3. Counted' /\ outstanding' \in Nat
  BY <1>1, <1>2, FiniteCounts DEF RunnerInv, Counted
<1>4. TypeOK'
  BY <1>3 DEF RunnerInv, TypeOK, WorkerUncount
<1>5. Limited'
  BY <1>1 DEF RunnerInv, Limited
<1>6. InOrder' /\ Drained'
  BY DEF RunnerInv, InOrder, Held, Base, Drained, WorkerUncount
<1>7. QED  BY <1>3, <1>4, <1>5, <1>6 DEF RunnerInv

\* A zero counter means that there is nothing left: drain() may return.
LEMMA ZeroMeansDone ==
  ASSUME RunnerInv, outstanding <= 0
  PROVE  worker \in {"idle", "exited"} /\ \A p \in Poster : ran[p] = accepted[p]
<1>1. Finishing \in {0, 1} /\ outstanding \in Nat
  BY DEF Finishing, RunnerInv, TypeOK
<1>2. Cardinality(InFlight) = 0 /\ Finishing = 0
  BY <1>1, FiniteCounts DEF RunnerInv, Counted
<1>3. InFlight = {}
  BY <1>2, FiniteCounts, FS_EmptySet
<1>4. ASSUME NEW p \in Poster PROVE ran[p] = accepted[p]
  <2>1. SUFFICES ASSUME ran[p] # accepted[p] PROVE FALSE
    OBVIOUS
  <2>2. /\ ran[p] \in Nat /\ accepted[p] \in Nat /\ ran[p] < accepted[p]
        /\ accepted[p] <= MaxPosts
    BY <2>1, PosterFacts
  <2>3. <<p, accepted[p]>> \in InFlight
    BY <2>2, RunnerAssumption DEF InFlight
  <2>4. QED  BY <2>3, <1>3
<1>5. worker # "busy"
  <2>1. SUFFICES ASSUME worker = "busy" PROVE FALSE
    OBVIOUS
  <2>2. task[1] \in Poster /\ Held(task[1]) = 1
    BY <2>1 DEF RunnerInv, InOrder, Held
  <2>3. ran[task[1]] + 1 <= accepted[task[1]] /\ ran[task[1]] \in Nat
    BY <2>2, PosterFacts DEF Base
  <2>4. QED  BY <2>2, <2>3, <1>4
<1>6. QED  BY <1>2, <1>4, <1>5 DEF Finishing, RunnerInv, TypeOK

\* The steps that move no task.
LEMMA OwnerKeeps ==
  ASSUME RunnerInv, WorkerExit \/ OwnerStep \/ Gone \/ UNCHANGED vars
  PROVE  RunnerInv'
<1>1. /\ UNCHANGED <<outstanding, queue, posting, task, accepted, ran>>
      /\ worker' = worker \/ (worker = "idle" /\ worker' = "exited" /\ owner' = owner)
  BY DEF WorkerExit, OwnerStep, BeginDrain, DrainPolls, DrainReturns, Join, Gone, vars
<1>2. /\ owner' \in {"alive", "draining", "drained", "gone"}
      /\ owner' # owner => \A p \in Poster : posting[p] = "idle"
      /\ owner' \in {"drained", "gone"} => owner \in {"drained", "gone"} \/ outstanding <= 0
  <2>1. CASE owner = "alive"
    BY <2>1 DEF WorkerExit, OwnerStep, BeginDrain, DrainPolls, DrainReturns, Join, Gone, vars
  <2>2. CASE owner # "alive"
    <3>1. \A p \in Poster : posting[p] = "idle"
      BY <2>2, PosterFacts
    <3>2. QED  BY <2>2, <3>1 DEF RunnerInv, TypeOK,
                 WorkerExit, OwnerStep, BeginDrain, DrainPolls, DrainReturns, Join, Gone, vars
  <2>3. QED  BY <2>1, <2>2
<1>3. TypeOK'
  BY <1>1, <1>2 DEF RunnerInv, TypeOK
<1>4. Counted' /\ Limited'
  BY <1>1 DEF RunnerInv, Counted, Limited, InFlight, Counting, Enqueuing, Finishing
<1>5. \A q \in Poster : Base(q)' = Base(q)
  BY <1>1 DEF Base, Held
<1>6. InOrder'
  <2>1. ASSUME NEW q \in Poster
        PROVE  /\ (accepted[q] <= MaxPosts)'
               /\ (posting[q] # "idle" => accepted[q] < MaxPosts /\ owner = "alive")'
               /\ Numbered(queue[q], Base(q))'
               /\ (Base(q) + Len(queue[q]) = accepted[q])'
    BY <1>1, <1>2, <1>5, PosterFacts DEF Numbered
  <2>2. QED  BY <2>1, <1>1 DEF InOrder, RunnerInv
<1>7. Drained'
  BY <1>1, <1>2, ZeroMeansDone DEF RunnerInv, Drained
<1>8. QED  BY <1>3, <1>4, <1>6, <1>7 DEF RunnerInv

\* Every step keeps the invariant.
LEMMA RunnerStep == RunnerInv /\ [Next]_vars => RunnerInv'
  BY PostCountKeeps, PostRefuseKeeps, PostEnqueueKeeps, WorkerTakeKeeps, WorkerRunKeeps,
     WorkerUncountKeeps, OwnerKeeps DEF Next, WorkerStep, PosterStep
-----------------------------------------------------------------------------
\* outstanding_ counts the work there is, in every reachable state.
THEOREM RunnerInvariant == Spec => []RunnerInv
  BY RunnerInit, RunnerStep, PTL DEF Spec

\* The types, and above all that outstanding_ never goes below zero.
THEOREM RunnerTypes == Spec => []TypeOK
<1>1. RunnerInv => TypeOK  BY DEF RunnerInv
<1>2. QED  BY <1>1, RunnerInvariant, PTL

\* post() never lets the backlog past max_queued, for any number of posters.
THEOREM BacklogStaysBounded == Spec => []BacklogBounded
<1>1. RunnerInv => BacklogBounded
  BY FiniteCounts, RunnerAssumption DEF RunnerInv, Limited, BacklogBounded
<1>2. QED  BY <1>1, RunnerInvariant, PTL

\* No task is left or runs once drain() has returned.
THEOREM DrainIsFinal == Spec => []NothingRunsAfterDrain
<1>1. ASSUME RunnerInv PROVE NothingRunsAfterDrain
  <2>1. SUFFICES ASSUME owner \in {"drained", "gone"}
                 PROVE  worker # "busy" /\ \A p \in Poster : queue[p] = <<>>
    BY DEF NothingRunsAfterDrain
  <2>2. worker # "busy" /\ \A p \in Poster : ran[p] = accepted[p]
    BY <1>1, <2>1 DEF RunnerInv, Drained
  <2>3. ASSUME NEW p \in Poster PROVE queue[p] = <<>>
    <3>1. Len(queue[p]) = 0 /\ queue[p] \in Seq(Nat)
      BY <1>1, <2>2, PosterFacts
    <3>2. QED  BY <3>1
  <2>4. QED  BY <2>2, <2>3
<1>2. QED  BY <1>1, RunnerInvariant, PTL

\* The runner implements SerialExecutor: tasks run once each, in the order their
\* poster posted them, and all of them before drain() returns.
THEOREM RunnerImplementsExecutor == Spec => KeepsPromise
<1>1. Init => Promise!Init
  BY DEF Init, Promise!Init
<1>2. ASSUME RunnerInv, [Next]_vars
      PROVE  [Promise!Next]_<<accepted, ran, owner \in {"drained", "gone"}>>
  <2>1. ASSUME NEW p \in Poster, PostEnqueue(p) PROVE Promise!Accept(p)
    <3>1. owner = "alive"
      BY <2>1, <1>2, PosterFacts DEF PostEnqueue
    <3>2. QED  BY <2>1, <3>1 DEF PostEnqueue, Promise!Accept
  <2>2. ASSUME WorkerRun PROVE \E p \in Poster : Promise!Run(p)
    <3>1. /\ task[1] \in Poster /\ task[2] = ran[task[1]] + 1
          /\ owner \notin {"drained", "gone"} /\ Held(task[1]) = 1
      BY <2>2, <1>2 DEF WorkerRun, RunnerInv, InOrder, Drained, Held
    <3>2. ran[task[1]] < accepted[task[1]]
      BY <3>1, <1>2, PosterFacts DEF Base
    <3>3. Promise!Run(task[1])
      BY <2>2, <3>1, <3>2 DEF WorkerRun, Promise!Run
    <3>4. QED  BY <3>1, <3>3
  <2>3. ASSUME DrainReturns PROVE Promise!Close
    <3>1. \A p \in Poster : ran[p] = accepted[p]
      BY <2>3, <1>2, ZeroMeansDone DEF DrainReturns
    <3>2. ran = accepted
      BY <3>1, <1>2 DEF RunnerInv, TypeOK
    <3>3. QED  BY <2>3, <3>2 DEF DrainReturns, Promise!Close
  <2>4. ASSUME \/ \E p \in Poster : PostCount(p) \/ PostRefuse(p) \/ WorkerTake(p)
               \/ WorkerUncount \/ WorkerExit \/ BeginDrain \/ DrainPolls \/ Join \/ Gone
               \/ UNCHANGED vars
        PROVE  UNCHANGED <<accepted, ran, owner \in {"drained", "gone"}>>
    BY <2>4 DEF PostCount, PostRefuse, WorkerTake, WorkerUncount, WorkerExit,
                BeginDrain, DrainPolls, Join, Gone, vars
  <2>5. QED
    BY <1>2, <2>1, <2>2, <2>3, <2>4
    DEF Next, WorkerStep, PosterStep, OwnerStep, Promise!Next
<1>3. QED  BY <1>1, <1>2, RunnerInvariant, PTL DEF Spec, KeepsPromise, Promise!Spec
-----------------------------------------------------------------------------
(* The Binance session.                                                    *)

Holder == {client, making["ctor"], making["io"]}   \* who has a client, 0 if not
Born == {"dialing", "stuck", "open", "lapsed", "closed"}

SessionTypeOK ==
  /\ connected \in BOOLEAN /\ overtaken \in BOOLEAN
  /\ client \in Ws!Client \cup {0}
  /\ making \in [Ws!Maker -> Ws!Client \cup {0}]
  /\ sock \in [Ws!Client -> {"unborn", "gone"} \cup Born]
  /\ io \in {"idle", "posted", "reset", "timer"}

\* A client is in one place at a time: with the constructor, with the io thread or
\* in client_.  While a redial is under way there is none.
OneClient ==
  /\ making["ctor"] # 0 => making["io"] = 0 /\ client = 0 /\ io \in {"idle", "posted"}
  /\ making["io"] # 0 => client = 0
  /\ io \in {"reset", "timer"} => Holder = {0}

\* Nobody else runs, and connected_ is what the one client last said.
SpeaksForIt ==
  /\ \A c \in Ws!Client : sock[c] \in Born => c \in Holder
  /\ connected => \A c \in Holder \ {0} : sock[c] = "open"

SessionInv ==
  /\ SessionTypeOK
  /\ ~overtaken => OneClient /\ SpeaksForIt /\ sent # "dead"

\* The constructor's first client.
LEMMA SessionInit == Ws!Init => SessionInv
<1> SUFFICES ASSUME Ws!Init PROVE SessionInv  OBVIOUS
<1>1. 1 \in Ws!Client /\ 0 \notin Ws!Client
  BY SessionAssumption DEF Ws!Client
<1>2. making["ctor"] = 1 /\ making["io"] = 0 /\ client = 0 /\ io = "idle" /\ ~connected
  BY DEF Ws!Init, Ws!Maker, Ws!NoClient
<1>3. SessionTypeOK
  BY <1>1, <1>2 DEF Ws!Init, SessionTypeOK, Ws!NoClient, Born
<1>4. OneClient /\ SpeaksForIt
  BY <1>2 DEF Ws!Init, OneClient, SpeaksForIt, Holder, Born
<1>5. sent # "dead"
  BY DEF Ws!Init
<1>6. QED  BY <1>3, <1>4, <1>5 DEF SessionInv

\* create_client's second half replaces nothing: the client it assigns is the one.
LEMMA AssignKeeps ==
  ASSUME SessionInv, NEW m \in Ws!Maker, Ws!Assign(m)
  PROVE  SessionInv'
<1>1. /\ making[m] # 0 /\ client' = making[m] /\ making' = [making EXCEPT ![m] = 0]
      /\ sock' = (IF client # 0 THEN [sock EXCEPT ![client] = "gone"] ELSE sock)
      /\ UNCHANGED <<connected, io, sent, overtaken>>
  BY DEF Ws!Assign, Ws!NoClient
<1>2. SessionTypeOK'
  BY <1>1 DEF SessionInv, SessionTypeOK
<1>3. ASSUME ~overtaken PROVE OneClient' /\ SpeaksForIt'
  <2>1. client = 0 /\ sock' = sock /\ \A n \in Ws!Maker : n # m => making[n] = 0
    BY <1>1, <1>3 DEF SessionInv, OneClient, Ws!Maker
  <2>2. /\ making'["ctor"] = 0 /\ making'["io"] = 0
        /\ Holder \ {0} = {making[m]} /\ Holder' \ {0} = {making[m]}
    BY <1>1, <2>1 DEF SessionInv, SessionTypeOK, Holder, Ws!Maker
  <2>3. io \notin {"reset", "timer"}
    BY <1>1, <1>3, <2>2 DEF SessionInv, OneClient
  <2>4. OneClient'
    BY <1>1, <2>2, <2>3 DEF OneClient
  <2>5. 0 \notin Ws!Client
    BY DEF Ws!Client
  <2>6. SpeaksForIt'
    BY <1>1, <1>3, <2>1, <2>2, <2>5 DEF SessionInv, SpeaksForIt
  <2>7. QED  BY <2>4, <2>6
<1>4. QED  BY <1>1, <1>2, <1>3 DEF SessionInv

\* Dropping the client leaves none, if nobody is making one.
LEMMA DropKeeps ==
  ASSUME SessionInv,
         client' = 0, sock' = IF client # 0 THEN [sock EXCEPT ![client] = "gone"] ELSE sock,
         UNCHANGED <<connected, making, sent>>,
         overtaken' \in BOOLEAN, overtaken => overtaken',
         io' \in {"idle", "posted", "reset", "timer"},
         ~overtaken' => making["ctor"] = 0 /\ making["io"] = 0
  PROVE  SessionInv'
<1>1. SessionTypeOK'
  BY DEF SessionInv, SessionTypeOK
<1>2. ASSUME ~overtaken' PROVE OneClient' /\ SpeaksForIt' /\ sent' # "dead"
  <2>1. ~overtaken /\ making'["ctor"] = 0 /\ making'["io"] = 0 /\ Holder' = {0}
    BY <1>2 DEF Holder
  <2>2. OneClient'
    BY <2>1 DEF OneClient
  <2>3. ASSUME NEW c \in Ws!Client PROVE sock'[c] \notin Born
    <3>1. c # 0 /\ "gone" \notin Born
      BY DEF Ws!Client, Born
    <3>2. sock[c] \in Born => c = client
      BY <1>2, <2>1, <3>1 DEF SessionInv, SpeaksForIt, Holder
    <3>3. QED  BY <3>1, <3>2 DEF SessionInv, SessionTypeOK
  <2>4. SpeaksForIt'
    BY <2>1, <2>3 DEF SpeaksForIt
  <2>5. QED  BY <2>1, <2>2, <2>4 DEF SessionInv
<1>3. QED  BY <1>1, <1>2 DEF SessionInv

\* The timer's redial makes a client when there is none.
LEMMA TimerKeeps ==
  ASSUME SessionInv, Ws!TimerFires
  PROVE  SessionInv'
<1>1. PICK c \in Ws!Client :
        /\ sock[c] = "unborn" /\ \E s \in {"dialing", "stuck"} : sock' = [sock EXCEPT ![c] = s]
        /\ making' = [making EXCEPT !["io"] = c]
  BY DEF Ws!TimerFires, Ws!Dials
<1>2. /\ io = "timer" /\ io' = "idle" /\ connected' = FALSE
      /\ UNCHANGED <<client, sent, overtaken>>
  BY DEF Ws!TimerFires
<1>3. SessionTypeOK'
  BY <1>1, <1>2 DEF SessionInv, SessionTypeOK, Born
<1>4. ASSUME ~overtaken PROVE OneClient' /\ SpeaksForIt'
  <2>1. client = 0 /\ making["ctor"] = 0 /\ making["io"] = 0 /\ Holder = {0}
    BY <1>2, <1>4 DEF SessionInv, OneClient, Holder
  <2>2. making'["ctor"] = 0 /\ making'["io"] = c
    BY <1>1, <2>1 DEF SessionInv, SessionTypeOK, Ws!Maker
  <2>3. OneClient'
    BY <1>2, <2>1, <2>2 DEF OneClient
  <2>4. ASSUME NEW d \in Ws!Client, sock'[d] \in Born PROVE d = c
    BY <1>1, <1>4, <2>1, <2>4 DEF SessionInv, SessionTypeOK, SpeaksForIt, Ws!Client
  <2>5. QED  BY <1>2, <2>2, <2>3, <2>4 DEF SpeaksForIt, Holder
<1>5. QED  BY <1>2, <1>3, <1>4 DEF SessionInv

\* status_cb speaks for the one client, so connected_ is true of it.
LEMMA StatusKeeps ==
  ASSUME SessionInv, NEW c \in Ws!Client, sock[c] \in Born, NEW s \in Born,
         sock' = [sock EXCEPT ![c] = s], connected' = (s = "open"),
         io' \in {io, "posted"},
         UNCHANGED <<client, making, sent, overtaken>>
  PROVE  SessionInv'
<1>1. SessionTypeOK'
  BY DEF SessionInv, SessionTypeOK
<1>2. ASSUME ~overtaken PROVE OneClient' /\ SpeaksForIt'
  <2>1. c \in Holder /\ c # 0 /\ Holder' = Holder
    BY <1>2 DEF SessionInv, SpeaksForIt, Holder, Ws!Client
  <2>2. Holder \ {0} = {c}
    BY <1>2, <2>1 DEF SessionInv, OneClient, Holder
  <2>3. OneClient'
    BY <1>2, <2>1 DEF SessionInv, OneClient
  <2>4. SpeaksForIt'
    BY <1>2, <2>1, <2>2 DEF SessionInv, SessionTypeOK, SpeaksForIt
  <2>5. QED  BY <2>3, <2>4
<1>3. QED  BY <1>1, <1>2 DEF SessionInv

\* Every step of the session's threads keeps the invariant.
LEMMA SessionStep == SessionInv /\ (Ws!Next \/ UNCHANGED wsVars) => SessionInv'
<1> SUFFICES ASSUME SessionInv, Ws!Next \/ UNCHANGED wsVars PROVE SessionInv'  OBVIOUS
<1>1. ASSUME NEW m \in Ws!Maker, Ws!Assign(m) PROVE SessionInv'
  BY <1>1, AssignKeeps
<1>2. CASE Ws!ResetClient
  <2>1. /\ client' = 0 /\ making["io"] = 0 /\ io' = "reset"
        /\ sock' = (IF client # 0 THEN [sock EXCEPT ![client] = "gone"] ELSE sock)
        /\ overtaken' = (overtaken \/ making["ctor"] # 0)
        /\ UNCHANGED <<connected, making, sent>>
    BY <1>2 DEF Ws!ResetClient, Ws!NoClient
  <2>2. QED  BY <2>1, DropKeeps
<1>3. CASE Ws!ArmTimer
  BY <1>3 DEF Ws!ArmTimer, SessionInv, SessionTypeOK, OneClient, SpeaksForIt, Holder
<1>4. CASE Ws!TimerFires
  BY <1>4, TimerKeeps
<1>5. ASSUME NEW c \in Ws!Client, Ws!SocketStep(c) PROVE SessionInv'
  <2>1. CASE Ws!Opens(c)
    BY <2>1, StatusKeeps DEF Ws!Opens, Born
  <2>2. ASSUME NEW s \in {"closed", "lapsed"}, sock[c] \in Born, Ws!ReportsDown(c, s)
        PROVE  SessionInv'
    <3>1. /\ sock' = [sock EXCEPT ![c] = s] /\ connected' = FALSE /\ io' \in {io, "posted"}
          /\ UNCHANGED <<client, making, sent, overtaken>>
      BY <2>2 DEF Ws!ReportsDown
    <3>2. s \in Born /\ connected' = (s = "open")
      BY <3>1 DEF Born
    <3>3. QED  BY <2>2, <3>1, <3>2, StatusKeeps
  <2>3. CASE Ws!Fails(c)
    BY <2>2, <2>3 DEF Ws!Fails, Born
  <2>4. CASE Ws!Closes(c)
    BY <2>2, <2>4 DEF Ws!Closes, Born
  <2>5. QED  BY <1>5, <2>1, <2>3, <2>4 DEF Ws!SocketStep
<1>6. CASE Ws!BeginSend
  BY <1>6 DEF Ws!BeginSend, SessionInv, SessionTypeOK, OneClient, SpeaksForIt, Holder
<1>7. CASE Ws!EndSend
  <2>1. /\ sent' = (IF ~Ws!MaySend THEN "failed" ELSE IF sock[client] = "open" THEN "out"
                    ELSE "dead")
        /\ UNCHANGED <<connected, client, sock, making, io, overtaken>>
    BY <1>7 DEF Ws!EndSend
  <2>2. ~overtaken /\ Ws!MaySend => sock[client] = "open"
    BY DEF Ws!MaySend, Ws!NoClient, SessionInv, SpeaksForIt, Holder
  <2>3. QED
    BY <2>1, <2>2 DEF SessionInv, SessionTypeOK, OneClient, SpeaksForIt, Holder
<1>8. CASE Ws!Stop
  BY <1>8 DEF Ws!Stop, SessionInv, SessionTypeOK, OneClient, SpeaksForIt, Holder
<1>9. CASE UNCHANGED wsVars
  BY <1>9 DEF wsVars, SessionInv, SessionTypeOK, OneClient, SpeaksForIt, Holder
<1>10. CASE Ws!Joined
  <2>1. /\ making["io"] = 0 /\ client' = 0
        /\ sock' = (IF client # 0 THEN [sock EXCEPT ![client] = "gone"] ELSE sock)
        /\ UNCHANGED <<connected, making, io, sent, overtaken>>
    BY <1>10 DEF Ws!Joined, Ws!NoClient
  <2>2. CASE ~overtaken /\ making["ctor"] # 0
    <3>1. client' = client /\ sock' = sock
      BY <2>1, <2>2 DEF SessionInv, OneClient
    <3>2. QED
      BY <2>1, <3>1 DEF SessionInv, SessionTypeOK, OneClient, SpeaksForIt, Holder
  <2>3. CASE overtaken \/ making["ctor"] = 0
    <3>1. overtaken' \in BOOLEAN /\ io' \in {"idle", "posted", "reset", "timer"}
      BY <2>1 DEF SessionInv, SessionTypeOK
    <3>2. QED  BY <2>1, <2>3, <3>1, DropKeeps
  <2>4. QED  BY <2>2, <2>3
<1>11. QED
  BY <1>1, <1>2, <1>3, <1>4, <1>5, <1>6, <1>7, <1>8, <1>9, <1>10
  DEF Ws!Next, Ws!IoStep, Ws!Maker

\* WsOrderGateway::send_request hands a request to a connection that is open, or
\* reports it as not sent, however status callbacks, redials and the destructor come
\* between its first look at connected_ and the one under the lock, for any number
\* of failures.
THEOREM RequestsMeetOpenSessions == GatewaysSpec => []NoRequestIntoDeadSession
<1>1. GatewaysInit => SessionInv
  BY SessionInit DEF GatewaysInit
<1>2. SessionInv /\ [GatewaysNext]_allVars => SessionInv'
  <2>1. [GatewaysNext]_allVars => Ws!Next \/ UNCHANGED wsVars
    BY DEF GatewaysNext, KisMoves, WsMoves, allVars
  <2>2. QED  BY <2>1, SessionStep
<1>3. SessionInv => NoRequestIntoDeadSession
  BY DEF SessionInv, NoRequestIntoDeadSession
<1>4. QED  BY <1>1, <1>2, <1>3, PTL DEF GatewaysSpec
-----------------------------------------------------------------------------
(* The KIS gateway.                                                        *)

Answers == [request : Nat, success : BOOLEAN]

KisTypeOK ==
  /\ asked \in [Poster -> Nat] /\ issued \in [Poster -> Nat]
  /\ carried \in [Poster -> Seq(Nat)] /\ called \in BOOLEAN
  /\ done \in [Poster -> SUBSET Nat]
  /\ answers \in [Poster -> Seq(Answers)]

\* The tasks of a poster carry its requests in the order they were made; the one
\* being posted is newer than all of them.
CarriedInOrder(p) ==
  /\ Len(carried[p]) = accepted[p]
  /\ \A i \in 1..accepted[p] : carried[p][i] \in 1..asked[p]
  /\ \A i, j \in 1..accepted[p] : i < j => carried[p][i] < carried[p][j]
  /\ posting[p] # "idle" => \A i \in 1..accepted[p] : carried[p][i] < asked[p]

\* What waits, queued or being posted, has been neither answered nor sent out,
\* except that the task at its call has been sent out last.
WaitingUnanswered(p) ==
  /\ Contract!Answered(p) \subseteq 1..asked[p]
  /\ issued[p] <= asked[p]
  /\ posting[p] # "idle" => asked[p] \notin Contract!Answered(p) /\ issued[p] < asked[p]
  /\ \A i \in 1..accepted[p] : i > ran[p] => carried[p][i] \notin Contract!Answered(p)
  /\ \A i \in 1..accepted[p] :
       i > ran[p] => \/ issued[p] < carried[p][i]
                     \/ called /\ task = <<p, i>> /\ issued[p] = carried[p][i]

KisInv ==
  /\ KisTypeOK
  /\ called => worker = "busy"
  /\ called => issued[task[1]] = carried[task[1]][task[2]]
  /\ \A p \in Poster : CarriedInOrder(p) /\ WaitingUnanswered(p)

GatewayInv == RunnerInv /\ KisInv

\* Every step of the gateway is one of its runner or leaves the runner alone.
LEMMA RunnerMoves == KisNext \/ UNCHANGED gatewayVars => [Next]_vars
  BY DEF KisNext, KisWorker, KisPoster, TakeRequest, Call, Deliver, Destroy, AskOrder, Queued,
         NotQueued, gatewayVars, Next, WorkerStep, PosterStep

\* deliver() answers one request of one poster.
LEMMA AnswerEffect ==
  ASSUME KisTypeOK, NEW p \in Poster, NEW n \in Nat, NEW success \in BOOLEAN,
         Answer(p, n, success)
  PROVE  /\ answers' \in [Poster -> Seq(Answers)]
         /\ Contract!Answered(p)' = Contract!Answered(p) \cup {n}
         /\ \A q \in Poster : q # p => Contract!Answered(q)' = Contract!Answered(q)
<1> DEFINE a == [request |-> n, success |-> success]
           old == answers[p]
<1>1. a \in Answers /\ a.request = n /\ answers \in [Poster -> Seq(Answers)] /\ old \in Seq(Answers)
  BY DEF Answers, KisTypeOK
<1>2. answers' = [answers EXCEPT ![p] = Append(old, a)]
  BY DEF Answer
<1> HIDE DEF a
<1>3. /\ Append(old, a) \in Seq(Answers) /\ Len(old) \in Nat
      /\ DOMAIN Append(old, a) = 1..(Len(old) + 1) /\ DOMAIN old = 1..Len(old)
      /\ Append(old, a)[Len(old) + 1] = a
      /\ \A i \in 1..Len(old) : Append(old, a)[i] = old[i]
  BY <1>1
<1>4. answers' \in [Poster -> Seq(Answers)] /\ answers'[p] = Append(old, a)
      /\ \A q \in Poster : q # p => answers'[q] = answers[q]
  BY <1>1, <1>2, <1>3
<1>5. {Append(old, a)[i].request : i \in DOMAIN Append(old, a)}
        = {old[i].request : i \in DOMAIN old} \cup {n}
  <2>1. PICK new : new = Append(old, a)
    OBVIOUS
  <2>2. /\ \A i \in DOMAIN new : new[i].request = n \/ (i \in DOMAIN old /\ new[i] = old[i])
        /\ \A i \in DOMAIN old : i \in DOMAIN new /\ new[i] = old[i]
        /\ Len(old) + 1 \in DOMAIN new /\ new[Len(old) + 1].request = n
    BY <1>1, <1>3, <2>1
  <2>3. {new[i].request : i \in DOMAIN new} = {old[i].request : i \in DOMAIN old} \cup {n}
    BY <2>2
  <2> QED
    BY <2>1, <2>3
<1>6. QED  BY <1>4, <1>5 DEF Contract!Answered

\* The task the worker holds is the oldest of its poster that has not been run.
LEMMA HeldTask ==
  ASSUME RunnerInv, worker = "busy"
  PROVE  \E p \in Poster : \E k \in 1..accepted[p] : task = <<p, k>> /\ k = ran[p] + 1
<1>1. task \in Poster \X Nat /\ task[2] = ran[task[1]] + 1
  BY DEF RunnerInv, InOrder
<1>2. Held(task[1]) = 1
  BY DEF Held
<1>3. ran[task[1]] \in Nat /\ ran[task[1]] + 1 <= accepted[task[1]] /\ accepted[task[1]] \in Nat
  BY <1>1, <1>2, PosterFacts DEF Base
<1>4. QED  BY <1>1, <1>3

\* Nothing has been asked of a new gateway.
LEMMA KisInit == GatewayInit => GatewayInv
<1> SUFFICES ASSUME GatewayInit PROVE KisInv
  BY RunnerInit DEF GatewayInit, GatewayInv
<1>1. KisTypeOK
  <2>1. <<>> \in Seq(Nat) /\ <<>> \in Seq(Answers) /\ {} \in SUBSET Nat
    OBVIOUS
  <2>2. asked \in [Poster -> Nat] /\ issued \in [Poster -> Nat] /\ called \in BOOLEAN
    BY DEF GatewayInit
  <2>3. carried \in [Poster -> Seq(Nat)] /\ answers \in [Poster -> Seq(Answers)]
    BY <2>1 DEF GatewayInit
  <2>4. done \in [Poster -> SUBSET Nat]
    BY DEF GatewayInit
  <2>5. QED  BY <2>2, <2>3, <2>4 DEF KisTypeOK
<1>2. ASSUME NEW p \in Poster PROVE CarriedInOrder(p) /\ WaitingUnanswered(p)
  <2>1. /\ asked[p] = 0 /\ carried[p] = <<>> /\ issued[p] = 0 /\ answers[p] = <<>>
        /\ accepted[p] = 0 /\ posting[p] = "idle" /\ ran[p] = 0
    BY DEF GatewayInit, Init
  <2>2. Contract!Answered(p) = {}
    BY <2>1 DEF Contract!Answered
  <2>3. QED  BY <2>1, <2>2 DEF CarriedInOrder, WaitingUnanswered
<1>3. QED  BY <1>1, <1>2 DEF KisInv, GatewayInit
-----------------------------------------------------------------------------
(* Each step keeps the invariant and is a step of the contract.            *)

\* A poster none of whose state has changed.
LEMMA OtherPoster ==
  ASSUME KisInv, NEW q \in Poster,
         asked'[q] = asked[q], carried'[q] = carried[q], issued'[q] = issued[q],
         accepted'[q] = accepted[q], posting'[q] = posting[q], ran'[q] = ran[q],
         Contract!Answered(q)' = Contract!Answered(q),
         (called /\ task[1] = q) => called' /\ task' = task
  PROVE  CarriedInOrder(q)' /\ WaitingUnanswered(q)'
<1>1. CarriedInOrder(q) /\ WaitingUnanswered(q)
  BY DEF KisInv
<1>2. CarriedInOrder(q)'
  BY <1>1 DEF CarriedInOrder
<1>3. WaitingUnanswered(q)'
  BY <1>1 DEF WaitingUnanswered
<1>4. QED  BY <1>2, <1>3

\* A request is numbered and counted.
LEMMA AskKeeps ==
  ASSUME GatewayInv, NEW p \in Poster, AskOrder(p)
  PROVE  KisInv' /\ Contract!Ask(p)
<1> KisInv /\ RunnerInv /\ KisTypeOK
  BY DEF GatewayInv, KisInv
<1>1. /\ asked' = [asked EXCEPT ![p] = @ + 1]
      /\ UNCHANGED <<carried, called, issued, done, answers, worker, task, accepted, ran>>
      /\ posting[p] = "idle" /\ \A q \in Poster : q # p => posting'[q] = posting[q]
  BY DEF AskOrder, PostCount, RunnerInv, TypeOK
<1>2. KisTypeOK'
  BY <1>1 DEF KisTypeOK
<1>3. \A q \in Poster : Contract!Answered(q)' = Contract!Answered(q)
  BY <1>1 DEF Contract!Answered
<1>4. CarriedInOrder(p)' /\ WaitingUnanswered(p)'
  <2>1. /\ CarriedInOrder(p) /\ WaitingUnanswered(p)
        /\ asked[p] \in Nat /\ issued[p] \in Nat /\ accepted[p] \in Nat /\ asked'[p] = asked[p] + 1
        /\ carried[p] \in Seq(Nat)
    BY <1>1, PosterFacts DEF KisInv, KisTypeOK
  <2>2. CarriedInOrder(p)'
    <3>1. \A i \in 1..accepted[p] : carried[p][i] \in 1..asked'[p] /\ carried[p][i] < asked'[p]
      BY <2>1 DEF CarriedInOrder
    <3>2. QED  BY <1>1, <2>1, <3>1 DEF CarriedInOrder
  <2>3. WaitingUnanswered(p)'
    BY <1>1, <1>3, <2>1 DEF WaitingUnanswered
  <2>4. QED  BY <2>2, <2>3
<1>5. ASSUME NEW q \in Poster, q # p PROVE CarriedInOrder(q)' /\ WaitingUnanswered(q)'
  <2>1. asked'[q] = asked[q]
    BY <1>1, <1>5 DEF KisTypeOK
  <2>2. QED  BY <1>1, <1>3, <1>5, <2>1, OtherPoster
<1>6. KisInv'
  BY <1>1, <1>2, <1>4, <1>5 DEF KisInv
<1>7. Contract!Ask(p)
  BY <1>1 DEF Contract!Ask
<1>8. QED  BY <1>6, <1>7

\* The request goes into the queue, where the contract sees nothing.
LEMMA QueuedKeeps ==
  ASSUME GatewayInv, NEW p \in Poster, Queued(p)
  PROVE  KisInv' /\ UNCHANGED <<asked, issued, done, answers>>
<1> KisInv /\ RunnerInv /\ KisTypeOK
  BY DEF GatewayInv, KisInv
<1>1. /\ carried' = [carried EXCEPT ![p] = Append(carried[p], asked[p])]
      /\ UNCHANGED <<asked, called, issued, done, answers, worker, task, ran>>
      /\ posting[p] # "idle" /\ posting'[p] = "idle" /\ accepted'[p] = accepted[p] + 1
      /\ \A q \in Poster : q # p => posting'[q] = posting[q] /\ accepted'[q] = accepted[q]
  BY DEF Queued, PostEnqueue, RunnerInv, TypeOK
<1>2. KisTypeOK'
  BY <1>1 DEF KisTypeOK
<1>3. \A q \in Poster : Contract!Answered(q)' = Contract!Answered(q)
  BY <1>1 DEF Contract!Answered
<1>4. /\ CarriedInOrder(p) /\ WaitingUnanswered(p)
      /\ asked[p] \in Nat /\ issued[p] \in Nat /\ accepted[p] \in Nat /\ ran[p] \in Nat
      /\ carried[p] \in Seq(Nat) /\ Len(carried[p]) = accepted[p]
  BY PosterFacts DEF KisInv, KisTypeOK, CarriedInOrder
<1>5. /\ Len(carried'[p]) = accepted[p] + 1 /\ carried'[p][accepted[p] + 1] = asked[p]
      /\ \A i \in 1..accepted[p] : carried'[p][i] = carried[p][i] /\ carried[p][i] \in Nat
  BY <1>1, <1>4 DEF KisTypeOK
<1>6. \A i \in 1..accepted'[p] : i \in 1..accepted[p] \/ i = accepted[p] + 1
  BY <1>1, <1>4
<1>7. CarriedInOrder(p)'
  <2>1. issued[p] < asked[p] /\ \A i \in 1..accepted[p] : carried[p][i] < asked[p]
    BY <1>1, <1>4 DEF CarriedInOrder, WaitingUnanswered
  <2>2. \A i \in 1..accepted'[p] : carried'[p][i] \in 1..asked[p]
    BY <1>4, <1>5, <1>6, <2>1 DEF CarriedInOrder
  <2>3. ASSUME NEW i \in 1..accepted'[p], NEW j \in 1..accepted'[p], i < j
        PROVE  carried'[p][i] < carried'[p][j]
    <3>1. i \in 1..accepted[p]
      BY <1>1, <1>4, <2>3
    <3>2. CASE j \in 1..accepted[p]
      BY <1>4, <1>5, <2>3, <3>1, <3>2 DEF CarriedInOrder
    <3>3. CASE j = accepted[p] + 1
      BY <1>5, <2>1, <3>1, <3>3
    <3>4. QED  BY <1>6, <3>2, <3>3
  <2>4. QED  BY <1>1, <1>5, <2>2, <2>3 DEF CarriedInOrder
<1>8. WaitingUnanswered(p)'
  BY <1>1, <1>3, <1>4, <1>5, <1>6 DEF WaitingUnanswered
<1>9. ASSUME NEW q \in Poster, q # p PROVE CarriedInOrder(q)' /\ WaitingUnanswered(q)'
  <2>1. carried'[q] = carried[q]
    BY <1>1, <1>9 DEF KisTypeOK
  <2>2. QED  BY <1>1, <1>3, <1>9, <2>1, OtherPoster
<1>10. called' => issued'[task'[1]] = carried'[task'[1]][task'[2]]
  <2>1. SUFFICES ASSUME called PROVE issued[task[1]] = carried'[task[1]][task[2]]
    BY <1>1
  <2>2. /\ task[1] \in Poster /\ task[2] \in 1..accepted[task[1]]
        /\ issued[task[1]] = carried[task[1]][task[2]]
    <3>1. worker = "busy" /\ issued[task[1]] = carried[task[1]][task[2]]
      BY <2>1 DEF KisInv
    <3>2. QED  BY <3>1, HeldTask
  <2>3. carried'[task[1]][task[2]] = carried[task[1]][task[2]]
    BY <1>1, <1>5, <2>2 DEF KisTypeOK
  <2>4. QED  BY <2>2, <2>3
<1>11. QED  BY <1>1, <1>2, <1>7, <1>8, <1>9, <1>10 DEF KisInv

\* A refused request is answered as failed, and it had not been answered.
LEMMA NotQueuedKeeps ==
  ASSUME GatewayInv, NEW p \in Poster, NotQueued(p)
  PROVE  KisInv' /\ Contract!NotAccepted(p)
<1> KisInv /\ RunnerInv /\ KisTypeOK
  BY DEF GatewayInv, KisInv
<1>1. /\ Answer(p, asked[p], FALSE)
      /\ UNCHANGED <<asked, carried, called, issued, done, worker, task, accepted, ran>>
      /\ posting[p] # "idle" /\ posting'[p] = "idle"
      /\ \A q \in Poster : q # p => posting'[q] = posting[q]
  BY DEF NotQueued, PostRefuse, RunnerInv, TypeOK
<1>2. /\ CarriedInOrder(p) /\ WaitingUnanswered(p)
      /\ asked[p] \in Nat /\ issued[p] \in Nat /\ accepted[p] \in Nat /\ ran[p] \in Nat
      /\ carried[p] \in Seq(Nat)
  BY PosterFacts DEF KisInv, KisTypeOK
<1>3. /\ answers' \in [Poster -> Seq(Answers)]
      /\ Contract!Answered(p)' = Contract!Answered(p) \cup {asked[p]}
      /\ \A q \in Poster : q # p => Contract!Answered(q)' = Contract!Answered(q)
  BY <1>1, <1>2, AnswerEffect
<1>4. KisTypeOK'
  BY <1>1, <1>3 DEF KisTypeOK
<1>5. CarriedInOrder(p)'
  BY <1>1, <1>2 DEF CarriedInOrder
<1>6. WaitingUnanswered(p)'
  <2>1. /\ asked[p] \in 1..asked[p] /\ \A i \in 1..accepted[p] : carried[p][i] # asked[p]
    BY <1>1, <1>2 DEF CarriedInOrder, WaitingUnanswered
  <2>2. QED  BY <1>1, <1>2, <1>3, <2>1 DEF WaitingUnanswered
<1>7. ASSUME NEW q \in Poster, q # p PROVE CarriedInOrder(q)' /\ WaitingUnanswered(q)'
  BY <1>1, <1>3, <1>7, OtherPoster
<1>8. KisInv'
  BY <1>1, <1>4, <1>5, <1>6, <1>7 DEF KisInv
<1>9. Contract!NotAccepted(p)
  BY <1>1, <1>2 DEF Contract!NotAccepted, WaitingUnanswered, Answer
<1>10. QED  BY <1>8, <1>9

\* The worker's POST: the oldest request that has not gone out.
LEMMA CallKeeps ==
  ASSUME GatewayInv, Call
  PROVE  KisInv' /\ \E p \in Poster : Contract!GoesOut(p)
<1> KisInv /\ RunnerInv /\ KisTypeOK
  BY DEF GatewayInv, KisInv
<1>1. PICK p \in Poster, k \in Nat : task = <<p, k>> /\ k \in 1..accepted[p] /\ k = ran[p] + 1
  <2>1. worker = "busy"
    BY DEF Call
  <2>2. PICK p \in Poster : \E k \in 1..accepted[p] : task = <<p, k>> /\ k = ran[p] + 1
    BY <2>1, HeldTask
  <2>3. accepted[p] \in Nat
    BY PosterFacts
  <2>4. QED  BY <2>2, <2>3
<1> DEFINE n == carried[p][k]
<1>2. /\ worker = "busy" /\ ~called /\ called' = TRUE
      /\ issued' = [issued EXCEPT ![p] = n]
      /\ done' \in {done, [done EXCEPT ![p] = done[p] \cup {n}]}
      /\ UNCHANGED <<vars, asked, carried, answers>>
  BY <1>1 DEF Call
<1>3. /\ CarriedInOrder(p) /\ WaitingUnanswered(p)
      /\ asked[p] \in Nat /\ issued[p] \in Nat /\ accepted[p] \in Nat /\ ran[p] \in Nat
      /\ carried[p] \in Seq(Nat)
  BY PosterFacts DEF KisInv, KisTypeOK
<1>4. /\ n \in 1..asked[p] /\ issued[p] < n /\ n \notin Contract!Answered(p)
      /\ posting[p] # "idle" => n < asked[p]
      /\ \A i \in 1..accepted[p] : i > k => n < carried[p][i]
  BY <1>1, <1>2, <1>3 DEF CarriedInOrder, WaitingUnanswered
<1> HIDE DEF n
<1>5. n \in Nat /\ issued'[p] = n /\ KisTypeOK'
  <2>1. n \in Nat
    BY <1>3, <1>4
  <2>2. issued' \in [Poster -> Nat] /\ issued'[p] = n
    BY <1>2, <2>1 DEF KisTypeOK
  <2>3. done' \in [Poster -> SUBSET Nat]
    BY <1>2, <2>1 DEF KisTypeOK
  <2>4. QED  BY <1>2, <2>1, <2>2, <2>3 DEF KisTypeOK
<1>6. /\ UNCHANGED <<worker, task, posting, accepted, ran>>
      /\ \A q \in Poster : Contract!Answered(q)' = Contract!Answered(q)
  BY <1>2 DEF vars, Contract!Answered
<1>7. CarriedInOrder(p)'
  BY <1>2, <1>3, <1>6 DEF CarriedInOrder
<1>8. WaitingUnanswered(p)'
  <2>1. \A i \in 1..accepted[p] : i > ran[p] => i = k \/ i > k
    BY <1>1, <1>3
  <2>2. \A i \in 1..accepted[p] :
          i > ran[p] => \/ n < carried[p][i]
                        \/ task = <<p, i>> /\ n = carried[p][i]
    BY <1>1, <1>4, <2>1 DEF n
  <2>3. n <= asked[p]
    BY <1>3, <1>4
  <2>4. QED  BY <1>2, <1>3, <1>4, <1>5, <1>6, <2>2, <2>3 DEF WaitingUnanswered
<1>9. ASSUME NEW q \in Poster, q # p PROVE CarriedInOrder(q)' /\ WaitingUnanswered(q)'
  <2>1. issued'[q] = issued[q]
    BY <1>2, <1>9 DEF KisTypeOK
  <2>2. QED  BY <1>2, <1>6, <1>9, <2>1, OtherPoster
<1>10. KisInv'
  <2>1. issued'[task'[1]] = carried'[task'[1]][task'[2]]
    BY <1>1, <1>2, <1>5, <1>6 DEF n
  <2>2. worker' = "busy"
    BY <1>2, <1>6
  <2>3. QED  BY <1>5, <1>7, <1>8, <1>9, <2>1, <2>2 DEF KisInv
<1>11. Contract!GoesOut(p)
  <2>1. n \in (issued[p] + 1)..asked[p]
    BY <1>3, <1>4
  <2>2. QED  BY <1>2, <1>4, <2>1 DEF Contract!GoesOut
<1>12. QED  BY <1>10, <1>11

\* What came back is delivered: the request sent out last, answered for the first
\* time.
LEMMA DeliverKeeps ==
  ASSUME GatewayInv, Deliver
  PROVE  KisInv' /\ \E p \in Poster : Contract!IsAnswered(p)
<1> KisInv /\ RunnerInv /\ KisTypeOK
  BY DEF GatewayInv, KisInv
<1>1. PICK p \in Poster, k \in Nat : task = <<p, k>> /\ k \in 1..accepted[p] /\ k = ran[p] + 1
  <2>1. worker = "busy"
    BY DEF Deliver, WorkerRun
  <2>2. PICK p \in Poster : \E k \in 1..accepted[p] : task = <<p, k>> /\ k = ran[p] + 1
    BY <2>1, HeldTask
  <2>3. accepted[p] \in Nat
    BY PosterFacts
  <2>4. QED  BY <2>2, <2>3
<1> DEFINE n == carried[p][k]
<1>2. /\ called /\ called' = FALSE /\ ran' = [ran EXCEPT ![p] = k]
      /\ UNCHANGED <<asked, carried, issued, done, posting, accepted>>
  BY <1>1 DEF Deliver, WorkerRun
<1>3. PICK success \in BOOLEAN : (success => n \in done[p]) /\ Answer(p, n, success)
  BY <1>1 DEF Deliver
<1>4. /\ CarriedInOrder(p) /\ WaitingUnanswered(p) /\ issued[p] = n
      /\ asked[p] \in Nat /\ issued[p] \in Nat /\ accepted[p] \in Nat /\ ran[p] \in Nat
      /\ carried[p] \in Seq(Nat) /\ ran'[p] = k
  BY <1>1, <1>2, PosterFacts DEF KisInv, KisTypeOK, RunnerInv, TypeOK
<1>5. /\ n \in 1..asked[p] /\ n \notin Contract!Answered(p)
      /\ posting[p] # "idle" => n < asked[p]
      /\ \A i \in 1..accepted[p] : i > k => n < carried[p][i]
  BY <1>1, <1>4 DEF CarriedInOrder, WaitingUnanswered
<1> HIDE DEF n
<1>6. /\ answers' \in [Poster -> Seq(Answers)]
      /\ Contract!Answered(p)' = Contract!Answered(p) \cup {n}
      /\ \A q \in Poster : q # p => Contract!Answered(q)' = Contract!Answered(q)
  <2>1. n \in Nat
    BY <1>4, <1>5
  <2>2. QED  BY <1>3, <2>1, AnswerEffect
<1>7. KisTypeOK'
  BY <1>2, <1>6 DEF KisTypeOK
<1>8. CarriedInOrder(p)'
  BY <1>2, <1>4 DEF CarriedInOrder
<1>9. WaitingUnanswered(p)'
  <2>1. \A i \in 1..accepted[p] : i > k => i > ran[p] /\ carried[p][i] # n /\ issued[p] < carried[p][i]
    BY <1>1, <1>4, <1>5
  <2>2. n # asked[p] \/ posting[p] = "idle"
    BY <1>4, <1>5
  <2>3. QED  BY <1>2, <1>4, <1>5, <1>6, <2>1, <2>2 DEF WaitingUnanswered
<1>10. ASSUME NEW q \in Poster, q # p PROVE CarriedInOrder(q)' /\ WaitingUnanswered(q)'
  <2>1. ran'[q] = ran[q]
    BY <1>2, <1>10 DEF RunnerInv, TypeOK
  <2>2. QED  BY <1>1, <1>2, <1>6, <1>10, <2>1, OtherPoster
<1>11. KisInv'
  BY <1>2, <1>7, <1>8, <1>9, <1>10 DEF KisInv
<1>12. Contract!IsAnswered(p)
  <2>1. n \in (1..issued[p]) \ Contract!Answered(p)
    BY <1>4, <1>5
  <2>2. answers' = [answers EXCEPT ![p] = Append(@, [request |-> n, success |-> success])]
    BY <1>3 DEF Answer
  <2>3. QED  BY <1>2, <1>3, <2>1, <2>2 DEF Contract!IsAnswered
<1>13. QED  BY <1>11, <1>12

\* The runner's own steps, which carry nothing.
LEMMA RunnerOnlyKeeps ==
  ASSUME GatewayInv, UNCHANGED kisVars,
         \/ \E p \in Poster : WorkerTake(p)
         \/ WorkerUncount \/ WorkerExit \/ OwnerStep \/ Gone \/ UNCHANGED vars
  PROVE  KisInv' /\ UNCHANGED <<asked, issued, done, answers>>
<1> KisInv /\ RunnerInv /\ KisTypeOK
  BY DEF GatewayInv, KisInv
<1>1. UNCHANGED <<asked, carried, called, issued, done, answers>>
  BY DEF kisVars
<1>2. UNCHANGED <<posting, accepted, ran>> /\ (worker = "busy" => UNCHANGED <<worker, task>>)
  BY DEF WorkerTake, WorkerUncount, WorkerExit, OwnerStep, BeginDrain, DrainPolls,
         DrainReturns, Join, Gone, vars
<1>3. KisTypeOK'
  BY <1>1 DEF KisTypeOK
<1>4. called => UNCHANGED <<worker, task>> /\ worker = "busy"
  BY <1>2 DEF KisInv
<1>5. ASSUME NEW q \in Poster PROVE CarriedInOrder(q)' /\ WaitingUnanswered(q)'
  <2>1. Contract!Answered(q)' = Contract!Answered(q)
    BY <1>1 DEF Contract!Answered
  <2>2. QED  BY <1>1, <1>2, <1>4, <2>1, OtherPoster
<1>6. QED  BY <1>1, <1>3, <1>4, <1>5 DEF KisInv

\* Every step keeps the invariant and is one of the contract's, or none.
LEMMA GatewayStep ==
  ASSUME GatewayInv, KisNext \/ UNCHANGED gatewayVars
  PROVE  GatewayInv' /\ [Contract!Next]_<<asked, issued, done, answers>>
<1>1. RunnerInv'
  BY RunnerMoves, RunnerStep DEF GatewayInv
<1>2. ASSUME NEW p \in Poster, AskOrder(p)
      PROVE  KisInv' /\ [Contract!Next]_<<asked, issued, done, answers>>
  BY <1>2, AskKeeps DEF Contract!Next
<1>3. ASSUME NEW p \in Poster, Queued(p)
      PROVE  KisInv' /\ [Contract!Next]_<<asked, issued, done, answers>>
  BY <1>3, QueuedKeeps
<1>4. ASSUME NEW p \in Poster, NotQueued(p)
      PROVE  KisInv' /\ [Contract!Next]_<<asked, issued, done, answers>>
  BY <1>4, NotQueuedKeeps DEF Contract!Next
<1>5. ASSUME Call
      PROVE  KisInv' /\ [Contract!Next]_<<asked, issued, done, answers>>
  BY <1>5, CallKeeps DEF Contract!Next
<1>6. ASSUME Deliver
      PROVE  KisInv' /\ [Contract!Next]_<<asked, issued, done, answers>>
  BY <1>6, DeliverKeeps DEF Contract!Next
<1>7. ASSUME UNCHANGED kisVars,
             \/ \E p \in Poster : WorkerTake(p)
             \/ WorkerUncount \/ WorkerExit \/ OwnerStep \/ Gone \/ UNCHANGED vars
      PROVE  KisInv' /\ [Contract!Next]_<<asked, issued, done, answers>>
  BY <1>7, RunnerOnlyKeeps
<1>8. KisInv' /\ [Contract!Next]_<<asked, issued, done, answers>>
  BY <1>2, <1>3, <1>4, <1>5, <1>6, <1>7
  DEF KisNext, KisWorker, KisPoster, TakeRequest, Destroy, gatewayVars
<1>9. QED  BY <1>1, <1>8 DEF GatewayInv
-----------------------------------------------------------------------------
\* The KIS gateway keeps the contract of IOrderGateway, for any number of posters,
\* any backlog and any number of requests: no request is answered twice, a refused
\* one is answered as failed and never goes out, and requests go to the venue in the
\* order they were made.
THEOREM GatewayKeepsContract == GatewaysSpec => KeepsContract
<1>1. GatewaysInit => GatewayInv /\ Contract!Init
  <2>1. GatewaysInit => GatewayInit
    BY DEF GatewaysInit
  <2>2. GatewayInit => Contract!Init
    BY DEF GatewayInit, Contract!Init
  <2>3. QED  BY <2>1, <2>2, KisInit
<1>2. GatewayInv /\ [GatewaysNext]_allVars
        => GatewayInv' /\ [Contract!Next]_<<asked, issued, done, answers>>
  <2>1. [GatewaysNext]_allVars => KisNext \/ UNCHANGED gatewayVars
    BY DEF GatewaysNext, KisMoves, WsMoves, allVars
  <2>2. QED  BY <2>1, GatewayStep
<1>3. QED
  BY <1>1, <1>2, PTL DEF GatewaysSpec, KeepsContract, Contract!Spec, Contract!contractVars

\* What is proved of SerialTaskRunner by itself holds of it inside the gateway.
THEOREM GatewayRunsTheRunner == GatewaysSpec => Spec
<1>1. GatewaysInit => Init
  BY DEF GatewaysInit, GatewayInit
<1>2. [GatewaysNext]_allVars => [Next]_vars
  <2>1. [GatewaysNext]_allVars => KisNext \/ UNCHANGED gatewayVars
    BY DEF GatewaysNext, KisMoves, WsMoves, allVars
  <2>2. QED  BY <2>1, RunnerMoves
<1>3. QED  BY <1>1, <1>2, PTL DEF GatewaysSpec, Spec
=============================================================================
