-------------------------- MODULE FeedLink_proofs ---------------------------
(***************************************************************************)
(* Proofs about FeedLink, for any subscriptions, any number of breaks and  *)
(* any backlog: TcpClientBase's writer.  write_queue_.front() is the       *)
(* buffer of the write under way, and writing_ says whether there is one.  *)
(***************************************************************************)
EXTENDS FeedLink, FiniteSetTheorems, TLAPS

Op == {"none", "pending", "aborted"}

LinkTypeOK ==
  /\ running \in BOOLEAN /\ connected \in BOOLEAN /\ dialing \in BOOLEAN
  /\ timer \in BOOLEAN /\ writing \in BOOLEAN
  /\ read_op \in Op /\ write_op \in Op
  /\ write_queue \in Seq(Product)
  /\ posted \in Seq(Product \cup {Teardown})

\* The socket is open, being dialled or waiting for the timer, never two of them.
OnePhase == (timer => ~connected) /\ (dialing => ~connected /\ ~timer)

\* Closing the socket leaves no write pending on it.
PendingOnOpen == write_op = "pending" => connected

\* writing_ is set exactly while an async_write has yet to complete.
WritingFlag == writing <=> write_op # "none"

LinkInv ==
  LinkTypeOK /\ OnePhase /\ PendingOnOpen /\ WritingFlag /\ BufferOutlivesWrite
-----------------------------------------------------------------------------
\* What the consumer subscribes to, in any order, are requests.
LEMMA OrdersAreRequests ==
  ASSUME NEW order \in SetToSeqs(Product)
  PROVE  order \in Seq(Product)
<1>1. Cardinality(Product) \in Nat
  BY LinkAssumption, FS_CardinalityType
<1>2. order \in [1..Cardinality(Product) -> Product]
  BY DEF SetToSeqs
<1>3. QED  BY <1>1, <1>2

\* An empty queue is one.
LEMMA EmptyQueue == <<>> \in Seq(Product) /\ <<>> \in Seq(Product \cup {Teardown})
  OBVIOUS

\* close_socket aborts the write under way and leaves its buffer alone.
LEMMA CloseKeeps ==
  ASSUME LinkInv, NEW read \in Op, NEW write \in Op,
         CloseSocket(read, write), UNCHANGED <<running, dialing, posted>>,
         timer' \in BOOLEAN, dialing => ~timer',
         write \in {write_op, "none"},
         writing' = (write # "none")
  PROVE  LinkInv'
<1>1. Abort(read) \in Op /\ Abort(write) \in Op /\ Abort(write) # "pending"
      /\ (Abort(write) = "none" <=> write = "none")
  BY DEF Abort, Op
<1>2. LinkTypeOK'
  BY <1>1 DEF CloseSocket, LinkInv, LinkTypeOK
<1>3. OnePhase' /\ PendingOnOpen' /\ WritingFlag' /\ BufferOutlivesWrite'
  BY <1>1 DEF CloseSocket, LinkInv, OnePhase, PendingOnOpen, WritingFlag, BufferOutlivesWrite
<1>4. QED  BY <1>2, <1>3 DEF LinkInv

\* Taking the first request off, with the next one's write begun if there is one.
LEMMA NextRequest ==
  ASSUME LinkInv, write_op # "none", NEW op \in {"pending", "aborted"},
         op = "pending" => connected,
         write_queue' = Tail(write_queue),
         writing' = (Tail(write_queue) # <<>>),
         write_op' = IF Tail(write_queue) # <<>> THEN op ELSE "none",
         UNCHANGED <<running, connected, dialing, timer, read_op, posted>>
  PROVE  LinkInv'
<1>1. write_queue \in Seq(Product) /\ write_queue # <<>>
  BY DEF LinkInv, LinkTypeOK, BufferOutlivesWrite
<1>2. LinkTypeOK'
  BY <1>1 DEF LinkInv, LinkTypeOK, Op
<1>3. OnePhase' /\ PendingOnOpen' /\ WritingFlag' /\ BufferOutlivesWrite'
  BY DEF LinkInv, OnePhase, PendingOnOpen, WritingFlag, BufferOutlivesWrite
<1>4. QED  BY <1>2, <1>3 DEF LinkInv

\* Every step of the client, its consumer and its peer keeps the invariant.
LEMMA LinkStep == LinkInv /\ [Next]_vars => LinkInv'
<1> SUFFICES ASSUME LinkInv, [Next]_vars PROVE LinkInv'  OBVIOUS
<1> USE DEF LinkInv
<1>1. CASE DialFails
  BY <1>1 DEF DialFails, LinkTypeOK, OnePhase, PendingOnOpen, WritingFlag, BufferOutlivesWrite
<1>2. CASE DialSucceeds
  BY <1>2 DEF DialSucceeds, LinkTypeOK, OnePhase, PendingOnOpen, WritingFlag,
              BufferOutlivesWrite, Op
<1>3. CASE Redial
  <2>1. write_op = "none"
    BY <1>3 DEF Redial, LinkTypeOK, OnePhase, PendingOnOpen, Op
  <2>2. LinkTypeOK'
    BY <1>3, EmptyQueue DEF Redial, LinkTypeOK
  <2>3. OnePhase' /\ PendingOnOpen' /\ WritingFlag' /\ BufferOutlivesWrite'
    BY <1>3, <2>1 DEF Redial, OnePhase, PendingOnOpen, WritingFlag, BufferOutlivesWrite
  <2>4. QED  BY <2>2, <2>3
<1>4. CASE ReadFails
  <2>1. CASE running /\ connected
    <3>1. /\ CloseSocket("none", write_op) /\ timer' = running
          /\ UNCHANGED <<running, dialing, writing, posted>>
      BY <1>4, <2>1 DEF ReadFails, LoseLink
    <3>2. ~dialing /\ write_op \in Op /\ "none" \in Op /\ writing' = (write_op # "none")
      BY <2>1, <3>1 DEF OnePhase, LinkTypeOK, WritingFlag, Op
    <3>3. QED  BY <3>1, <3>2, <2>1, CloseKeeps
  <2>2. CASE ~(running /\ connected)
    BY <1>4, <2>2 DEF ReadFails, LoseLink, LinkTypeOK, OnePhase, PendingOnOpen, WritingFlag,
                      BufferOutlivesWrite, Op
  <2>3. QED  BY <2>1, <2>2
<1>5. CASE WriteFails
  <2>1. CASE connected
    <3>1. /\ CloseSocket(read_op, "none") /\ timer' = running /\ writing' = FALSE
          /\ UNCHANGED <<running, dialing, posted>>
      BY <1>5, <2>1 DEF WriteFails, LoseLink
    <3>2. ~dialing /\ read_op \in Op /\ "none" \in Op /\ running \in BOOLEAN
      BY <2>1 DEF OnePhase, LinkTypeOK, Op
    <3>3. QED  BY <3>1, <3>2, CloseKeeps
  <2>2. CASE ~connected
    BY <1>5, <2>2 DEF WriteFails, LoseLink, LinkTypeOK, OnePhase, PendingOnOpen, WritingFlag,
                      BufferOutlivesWrite, Op
  <2>3. QED  BY <2>1, <2>2
<1>6. CASE WriteDone
  <2>1. write_op # "none" /\ connected
    BY <1>6 DEF WriteDone, PendingOnOpen
  <2>2. QED  BY <1>6, <2>1, NextRequest DEF WriteDone
<1>7. CASE WriteDoneLate
  BY <1>7, NextRequest DEF WriteDoneLate
<1>8. CASE RunPostedRequest
  <2>1. posted \in Seq(Product \cup {Teardown}) /\ posted # <<>> /\ Head(posted) # Teardown
    BY <1>8 DEF RunPostedRequest, LinkTypeOK
  <2>2. Head(posted) \in Product /\ posted' \in Seq(Product \cup {Teardown})
    BY <1>8, <2>1 DEF RunPostedRequest
  <2>3. CASE connected
    <3>1. write_queue' \in Seq(Product) /\ write_queue' # <<>>
      BY <1>8, <2>2, <2>3 DEF RunPostedRequest, LinkTypeOK
    <3>2. QED
      BY <1>8, <2>2, <2>3, <3>1 DEF RunPostedRequest, LinkTypeOK, OnePhase, PendingOnOpen,
                                    WritingFlag, BufferOutlivesWrite, Op
  <2>4. CASE ~connected
    BY <1>8, <2>2, <2>4 DEF RunPostedRequest, LinkTypeOK, OnePhase, PendingOnOpen,
                            WritingFlag, BufferOutlivesWrite
  <2>5. QED  BY <2>3, <2>4
<1>9. CASE RunTeardown
  <2>1. posted' \in Seq(Product \cup {Teardown})
    BY <1>9 DEF RunTeardown, LinkTypeOK
  <2>2. /\ Abort(read_op) \in Op /\ Abort(write_op) \in Op /\ Abort(write_op) # "pending"
        /\ (Abort(write_op) = "none" <=> write_op = "none")
    BY DEF Abort, Op, LinkTypeOK
  <2>3. QED
    BY <1>9, <2>1, <2>2 DEF RunTeardown, CloseSocket, LinkTypeOK, OnePhase, PendingOnOpen,
                            WritingFlag, BufferOutlivesWrite
<1>10. CASE IoThreadEnds
  BY <1>10 DEF IoThreadEnds, ioVars, LinkTypeOK, OnePhase, PendingOnOpen, WritingFlag,
               BufferOutlivesWrite
<1>11. CASE TakeStatus
  <2>1. posted' \in Seq(Product \cup {Teardown})
    <3>1. CASE ~link_up /\ Head(status)
      <4>1. PICK order \in SetToSeqs(Product) : posted' = posted \o order
        BY <1>11, <3>1 DEF TakeStatus
      <4>2. order \in Seq(Product \cup {Teardown})
        BY OrdersAreRequests
      <4>3. QED  BY <4>1, <4>2 DEF LinkTypeOK
    <3>2. CASE ~(~link_up /\ Head(status))
      BY <1>11, <3>2 DEF TakeStatus, LinkTypeOK
    <3>3. QED  BY <3>1, <3>2
  <2>2. QED
    BY <1>11, <2>1 DEF TakeStatus, ioVars, LinkTypeOK, OnePhase, PendingOnOpen, WritingFlag,
                       BufferOutlivesWrite
<1>12. CASE Stop
  <2>1. posted' \in Seq(Product \cup {Teardown})
    BY <1>12 DEF Stop, LinkTypeOK
  <2>2. QED
    BY <1>12, <2>1 DEF Stop, ioVars, LinkTypeOK, OnePhase, PendingOnOpen, WritingFlag,
                       BufferOutlivesWrite
<1>13. CASE PeerStep
  BY <1>13 DEF PeerStep, PeerStarts, PeerStops, ConnectionBreaks, ioVars, LinkTypeOK, OnePhase,
               PendingOnOpen, WritingFlag, BufferOutlivesWrite
<1>14. CASE UNCHANGED vars
  BY <1>14 DEF vars, ioVars, LinkTypeOK, OnePhase, PendingOnOpen, WritingFlag,
               BufferOutlivesWrite
<1>15. QED
  BY <1>1, <1>2, <1>3, <1>4, <1>5, <1>6, <1>7, <1>8, <1>9, <1>10, <1>11, <1>12, <1>13, <1>14
  DEF Next, IoStep
-----------------------------------------------------------------------------
\* The invariant holds of every state the client can reach.
THEOREM LinkInvariant == Spec => []LinkInv
<1>1. Init => LinkInv
  <2>1. Init => LinkTypeOK
    BY EmptyQueue DEF Init, LinkTypeOK, Op
  <2>2. Init => OnePhase /\ PendingOnOpen /\ WritingFlag /\ BufferOutlivesWrite
    BY DEF Init, OnePhase, PendingOnOpen, WritingFlag, BufferOutlivesWrite
  <2>3. QED  BY <2>1, <2>2 DEF LinkInv
<1>2. QED  BY <1>1, LinkStep, PTL DEF Spec

\* "The buffer has to outlive the async operation": the string an async_write reads
\* is at the front of write_queue_ until its handler has run, however the link
\* breaks, is torn down or is dialled anew in between.
THEOREM BufferIsKept == Spec => []BufferOutlivesWrite
<1>1. LinkInv => BufferOutlivesWrite
  BY DEF LinkInv
<1>2. QED  BY <1>1, LinkInvariant, PTL

\* enqueue_write's test of writing_ is exact: it never starts a second async_write
\* next to one whose handler has yet to run, and never waits for one that is over; and
\* a write that was not aborted is on the open connection.
THEOREM NeverTwoWrites == Spec => [](WritingFlag /\ PendingOnOpen)
<1>1. LinkInv => WritingFlag /\ PendingOnOpen
  BY DEF LinkInv
<1>2. QED  BY <1>1, LinkInvariant, PTL
=============================================================================
