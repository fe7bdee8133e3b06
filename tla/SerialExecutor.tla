--------------------------- MODULE SerialExecutor ---------------------------
(***************************************************************************)
(* What SerialTaskRunner promises its owner (utils/task_runner.hpp): every *)
(* task it accepts is run once, in the order its poster posted it, and     *)
(* when the owner goes away nothing is left to run.                        *)
(* A poster's tasks are numbered 1, 2, 3... as they are accepted.          *)
(***************************************************************************)
EXTENDS Naturals

CONSTANT Poster

VARIABLES
  accepted,   \* per poster: how many tasks were accepted
  ran,        \* per poster: the number of the last task that was run
  closed      \* the owner is gone

Init ==
  /\ accepted = [p \in Poster |-> 0]
  /\ ran = [p \in Poster |-> 0]
  /\ closed = FALSE

Accept(p) ==
  /\ ~closed
  /\ accepted' = [accepted EXCEPT ![p] = @ + 1]
  /\ UNCHANGED <<ran, closed>>

Run(p) ==
  /\ ~closed /\ ran[p] < accepted[p]
  /\ ran' = [ran EXCEPT ![p] = @ + 1]
  /\ UNCHANGED <<accepted, closed>>

Close ==
  /\ ~closed /\ ran = accepted
  /\ closed' = TRUE
  /\ UNCHANGED <<accepted, ran>>

Next == Close \/ \E p \in Poster : Accept(p) \/ Run(p)

Spec == Init /\ [][Next]_<<accepted, ran, closed>>
=============================================================================
