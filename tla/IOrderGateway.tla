--------------------------- MODULE IOrderGateway ----------------------------
(***************************************************************************)
(* The contract of IOrderGateway (trader/order_gateway/order_gateway.hpp): *)
(* a request that is not accepted is answered as failed, no request is     *)
(* answered twice, and requests go to the venue in the order they were     *)
(* made.  A success is the venue's; a failure leaves open what the venue   *)
(* did.  A poster's requests are numbered 1, 2, 3...                       *)
(***************************************************************************)
EXTENDS Naturals, Sequences

CONSTANT Poster

VARIABLES
  asked,    \* per poster: how many requests were made
  issued,   \* per poster: the last request sent out to the venue
  done,     \* per poster: the requests that the venue carried out
  answers   \* per poster: what response_sink_ was given, in order

contractVars == <<asked, issued, done, answers>>

Answered(p) == {answers[p][i].request : i \in DOMAIN answers[p]}

Init ==
  /\ asked = [p \in Poster |-> 0] /\ issued = [p \in Poster |-> 0]
  /\ done = [p \in Poster |-> {}] /\ answers = [p \in Poster |-> <<>>]

Ask(p) ==
  /\ asked' = [asked EXCEPT ![p] = @ + 1]
  /\ UNCHANGED <<issued, done, answers>>

\* place_order, amend_order or cancel_order returns false.
NotAccepted(p) ==
  /\ issued[p] < asked[p] /\ asked[p] \notin Answered(p)
  /\ answers' = [answers EXCEPT ![p] = Append(@, [request |-> asked[p], success |-> FALSE])]
  /\ UNCHANGED <<asked, issued, done>>

GoesOut(p) ==
  /\ \E n \in (issued[p] + 1)..asked[p] :
       /\ n \notin Answered(p)
       /\ issued' = [issued EXCEPT ![p] = n]
       /\ done' \in {done, [done EXCEPT ![p] = @ \cup {n}]}
  /\ UNCHANGED <<asked, answers>>

IsAnswered(p) ==
  /\ \E n \in (1..issued[p]) \ Answered(p), success \in BOOLEAN :
       /\ success => n \in done[p]
       /\ answers' = [answers EXCEPT ![p] = Append(@, [request |-> n, success |-> success])]
  /\ UNCHANGED <<asked, issued, done>>

Next == \E p \in Poster : Ask(p) \/ NotAccepted(p) \/ GoesOut(p) \/ IsAnswered(p)

Spec == Init /\ [][Next]_contractVars
=============================================================================
