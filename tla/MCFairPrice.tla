---------------------------- MODULE MCFairPrice ----------------------------
(* The books of the fair price runs: balanced, leaning to the ask         *)
(* further than the cap, empty of size, and one-sided.                     *)
EXTENDS FairPrice

Level(b, a, bq, aq) == [bid |-> b, ask |-> a, bq |-> bq, aq |-> aq]

MCBooks == {Level(9, 11, 1, 1), Level(9, 11, 3, 1), Level(8, 10, 0, 0), Level(9, 0, 1, 0)}
=============================================================================
