----------------------------- MODULE MCQuoting -----------------------------
(* The books of the quoting run, with spreads of one and of three ticks,   *)
(* and the strategies: one order a side, a tick-based ladder, a bp-based   *)
(* ladder with its quotes held behind the touch, and one order a side with *)
(* dollar limits on a product that cannot be sold short.                   *)
EXTENDS Quoting

MCTouches == {[bid |-> 50, ask |-> 52], [bid |-> 50, ask |-> 56], [bid |-> 54, ask |-> 56]}

MCFairOffsets == {-1, 3}

Single ==
  [spreadBp |-> 2, skewTenths |-> 20, spreadCapBp |-> 5, bboCapBp |-> NoCap,
   inDollar |-> FALSE, orderSize |-> 2, positionLimit |-> 3, orderBufferBp |-> 1,
   orderNum |-> 1, tickBased |-> FALSE, interval |-> 0, shortSellUnable |-> FALSE]

Ladder ==
  [Single EXCEPT !.orderSize = 1, !.orderBufferBp = 0, !.orderNum = 2,
                 !.tickBased = TRUE, !.interval = 1]

Behind ==
  [Single EXCEPT !.orderSize = 1, !.spreadCapBp = NoCap, !.bboCapBp = 1, !.orderNum = 2,
                 !.interval = 4]

Spot ==
  [Single EXCEPT !.inDollar = TRUE, !.orderSize = 100, !.positionLimit = 150,
                 !.shortSellUnable = TRUE]

MCStrategies == {Single, Ladder, Behind, Spot}
=============================================================================
