-------------------------- MODULE MCTradingSystem ---------------------------
(* Small instances of TradingSystem for TLC.                               *)
EXTENDS TradingSystem

\* Venue order numbers: 100 + cid; every order is ours.
MCVenueNo == [c \in 1..MaxCid |-> 100 + c]
MCOrderNo == {100 + c : c \in 1..MaxCid}
MCForeignProduct == [o \in MCOrderNo |-> CHOOSE p \in Product : TRUE]

\* Nothing goes wrong: replies and reports only overtake each other.
Faultless(orders, lots, singleQuote) ==
  [orders |-> orders, lots |-> lots, wire |-> 8, singleQuote |-> singleQuote,
   reduceOnly |-> singleQuote, lateReplies |-> FALSE, cancelMayFail |-> FALSE,
   sessionDrops |-> FALSE, feedGaps |-> FALSE, signals |-> FALSE]

\* Two orders of up to two lots at once, and a quote that is replaced twice.
MCFaultless == {Faultless(2, 2, FALSE), Faultless(3, 1, TRUE)}

\* The user stream loses reports; then everything goes wrong at once; then the
\* operator does not wait.
MCFaulty ==
  {[Faultless(2, 1, TRUE) EXCEPT !.feedGaps = TRUE],
   [Faultless(1, 1, TRUE) EXCEPT !.wire = 2, !.lateReplies = TRUE, !.cancelMayFail = TRUE,
                                 !.sessionDrops = TRUE, !.feedGaps = TRUE],
   [Faultless(1, 1, TRUE) EXCEPT !.signals = TRUE]}

\* The venue may refuse a cancel.
MCRefusing == {[Faultless(2, 2, FALSE) EXCEPT !.cancelMayFail = TRUE]}
=============================================================================
