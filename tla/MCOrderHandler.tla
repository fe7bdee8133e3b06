--------------------------- MODULE MCOrderHandler ---------------------------
(* Small instances of OrderHandler for TLC.                                *)
EXTENDS OrderHandler, TLC

\* Venue order numbers: 100 + cid for ours, 201... for orders of other clients.
MCVenueNo == [c \in 1..MaxCid |-> 100 + c]
MCOrderNo == {100 + c : c \in 1..MaxCid} \cup {201}
MCForeignProduct == [o \in MCOrderNo |-> CHOOSE p \in Product : TRUE]
=============================================================================
