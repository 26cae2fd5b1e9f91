--------------------------- MODULE MCOrderManager ---------------------------
(* An instance of OrderManager small enough for TLC: one A/A+ trade.       *)
EXTENDS OrderManager

CONSTANT aplus

MCTags == {aplus}

=============================================================================
