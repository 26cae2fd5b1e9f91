------------------------- MODULE MCPositionManager -------------------------
(* An instance of PositionManager small enough for TLC: one position.      *)
EXTENDS PositionManager

CONSTANT t1

MCTickets == {t1}
MCNone == {}

=============================================================================
