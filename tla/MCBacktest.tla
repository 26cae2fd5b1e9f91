------------------------------- MODULE MCBacktest ------------------------------
(***************************************************************************)
(* A replay of two bars with gaps between and within them: what a plan must *)
(* earn and how long it is held, by its engine.                            *)
(***************************************************************************)
EXTENDS Backtest

FivePrices == 1..5

RewardOf == [e \in Engines |-> IF e = "" THEN 2 ELSE 1]
HoldOf == [e \in Engines |-> IF e = "scalp" THEN 1 ELSE 2]
=============================================================================
