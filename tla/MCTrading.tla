------------------------------ MODULE MCTrading ------------------------------
(***************************************************************************)
(* The engine's threads, the risk gate's guard and the order manager.      *)
(* Each module has what the others do to it in its own actions (a fill, an *)
(* update, an approval), so to interleave them would only multiply their   *)
(* states.  A behaviour chooses one and stays with it, and the states      *)
(* explored are the sum of theirs.                                         *)
(***************************************************************************)
EXTENDS Engine, Risk, OrderManager

VARIABLE part

-----------------------------------------------------------------------------
(* The engine: one FLATTEN, which halts as well, and a ticket on which      *)
(* calls fail.                                                             *)

CONSTANT flatten

NoHalt == {}
FlattenOnce == {flatten}
SecondFlaky == {2}

(* Risk: a day and a week of two days, three units of equity.              *)

DayAndWeek == {"DAY", "WEEK"}
LengthOf == [p \in DayAndWeek |-> IF p = "DAY" THEN 1 ELSE 2]
LimitOf == [p \in DayAndWeek |-> IF p = "DAY" THEN 5 ELSE 6]
WeekByHand == {"WEEK"}
SelfClearing == {"BROKER_UNREACHABLE"}
Manually == {"MANUAL"}

(* Orders: one tag under the main magic and one under another.             *)

CONSTANTS aplus, scalp

BothTags == {aplus, scalp}
OnlyAPlus == {aplus}

-----------------------------------------------------------------------------
EngineActs ==
    /\ part = "engine" /\ EngineNext
    /\ UNCHANGED <<riskVars, vars, part>>

GuardActs ==
    /\ part = "risk" /\ RiskNext
    /\ UNCHANGED <<tradingVars, vars, part>>

OrdersAct ==
    /\ part = "orders" /\ Next
    /\ UNCHANGED <<tradingVars, riskVars, part>>

TradingInit ==
    /\ EngineInit /\ RiskInit /\ Init
    /\ part \in {"engine", "risk", "orders"}
    /\ part # "risk" => equity = MaxEquity

TradingNext == EngineActs \/ GuardActs \/ OrdersAct

TradingSpec == TradingInit /\ [][TradingNext]_<<tradingVars, riskVars, vars, part>>
=============================================================================
