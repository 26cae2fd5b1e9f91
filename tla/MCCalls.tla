------------------------------- MODULE MCCalls -------------------------------
(***************************************************************************)
(* What becomes of the engine's calls: in the bridge, in the position      *)
(* manager's passes, and in executions whose broker may fail in every way. *)
(* A behaviour chooses one of the three and stays with it, and the states  *)
(* explored are the sum of theirs.  So fairness, too, is asked only of the *)
(* part that moves.                                                        *)
(***************************************************************************)
EXTENDS Runtime, PositionManager, OrderManager

VARIABLE part

-----------------------------------------------------------------------------
(* The bridge: the second engine only contends for the lock.               *)

FirstEngine == [loop |-> "e1", m5 |-> "e1"]
TwoUsers == [e1 |-> "trader", e2 |-> "service"]

(* Positions: one is trailed, on the other calls are not confirmed.        *)

CONSTANTS t1, t2

TwoTickets == {t1, t2}
TheFirst == {t1}
TheSecond == {t2}

-----------------------------------------------------------------------------
(* Orders: one tag that is not under the main magic.                       *)

CONSTANT scalp

OneTag == {scalp}
NoTag == {}

-----------------------------------------------------------------------------
RuntimeActs ==
    /\ part = "runtime" /\ RuntimeNext
    /\ UNCHANGED <<positionVars, vars, part>>

ManagerActs ==
    /\ part = "positions" /\ PositionNext
    /\ UNCHANGED <<runtimeVars, vars, part>>

OrdersAct ==
    /\ part = "orders" /\ Next
    /\ UNCHANGED <<runtimeVars, positionVars, part>>

CallsInit ==
    /\ RuntimeInit /\ PositionInit /\ Init
    /\ part \in {"runtime", "positions", "orders"}
    /\ part # "runtime" => file = "absent"

CallsNext == RuntimeActs \/ ManagerActs \/ OrdersAct

\* The fairness of Runtime, and that of OrderManager.
CallsFairness ==
    /\ \A t \in Callers : WF_runtimeVars(part = "runtime" /\ Calling(t))
    /\ \A t \in Tags :
          /\ WF_vars(part = "orders" /\ Execute(t))
          /\ WF_vars(part = "orders" /\ ResolveAtStartup(t))
    /\ WF_vars(part = "orders" /\ EngineReady)

CallsSpec ==
    /\ CallsInit /\ [][CallsNext]_<<runtimeVars, positionVars, vars, part>>
    /\ CallsFairness

-----------------------------------------------------------------------------
\* Nothing that was begun with the broker goes on for ever, where the order
\* manager moves: execute() and reconcile_unresolved() come to an end.
OrdersEnd == part = "orders" => CallsEnd
=============================================================================
