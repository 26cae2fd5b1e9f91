----------------------------- MODULE TradeIntent -----------------------------
(***************************************************************************)
(* What the order manager promises for every tag, whatever it does to keep *)
(* the promise: the account never holds two positions for one intended     *)
(* trade, a trade is reported filled only if the server executed it, and a *)
(* trade whose fate stays unknown stops the engine.                        *)
(***************************************************************************)
EXTENDS Integers

CONSTANTS Tags

VARIABLES
    held,   \* [Tags -> positions open for the tag]: 0 or 1
    ever,   \* [Tags -> the server has executed an order of the tag]
    told,   \* [Tags -> the last status reported to the engine]
    halts   \* the reasons for which trading is stopped

vars == <<held, ever, told, halts>>

Init ==
    /\ held = [t \in Tags |-> 0]
    /\ ever = [t \in Tags |-> FALSE]
    /\ told = [t \in Tags |-> "none"]
    /\ halts = {}

\* The server opens the position of a tag that has none.
Place(t) ==
    /\ held[t] = 0
    /\ held' = [held EXCEPT ![t] = 1]
    /\ ever' = [ever EXCEPT ![t] = TRUE]
    /\ UNCHANGED <<told, halts>>

\* The server closes it.
Release(t) ==
    /\ held[t] = 1
    /\ held' = [held EXCEPT ![t] = 0]
    /\ UNCHANGED <<ever, told, halts>>

ReportFilled(t) ==
    /\ ever[t]
    /\ told' = [told EXCEPT ![t] = "FILLED"]
    /\ UNCHANGED <<held, ever, halts>>

\* Abandoning may stop the engine as well.
ReportAbandoned(t) ==
    /\ told' = [told EXCEPT ![t] = "ABANDONED"]
    /\ halts \subseteq halts'
    /\ UNCHANGED <<held, ever>>

\* Not knowing always does.
ReportUnknown(t) ==
    /\ told' = [told EXCEPT ![t] = "RECONCILING"]
    /\ halts' = halts \cup {"STATE_DIVERGENCE"}
    /\ UNCHANGED <<held, ever>>

\* A crash forgets the reports and the halts, never the positions.
Forget ==
    /\ told' = [t \in Tags |-> "none"]
    /\ halts' = {}
    /\ UNCHANGED <<held, ever>>

Next ==
    \/ \E t \in Tags :
          \/ Place(t) \/ Release(t)
          \/ ReportFilled(t) \/ ReportAbandoned(t) \/ ReportUnknown(t)
    \/ Forget

Spec == Init /\ [][Next]_vars

=============================================================================
