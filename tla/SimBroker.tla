------------------------------ MODULE SimBroker ------------------------------
(***************************************************************************)
(* execution/sim_broker.py: positions of one lot, on bars of whole price   *)
(* units.  A point of slippage, the half of the spread and a commission    *)
(* are constants in the same units; margin is not modelled.                *)
(***************************************************************************)
EXTENDS Integers, FiniteSets, FiniteSetsExt

CONSTANTS
    Half,       \* half of the spread
    MaxSlip,    \* the most that a fill slips
    StopsLevel, \* the broker's least distance of a stop from the price
    Commission  \* per side

VARIABLES
    close,     \* the last bar's close, which is the mid price
    positions, \* SimBroker._positions
    balance,   \* SimBroker._balance, from the starting balance
    booked     \* the sum of gross_pnl - commission over closed_trades

brokerVars == <<close, positions, balance, booked>>

Directions == {"LONG", "SHORT"}
Sign(p) == IF p.dir = "LONG" THEN 1 ELSE -1

\* How far a price is from another, in a position's favour.
Gain(p, from, to) == (to - from) * Sign(p)

Distance(a, b) == IF a < b THEN b - a ELSE a - b

Touches(level, b) == b.low <= level /\ level <= b.high

-----------------------------------------------------------------------------
(* step_bar().                                                             *)

\* _resolve_order_with_m1(): the first of the known minutes that touches a
\* level; the loss, if none does or it touches both.
FirstInMinutes(p, m1) ==
    LET hits == {i \in DOMAIN m1 : Touches(p.sl, m1[i]) \/ Touches(p.tp, m1[i])} IN
    IF hits # {} /\ ~Touches(p.sl, m1[Min(hits)]) THEN "TP" ELSE "SL"

\* What a bar does to a position.
Outcome(p, b, m1) ==
    LET hitSl == Touches(p.sl, b)
        hitTp == Touches(p.tp, b) IN
    IF hitSl /\ hitTp THEN FirstInMinutes(p, m1)
    ELSE IF hitSl THEN "SL" ELSE IF hitTp THEN "TP" ELSE "HELD"

\* Stops slip against the position, and fill inside the bar.
ExitPrice(p, b, m1, slip) ==
    IF Outcome(p, b, m1) = "TP" THEN p.tp
    ELSE IF p.dir = "LONG" THEN Min({p.sl - slip, b.high})
    ELSE Max({p.sl + slip, b.low})

\* Mutation: the second commission is not taken from the balance.
Settle_Free(gone, price) ==
    /\ balance' = balance + MapThenSumSet(LAMBDA p : Gain(p, p.entry, price[p]), gone)
    /\ booked' = booked + MapThenSumSet(LAMBDA p : Gain(p, p.entry, price[p]) - 2 * Commission, gone)

\* _close() of whole positions, each at its price.
Settle(gone, price) ==
    /\ balance' = balance + MapThenSumSet(LAMBDA p : Gain(p, p.entry, price[p]) - Commission, gone)
    /\ booked' = booked + MapThenSumSet(LAMBDA p : Gain(p, p.entry, price[p]) - 2 * Commission, gone)

StepBar(b, m1) ==
    LET gone == {p \in positions : Outcome(p, b, m1) # "HELD"}
        stopped == {p \in gone : Outcome(p, b, m1) = "SL"} IN
    /\ close' = b.close
    /\ positions' = {[p EXCEPT !.held = @ + 1] : p \in positions \ gone}
    /\ \E slip \in [stopped -> 0..MaxSlip] :
          Settle(gone, [p \in gone |-> ExitPrice(p, b, m1, IF p \in stopped THEN slip[p] ELSE 0)])

-----------------------------------------------------------------------------
(* The broker's calls.                                                     *)

\* quote(): what an entry costs and an exit brings.
EntryPrice(p) == close + Half * Sign(p)
MarketExit(p) == close - Half * Sign(p)

\* send_market(): a fill that slips too far or lands too near to a level is
\* refused.
Fillable(p, fill, maxSlip) ==
    /\ Distance(fill, EntryPrice(p)) <= maxSlip
    /\ Distance(fill, p.sl) >= StopsLevel /\ Distance(fill, p.tp) >= StopsLevel

\* The order is filled: p.entry is the fill.
Fill(p) ==
    /\ positions' = positions \cup {p}
    /\ balance' = balance - Commission
    /\ UNCHANGED <<close, booked>>

\* modify_position() refuses a stop that is too near to the price.
Modifiable(stop) == Distance(close, stop) >= StopsLevel

\* close_all()
CloseAll ==
    /\ Settle(positions, [p \in positions |-> MarketExit(p)])
    /\ positions' = {}
    /\ UNCHANGED close
=============================================================================
