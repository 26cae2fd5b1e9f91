------------------------------- MODULE Market --------------------------------
(***************************************************************************)
(* What the strategies see of the market: a set of features, that is       *)
(* sweeps, shifts and breaks of structure, gaps, blocks, levels, pools,    *)
(* biases, ranges and open positions, and the conditions of the snapshot.  *)
(* Prices are relative to the middle of the quote, in units of ATR / 40;   *)
(* shares are percents.  An age is in minutes, or in bars of M15.          *)
(***************************************************************************)
EXTENDS Integers, FiniteSets, FiniteSetsExt

CONSTANTS
    Features,    \* the features that may appear
    MaxFeatures, \* bound: how many at a time
    Conditions,  \* the conditions that may hold
    MedianSpread \* what the spread is compared with

VARIABLES market, conditions

marketVars == <<market, conditions>>

ATR == 40
NoPrice == 10000       \* no such price
Naked == 20000         \* stop_loss = 0

Directions == {"LONG", "SHORT"}
Kind(m, k) == {f \in m : f.kind = k}
Facing(m, k, d) == {f \in Kind(m, k) : f.dir = d}

AbsOf(x) == IF x < 0 THEN 0 - x ELSE x

\* The latest in a set of events.
Latest(events) == {e \in events : \A f \in events : e.age <= f.age}

\* The market moves, or a position of another engine opens or closes.
Appears ==
    /\ Cardinality(market) < MaxFeatures
    /\ \E f \in Features \ market : market' = market \cup {f}
    /\ UNCHANGED conditions

Vanishes ==
    /\ \E f \in market : market' = market \ {f}
    /\ UNCHANGED conditions

MarketInit == market = {} /\ conditions \in Conditions

-----------------------------------------------------------------------------
(* RegimeEngine.classify(): of the ADX, the side of the larger directional *)
(* index, the slope of the EMA in hundredths of the ATR, the ATR in        *)
(* percents of its median, and the spread.                                 *)

Abnormal(c) == ~c.enough \/ c.heat > 300 \/ c.spread > 4 * MedianSpread

\* A slope that disagrees makes it a range.
Directional(c) == c.adx >= 20 /\ IF c.lean = 1 THEN c.slope >= 0 - 2 ELSE c.slope <= 2

Regime(c) ==
    IF Abnormal(c) THEN "ABNORMAL"
    ELSE IF ~Directional(c) THEN "RANGE"
    ELSE IF c.lean = 1 THEN IF c.adx >= 30 THEN "STRONG_BULL" ELSE "MODERATE_BULL"
    ELSE IF c.adx >= 30 THEN "STRONG_BEAR" ELSE "MODERATE_BEAR"

-----------------------------------------------------------------------------
(* The market upside down.                                                 *)

Opposite(d) == CASE d = "LONG" -> "SHORT" [] d = "SHORT" -> "LONG" [] OTHER -> d

Negated(p) == IF p \in {NoPrice, Naked} THEN p ELSE 0 - p

MirrorOf(f) ==
    [k \in DOMAIN f |->
        CASE k = "dir" -> Opposite(f.dir)
          [] k \in {"pool", "price", "stop", "entry", "target", "first", "ref"} -> Negated(f[k])
          [] k = "top" -> 0 - f.bottom [] k = "bottom" -> 0 - f.top
          [] k = "high" -> 0 - f.low [] k = "low" -> 0 - f.high
          [] OTHER -> f[k]]

Mirrored(m) == {MirrorOf(f) : f \in m}

\* Two directional indices are never equal here: then classify() says bear.
MirrorConditions(c) == [c EXCEPT !.lean = 0 - @, !.slope = 0 - @]
=============================================================================
