--------------------------------- MODULE Bars ---------------------------------
(***************************************************************************)
(* The closed bars of one timeframe and the swings that core/structure.py  *)
(* finds in them.                                                          *)
(*                                                                         *)
(* Prices are small integers, the thresholds multiples of the ATR, which   *)
(* is not computed: an analysis finds any of Atrs.  A direction d is 1 or  *)
(* -1: d * price is the price as seen by a trade that goes that way.       *)
(***************************************************************************)
EXTENDS Integers, Sequences, FiniteSets, FiniteSetsExt

CONSTANTS
    Lookback,    \* bars on either side of a swing
    MinLeg,      \* the least leg of a structural swing
    Atrs, Prices, Wicks, MaxBars, \* bounds: ATRs, prices, lengths of wicks, bars
    Jumps,       \* may a bar open away from the last close?
    Still        \* may it close where it opened?

VARIABLE bars    \* the closed bars

Dirs == {1, -1}
Size(x) == IF x < 0 THEN -x ELSE x

\* The extreme of bar i in direction d.
Extreme(d, i) == IF d = 1 THEN bars[i].h ELSE bars[i].l
Tip(d, i) == d * Extreme(d, i)
Close(d, i) == d * bars[i].c

Body(i) == Size(bars[i].c - bars[i].o)
Solid(i) == bars[i].h > bars[i].l /\ 2 * Body(i) >= bars[i].h - bars[i].l

Indices == 1..Len(bars)

-----------------------------------------------------------------------------
(* detect_swings().  A swing is the index of its bar.                      *)

Fractal(d, i) ==
    /\ i - Lookback \in Indices /\ i + Lookback \in Indices
    /\ \A j \in i - Lookback..i - 1 : Tip(d, i) > Tip(d, j)
    /\ \A j \in i + 1..i + Lookback : Tip(d, i) >= Tip(d, j)

Highs == {i \in Indices : Fractal(1, i)}
Lows == {i \in Indices : Fractal(-1, i)} \ Highs
Kind(highs, i) == IF i \in highs THEN 1 ELSE -1

\* _alternate(): of neighbours of the same kind the most extreme, or the first.
Swings ==
    LET highs == Highs
        all == highs \cup Lows
        SameRun(d, i, j) == \A m \in all : m > Min({i, j}) /\ m < Max({i, j}) => Kind(highs, m) = d
        Outdone(i) ==
            LET d == Kind(highs, i)
            IN \E j \in all \ {i} :
                /\ Kind(highs, j) = d
                /\ Tip(d, j) > Tip(d, i) \/ (Tip(d, j) = Tip(d, i) /\ j < i)
                /\ SameRun(d, i, j)
    IN {[at |-> i, dir |-> Kind(highs, i)] : i \in {k \in all : ~Outdone(k)}}

Before(swings, s) == {t \in swings : t.at < s.at}
Previous(swings, s) == CHOOSE t \in Before(swings, s) : \A u \in Before(swings, s) : u.at <= t.at

Leg(swings, s) ==
    LET p == Previous(swings, s) IN Size(Extreme(s.dir, s.at) - Extreme(p.dir, p.at))

Structural(atr) ==
    LET swings == Swings
    IN {s \in swings : Before(swings, s) = {} \/ Leg(swings, s) >= MinLeg * atr}

-----------------------------------------------------------------------------
(* The market.                                                             *)

\* A bar from o to c, with wicks above and below.
Bar(o, c, w) ==
    [o |-> o, c |-> c, h |-> Max({o, c}) + w[1], l |-> Min({o, c}) - w[2]]

Opens == IF bars = <<>> \/ Jumps THEN Prices ELSE {bars[Len(bars)].c}

NewBar ==
    /\ Len(bars) < MaxBars
    /\ \E o \in Opens, c \in Prices, w \in Wicks :
         (c # o \/ Still) /\ bars' = Append(bars, Bar(o, c, w))
=============================================================================
