------------------------------ MODULE Liquidity ------------------------------
(***************************************************************************)
(* The pools of core/liquidity.py and the sweeps that take them, found     *)
(* again after each bar.  A pool on side 1 rests above the market, one on  *)
(* side -1 below it; a sweep of a pool speaks for a trade the other way.   *)
(***************************************************************************)
EXTENDS Bars

CONSTANTS
    Yesterday, LastWeek, Asia, \* their highs and lows, if they are known: sets
    Tol,         \* the tolerance of equal levels, in ATR
    MinPen, MaxPen, \* how far beyond the pool a sweep may go
    MinReject,   \* the least share of the bar that is rejected, in percent
    MaxReject,   \* bars in which the close may still come back
    Window,      \* the latest bars, in which takes and equal levels are looked for
    MinBars      \* bars without which nothing is said

VARIABLES
    due,     \* has the last bar still to be analysed?
    sweeps,  \* the sweeps that the last analysis found
    scale    \* its ATR, by which it judged how deep they go

vars == <<bars, due, sweeps, scale>>

Pool(kind, price, side, at, strength, touches) ==
    [kind |-> kind, price |-> price, side |-> side, at |-> at,
     strength |-> strength, touches |-> touches]

-----------------------------------------------------------------------------
(* The pools.                                                              *)

Scanned == {i \in Indices : i > Len(bars) - Window}

\* The bars within the tolerance of a price, and below it.
Members(d, v, atr) == {i \in Scanned : v - Tip(d, i) \in 0..Tol * atr}

\* equal_levels(): the most extreme price gathers those within the tolerance,
\* then the most extreme of the rest, and so on.
Heads(d, atr) ==
    LET tips == {Tip(d, i) : i \in Scanned}
        head[v \in tips] == \A u \in tips : u > v /\ u - v <= Tol * atr => ~head[u]
    IN {v \in tips : head[v]}

\* One bar alone is no pool.
EqualLevels(atr) ==
    UNION {{LET n == Cardinality(Members(d, v, atr))
            IN Pool("equal", d * v, d, Min(Members(d, v, atr)), Min({100, 35 + 15 * n}), n) :
              v \in {u \in Heads(d, atr) : Cardinality(Members(d, u, atr)) > 1}} : d \in Dirs}

SwingPools(atr) == {Pool("swing", Extreme(s.dir, s.at), s.dir, s.at, 50, 1) : s \in Structural(atr)}

\* session_and_period_pools(): older than the bars.
PeriodPools ==
    LET ends(ranges, strength) ==
            UNION {{Pool("period", r.high, 1, 0, strength, 1), Pool("period", r.low, -1, 0, strength, 1)} : r \in ranges}
    IN ends(Yesterday, 80) \cup ends(LastWeek, 90) \cup ends(Asia, 60)

\* The order of _dedupe(): by strength and touches, then as the lists have them.
Precedes(p, q) ==
    \/ p.strength > q.strength
    \/ p.strength = q.strength /\ p.touches > q.touches
    \/ /\ p.strength = q.strength /\ p.touches = q.touches
       /\ IF p.kind = "equal" THEN p.side * p.price > q.side * q.price ELSE p.at < q.at

\* Of pools at nearly the same price the strongest is kept.
Distinct(pools, atr) ==
    LET kept[p \in pools] ==
            \A q \in pools :
                Precedes(q, p) /\ q.side = p.side /\ 2 * Size(q.price - p.price) <= Tol * atr => ~kept[q]
    IN {p \in pools : kept[p]}

Pools(atr) ==
    Distinct((IF Len(bars) < MinBars THEN {} ELSE EqualLevels(atr)) \cup SwingPools(atr) \cup PeriodPools, atr)

\* mark_swept(): the bars that have traded through a pool.
Takes(p) == {i \in Indices : i > p.at /\ Tip(p.side, i) > p.side * p.price}

-----------------------------------------------------------------------------
(* detect_sweeps().                                                        *)

Penetration(p, i) == Tip(p.side, i) - p.side * p.price

Inside(p, i) == Close(p.side, i) < p.side * p.price

\* The wick beyond the body, as a share of the bar.
Rejects(p, i) ==
    LET wick == Tip(p.side, i) - Max({p.side * bars[i].o, p.side * bars[i].c})
    IN 100 * wick >= MinReject * (bars[i].h - bars[i].l)

\* The bars that close back inside: the one that takes the pool, or when it
\* does not, one of the next few.
ClosesBack(p, i) == {j \in i..Len(bars) : j <= i + MaxReject /\ Inside(p, j)}

\* Beyond the pool, but not so far that it is a break.
Fits(pen, atr) == 2 * pen >= MinPen * atr /\ 2 * pen <= MaxPen * atr

\* A bar goes beyond the pool, as deep as a sweep goes, and is rejected.
Qualifies(p, i, atr) ==
    /\ i > 1 /\ i \in Takes(p) /\ bars[i].h > bars[i].l
    /\ Fits(Penetration(p, i), atr)
    /\ ClosesBack(p, i) # {}
    /\ Inside(p, i) => Rejects(p, i)

\* _displacement_after(): how far the five bars that follow move away.
Displacement(p, i) ==
    Max({0} \cup {Tip(-p.side, j) - Close(-p.side, i) : j \in i + 1..Min({i + 5, Len(bars)})})

\* Mutation: the latest take counts.
TheSweep_Latest(qualifying) == Max(qualifying)

\* One sweep for each pool, the first of those that are scanned.
TheSweep(qualifying) == Min(qualifying)

Sweep(p, i) ==
    [pool |-> p, at |-> i, pen |-> Penetration(p, i), back |-> Min(ClosesBack(p, i)),
     after |-> Displacement(p, i)]

Sweeps(pools, atr) ==
    LET qualifying == [p \in pools |-> {i \in Scanned : Qualifies(p, i, atr)}]
    IN IF Len(bars) < MinBars THEN {}
       ELSE {Sweep(p, TheSweep(qualifying[p])) : p \in {q \in pools : qualifying[q] # {}}}

-----------------------------------------------------------------------------
(* LiquidityEngine.analyze().                                              *)

BarCloses == ~due /\ due' = TRUE /\ NewBar /\ UNCHANGED <<sweeps, scale>>

Analyse ==
    /\ due /\ due' = FALSE
    /\ \E atr \in Atrs : LET pools == Pools(atr) IN sweeps' = Sweeps(pools, atr) /\ scale' = atr
    /\ UNCHANGED bars

LiquidityInit == bars = <<>> /\ due = FALSE /\ sweeps = {} /\ scale = 0

LiquidityNext == BarCloses \/ Analyse

LiquiditySpec == LiquidityInit /\ [][LiquidityNext]_vars

-----------------------------------------------------------------------------
(* Properties                                                              *)

\* A sweep is a matter of the past, and each analysis starts again from the bars with
\* an ATR of its own.  As long as the bar of a sweep is scanned, nothing but that ATR
\* can move it: the sweep is found again unless its pool is gone or the new ATR makes
\* it too deep or too shallow; where it is found at its bar, the rejection is the same
\* one and the move away has only grown; and what comes before it is a take that was
\* too deep or too shallow by the ATR of then, never one that waited for its close.
\* When its bar is no longer scanned only a later take of the pool is reported.
SweepStays ==
    [][\A s \in sweeps :
          LET again == {t \in sweeps' : t.pool = s.pool} IN
          IF s.at > Len(bars) - Window
          THEN /\ Fits(s.pen, scale') /\ s.pool \in Pools(scale') => \E t \in again : t.at <= s.at
               /\ \A t \in again :
                    /\ t.at > s.at => ~Fits(s.pen, scale')
                    /\ t.at = s.at => t.back = s.back /\ t.after >= s.after
                    /\ t.at < s.at => ~Fits(t.pen, scale)
          ELSE \A t \in again : t.at > s.at]_vars

\* What a comment says: "one sweep per pool: the first take is the meaningful
\* one".  The bar of a sweep is the first that traded through the pool.
FirstTake == \A s \in sweeps : \A i \in Takes(s.pool) : s.at <= i
=============================================================================
