----------------------------- MODULE WalkForward ------------------------------
(***************************************************************************)
(* backtesting/walk_forward.py: the history is cut into windows, each of   *)
(* data to choose a strategy by and of later data to judge it by.  A bar   *)
(* is named by the base bar with which it opens; a higher bar holds Ratio  *)
(* base bars.                                                              *)
(***************************************************************************)
EXTENDS Integers, Sequences, FiniteSets

CONSTANTS
    Ratio,
    Lengths, Samples, Tests, \* bounds: bars of the history, is_bars, oos_bars
    MaxWindows

VARIABLES
    asked,   \* [bars, isBars, oosBars, anchored]
    start,   \* where the next window starts
    windows, \* the windows cut so far, in order: [from, mid, end]
    tried,   \* how many of them were run
    results  \* those that were large enough to run

vars == <<asked, start, windows, tried, results>>

-----------------------------------------------------------------------------
(* make_windows().                                                         *)

\* Bars are taken by the time of their opening, up to and with the boundary.
BaseBars(from, to) == {t \in 0..asked.bars - 1 : from <= t /\ t <= to}
HigherBars(from, to) == {t \in BaseBars(from, to) : t % Ratio = 0}

Ending(t) == IF t < asked.bars THEN t ELSE asked.bars - 1

Window(at) ==
    [from |-> IF asked.anchored THEN 0 ELSE at, mid |-> at + asked.isBars,
     end |-> Ending(at + asked.isBars + asked.oosBars)]

More == start + asked.isBars + asked.oosBars <= asked.bars /\ Len(windows) < MaxWindows

Cut ==
    /\ More
    /\ windows' = Append(windows, Window(start))
    /\ start' = start + asked.oosBars
    /\ UNCHANGED <<asked, tried, results>>

\* run(): once all windows are cut; one that is too small is left out.
Run ==
    /\ ~More
    /\ tried < Len(windows)
    /\ tried' = tried + 1
    /\ results' \in {results, results \cup {tried + 1}}
    /\ UNCHANGED <<asked, start, windows>>

WalkInit ==
    /\ asked \in [bars : Lengths, isBars : Samples, oosBars : Tests, anchored : BOOLEAN]
    /\ start = 0 /\ windows = <<>> /\ tried = 0 /\ results = {}

WalkNext == Cut \/ Run

WalkSpec == WalkInit /\ [][WalkNext]_vars

-----------------------------------------------------------------------------
(* Properties                                                              *)

\* The stretch of the history that a cut of the data knows of, on the base and
\* on the higher timeframe.
Covered(from, to) ==
    BaseBars(from, to) \cup UNION {t..t + Ratio - 1 : t \in HigherBars(from, to)}

Chosen(w) == Covered(w.from, w.mid)
Judging(w) == Covered(w.mid, w.end)

\* If every window could be run, every bar from the first sample to the end of
\* the last window was judged; and none is judged twice but at a boundary.
JudgedOnce ==
    /\ results = DOMAIN windows /\ windows # <<>> =>
         UNION {windows[i].mid..windows[i].end : i \in results} = asked.isBars..windows[Len(windows)].end
    /\ \A i, j \in results :
         i # j => Cardinality(BaseBars(windows[i].mid, windows[i].end)
                              \cap BaseBars(windows[j].mid, windows[j].end)) <= 1

-----------------------------------------------------------------------------
(* What the code's texts say besides, and does not hold.                   *)

\* make_windows(): "Slicing is by TIMESTAMP across every timeframe, so an H4 bar can
\* never straddle the boundary and leak in-sample information into the out-of-sample
\* window."  What a strategy is chosen by shares nothing with what it is judged by.
NothingStraddles ==
    \A i \in DOMAIN windows : Chosen(windows[i]) \cap Judging(windows[i]) = {}
=============================================================================
