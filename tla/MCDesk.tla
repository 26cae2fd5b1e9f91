-------------------------------- MODULE MCDesk --------------------------------
(***************************************************************************)
(* The desk and the study.  None of their parts calls another while it     *)
(* works; to interleave them would only multiply their states.  So a       *)
(* behaviour chooses a part and stays with it, and the states explored are *)
(* the sum of theirs.  The desk and the study keep their constants.        *)
(***************************************************************************)
EXTENDS Desk, Study, FiniteSetsExt

VARIABLE part

-----------------------------------------------------------------------------
(* Context: units of five minutes; a small release, then a large one.      *)

Releases == {[ts |-> 4, impact |-> "MEDIUM", relevance |-> 5],
             [ts |-> 17, impact |-> "CRITICAL", relevance |-> 10]}

QuietBefore == [CRITICAL |-> 12, MEDIUM |-> 3]
QuietAfter == [CRITICAL |-> 6, MEDIUM |-> 2]

(* AnalysisCache: units of seven and a half minutes.                       *)

BarLengths == [M15 |-> 2, H1 |-> 4, H4 |-> 8, D1 |-> 24]

(* Structure: bars without wicks.  Learning: closes that alternate, with    *)
(* wicks that may hold both barriers.                                      *)

FourPrices == 0..3
TwoPrices == 0..1
ThreePrices == {0, 1, 3}
NoWicks == {<<0, 0>>}
LongWicks == {<<0, 0>>, <<0, 1>>, <<2, 2>>}

(* Liquidity: bars with and without wicks, an ATR of 2, and the range of the *)
(* day before.                                                             *)

ShortWicks == {<<0, 0>>, <<1, 1>>}
DayBefore == {[high |-> 2, low |-> 0]}

(* Sessions: the configuration of the repository.                          *)

AllSessions == {"ASIA", "LONDON", "OVERLAP", "NEW_YORK", "OFF"}

-----------------------------------------------------------------------------
(* Scalp: one feature of each kind that can matter, most of them for a long.  *)

MicroZone(kind, tf, d, top, bottom) ==
    [kind |-> kind, tf |-> tf, dir |-> d, top |-> top, bottom |-> bottom,
     tradable |-> TRUE, size |-> 150]

ScalpFeatures ==
    {[kind |-> "sweep", dir |-> d, pool |-> IF d = "LONG" THEN 0 - 20 ELSE 10, pen |-> 8,
      quality |-> 90, after |-> 100, age |-> 10] : d \in {"LONG", "SHORT"}}
    \cup {[kind |-> "shift", dir |-> "LONG", age |-> a, size |-> 150] : a \in {2, 15}}
    \cup {[kind |-> "shift", dir |-> "SHORT", age |-> 5, size |-> 150],
          [kind |-> "bos", dir |-> "LONG", price |-> 0 - 20, age |-> 6, size |-> 150, body |-> 90],
          [kind |-> "bos", dir |-> "SHORT", price |-> 20, age |-> 30, size |-> 150, body |-> 90],
          MicroZone("gap", "M5", "LONG", 0 - 10, 0 - 40), MicroZone("gap", "H1", "SHORT", 60, 44),
          MicroZone("block", "M5", "LONG", 0, 0 - 24), MicroZone("block", "H4", "LONG", 0, 0 - 30),
          [kind |-> "level", tf |-> "H4", price |-> 52, half |-> 6],
          [kind |-> "level", tf |-> "M15", price |-> 0 - 44, half |-> 6],
          [kind |-> "bias", tf |-> "H1", dir |-> "LONG"],
          [kind |-> "range", high |-> 80, low |-> 0 - 60],
          [kind |-> "position", owner |-> "intraday", dir |-> "LONG", stop |-> 0 - 100],
          [kind |-> "position", owner |-> "intraday", dir |-> "LONG", stop |-> 0 - 50],
          [kind |-> "position", owner |-> "aplus", dir |-> "LONG", stop |-> 20000]}
    \cup {[kind |-> "bias", tf |-> "M15", dir |-> d] : d \in {"SHORT", "none"}}
    \cup {[kind |-> "pool", tf |-> "M5", price |-> 50, resting |-> r] : r \in BOOLEAN}

\* A strong trend, one that the EMA contradicts, and one in a blackout.
ScalpCondition(slope, spread, blocked) ==
    [enough |-> TRUE, heat |-> 100, adx |-> 35, lean |-> 1, slope |-> slope, spread |-> spread,
     blocked |-> blocked, news |-> "LOW", session |-> "LONDON", fast |-> 18]

ScalpConditions ==
    {ScalpCondition(sl, s, FALSE) : sl \in {5, 0 - 5}, s \in {0, 4}} \cup {ScalpCondition(5, 4, TRUE)}

ScalpTraders == {"sweep_reversal", "fvg_retracement", "ob_reaction", "breakout_retest", "momentum_continuation"}

(* Setups: features for each strategy, with the range of an Asian session  *)
(* that does not cross midnight.                                           *)

M15Sweep(d, pool, age, quality, period) ==
    [kind |-> "sweep", dir |-> d, pool |-> pool, pen |-> 8, quality |-> quality, after |-> 100,
     age |-> age, period |-> period, closed |-> TRUE]

SetupFeatures ==
    {M15Sweep("LONG", 0 - 20, 6, 90, FALSE), M15Sweep("LONG", 0 - 30, 7, 60, TRUE),
     M15Sweep("SHORT", 24, 8, 95, TRUE), M15Sweep("SHORT", 20, 12, 50, FALSE),
     [kind |-> "mss", dir |-> "LONG", age |-> 4], [kind |-> "mss", dir |-> "SHORT", age |-> 9],
     [kind |-> "bos", dir |-> "LONG", age |-> 2], [kind |-> "choch", dir |-> "SHORT", age |-> 1],
     [kind |-> "gap", dir |-> "LONG", top |-> 0 - 4, bottom |-> 0 - 16, size |-> 80, age |-> 5, tradable |-> TRUE],
     [kind |-> "gap", dir |-> "LONG", top |-> 0, bottom |-> 0 - 10, size |-> 90, age |-> 5, tradable |-> FALSE],
     [kind |-> "block", dir |-> "LONG", top |-> 0 - 6, bottom |-> 0 - 16, size |-> 80, caused |-> FALSE,
      breaker |-> TRUE, tradable |-> TRUE],
     [kind |-> "block", dir |-> "SHORT", top |-> 40, bottom |-> 6, size |-> 90, caused |-> TRUE,
      breaker |-> FALSE, tradable |-> TRUE],
     [kind |-> "level", price |-> 90, weight |-> 50], [kind |-> "level", price |-> 0 - 100, weight |-> 30],
     [kind |-> "asia", high |-> 40, low |-> 0 - 20],
     [kind |-> "range", high |-> 80, low |-> 0 - 60],
     [kind |-> "bias", tf |-> "W1", dir |-> "SHORT"]}
    \cup {[kind |-> "pool", price |-> 110, resting |-> r] : r \in BOOLEAN}

\* A moderate trend and a range.
SetupCondition(adx, session) ==
    [enough |-> TRUE, heat |-> 100, adx |-> adx, lean |-> 1, slope |-> 0, spread |-> 2,
     session |-> session, minutes |-> 60]

SetupConditions == {SetupCondition(a, s) : a \in {25, 15}, s \in {"LONDON", "NEW_YORK"}}

AllStrategies == {"sweep_mss_fvg", "sweep_mss_ob", "session_range_expansion", "pdh_pdl_reversion"}

(* Confluence: the grades of each field, the worst first, and a candidate   *)
(* near the thresholds of both classes.                                    *)

Evidence == [
    htf |-> <<-100, 100>>, mss |-> <<-1, 100>>, bos |-> <<FALSE, TRUE>>,
    recency |-> <<50>>, sweep |-> <<50, 100>>, target |-> <<TRUE>>,
    zone |-> <<80>>, support |-> <<60>>, place |-> <<-9, 30, 70>>,
    macro |-> <<-9, -1, 0, 1>>, fresh |-> <<FALSE, TRUE>>, hint |-> <<-1, 0, 1>>,
    dollar |-> <<1>>, session |-> <<2>>, killzone |-> <<TRUE>>,
    regime |-> <<0, 1, 2>>, vol |-> <<"LOW", "NORMAL">>,
    spread |-> <<-3, -2, -1, 0>>, news |-> <<-2, -1, 0>>,
    clear |-> <<FALSE, TRUE>>, blocked |-> <<FALSE>>, blackout |-> <<FALSE>>,
    system |-> <<TRUE>>, calendar |-> <<TRUE>>, account |-> <<TRUE>>, stop |-> <<TRUE>>,
    sized |-> <<FALSE, TRUE>>, proven |-> <<TRUE>>, real |-> <<TRUE>>, rr |-> <<TRUE>>,
    healthy |-> <<TRUE>>, prob |-> <<70>>]

NearMiss == [k \in DOMAIN Evidence |-> Evidence[k][Len(Evidence[k])]]

Varied == {"htf", "mss", "sweep", "place", "macro", "fresh", "hint", "spread", "news", "vol"}

(* Backtest: three bars of at most four prices, without gaps; what a plan   *)
(* must earn and how long it is held, by its engine.                       *)

RewardOf == [e \in {"", "scalp", "intraday"} |-> IF e = "" THEN 2 ELSE 1]
HoldOf == [e \in {"", "scalp", "intraday"} |-> IF e = "scalp" THEN 1 ELSE 2]

-----------------------------------------------------------------------------
Init ==
    /\ part \in {"feed", "world", "history", "jobs", "chart", "pools", "lessons", "walk",
               "hours", "scalp", "setups", "judge", "intraday", "replay", "cache"}
    /\ DeskInit
    /\ part # "cache" => key = "zones"
    /\ part # "scalp" => conditions = ScalpCondition(5, 0, FALSE)
    /\ part # "setups" => setupConditions = SetupCondition(25, "LONDON")
    /\ part # "hours" => halfHour = 0 /\ summer = {}
    /\ StudyInit
    /\ part # "replay" => mid = 1
    /\ part # "walk" => asked = [bars |-> 7, isBars |-> 2, oosBars |-> 1, anchored |-> FALSE]

DeskMoves ==
    /\ \/ part = "feed" /\ FeedMoves
       \/ part = "world" /\ WorldMoves
       \/ part = "hours" /\ HoursMove
       \/ part = "history" /\ HistoryMoves
       \/ part = "jobs" /\ JobsMove
       \/ part = "cache" /\ CacheMoves
       \/ part = "intraday" /\ IntradayMoves
       \/ part = "scalp" /\ ScalpsMove
       \/ part = "setups" /\ SetupsMove
    /\ UNCHANGED <<part, studyVars>>

StudyMoves ==
    /\ \/ part = "chart" /\ ChartMoves
       \/ part = "pools" /\ PoolsMove
       \/ part = "lessons" /\ LessonsMove
       \/ part = "walk" /\ WalkMoves
       \/ part = "judge" /\ JudgeMoves
       \/ part = "replay" /\ ReplayMoves
    /\ UNCHANGED <<part, deskVars>>

Next ==
    \/ DeskMoves
    \/ StudyMoves

vars == <<part, deskVars, studyVars>>

Spec == Init /\ [][Next]_vars
=============================================================================
