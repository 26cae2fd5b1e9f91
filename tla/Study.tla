---------------------------------- MODULE Study ---------------------------------
(***************************************************************************)
(* What judges before an order depends on it: the chart and its pools by   *)
(* their bars, the candidates by their evidence, a model by the labels of  *)
(* a history, a strategy by windows of it, and the rules by its replay on  *)
(* the simulated broker.  None calls another while it works.               *)
(***************************************************************************)
EXTENDS Integers, FiniteSets, Sequences

CONSTANTS
    Gapped,                                    \* may a bar open away from the last close?
    ChartLookback, LeastLeg, ChartAtrs, ChartPrices, ChartWicks, ChartBars, ChartStill,  \* Structure
    BreakBeyond, ShiftBeyond, LeastGap, LeastBody, LeastBlock, BlockReach, BlockTests,
    PoolAtrs, PoolPrices, PoolWicks, PoolBars, PoolStill, EqualWithin,     \* Liquidity
    KnownDays, KnownWeeks, KnownAsia, LeastBeyond, MostBeyond, LeastReject, LatestReject,
    ScannedBars, FewestBars,
    LessonPrices, LessonWicks, LessonBars, LessonStill,                    \* Learning
    StopAway, TargetInRisks, LessonHorizon, Folds, EmbargoShare,
    HigherBar, HistoryLengths, SampleBars, TestBars, MostWindows,          \* WalkForward
    HalfSpread, WorstSlip, StopsLevel, SideCost, TopPrice, BarRange,   \* Backtest
    Lacking, ReplayedBars, BarsPerDay, PlanTags, OpenLimit, DayLimit, SlipLimit,
    LeastRR, HoldLimit, RUnit, BreakEvenAt, BreakEvenOffset, TrailAt, TimeStopMin,
    EvidenceGrades, BaseEvidence, VariedFields, HintShare              \* Confluence

ASSUME ChartAssumption ==
    /\ Gapped \in BOOLEAN
    /\ ChartLookback \in Nat /\ ChartBars \in Nat
    /\ ChartPrices \subseteq Int /\ ChartWicks \subseteq Nat \X Nat
    /\ ChartAtrs \subseteq Nat /\ {LeastGap, BlockTests} \subseteq Nat

ASSUME PoolAssumption ==
    /\ PoolPrices \subseteq Int /\ PoolWicks \subseteq Nat \X Nat
    /\ {LatestReject, ScannedBars, FewestBars} \subseteq Nat

ASSUME LessonAssumption ==
    /\ LessonPrices \subseteq Int /\ LessonWicks \subseteq Nat \X Nat
    /\ {StopAway, TargetInRisks, Folds} \subseteq Nat \ {0}
    /\ {LessonBars, LessonHorizon, EmbargoShare} \subseteq Nat

\* A window is judged by something, and a higher bar holds a bar.
ASSUME WalkAssumption ==
    /\ HistoryLengths \subseteq Nat /\ SampleBars \subseteq Nat
    /\ TestBars \subseteq Nat \ {0} /\ HigherBar \in Nat \ {0}
    /\ MostWindows \in Nat

\* The offset of the break-even stop is less than where it is moved there.
ASSUME ReplayAssumption ==
    /\ {HalfSpread, WorstSlip, StopsLevel, BarRange, ReplayedBars, BarsPerDay, OpenLimit,
        DayLimit, BreakEvenAt, BreakEvenOffset} \subseteq Nat
    /\ SideCost \in Int /\ TopPrice \in Nat \ {0} /\ RUnit \in Nat \ {0}
    /\ Gapped \in BOOLEAN /\ Lacking \in BOOLEAN
    /\ BreakEvenOffset < BreakEvenAt

\* The evidence: shares in percent, signs and levels, what is given, what is
\* against, and the volatility.
Values == [
    htf |-> {-100} \cup 0..100, mss |-> -1..100, recency |-> 0..100, sweep |-> 0..100,
    zone |-> 0..100, support |-> 0..100, place |-> {-9} \cup 0..100, macro |-> {-9} \cup -2..2,
    hint |-> Int, dollar |-> 0..2, session |-> 0..2, regime |-> 0..2, spread |-> -3..0,
    news |-> -3..0, prob |-> {-9} \cup 0..100,
    bos |-> BOOLEAN, target |-> BOOLEAN, fresh |-> BOOLEAN, killzone |-> BOOLEAN,
    clear |-> BOOLEAN, system |-> BOOLEAN, calendar |-> BOOLEAN, account |-> BOOLEAN,
    stop |-> BOOLEAN, sized |-> BOOLEAN, proven |-> BOOLEAN, rr |-> BOOLEAN, healthy |-> BOOLEAN,
    blocked |-> BOOLEAN, blackout |-> BOOLEAN, real |-> BOOLEAN,
    vol |-> {"EXTREME", "LOW", "HIGH", "NORMAL"}]

Fields == DOMAIN Values
Against == {"blocked", "blackout", "real"}
Given == {"bos", "target", "fresh", "killzone", "clear", "system", "calendar", "account",
          "stop", "sized", "proven", "rr"}
Calm == [EXTREME |-> 0, LOW |-> 1, HIGH |-> 2, NORMAL |-> 3]

Numbers == {"htf", "mss", "recency", "sweep", "zone", "support", "place", "macro", "hint",
            "dollar", "session", "regime", "spread", "news", "prob"}

WorseGrade(k, a, b) ==
    /\ k \in Against => a /\ ~b
    /\ k \in Given => ~a /\ b
    /\ k = "vol" => Calm[a] < Calm[b]
    /\ k \in Numbers => a < b

\* Grades are listed worst first.  A model that is not healthy has no opinion, which
\* is neither better nor worse than one: its health does not vary.
ASSUME JudgeAssumption ==
    /\ HintShare \in Nat
    /\ VariedFields \subseteq Fields \ {"healthy"}
    /\ DOMAIN BaseEvidence = Fields /\ \A k \in Fields : BaseEvidence[k] \in Values[k]
    /\ \A k \in VariedFields :
         LET grades == EvidenceGrades[k]
         IN  /\ \E i \in DOMAIN grades : grades[i] = BaseEvidence[k]
             /\ \A i \in DOMAIN grades : i \in Int /\ grades[i] \in Values[k]
             /\ \A i, j \in DOMAIN grades : i < j => WorseGrade(k, grades[i], grades[j])

VARIABLES
    bars, due, chart,                                             \* Structure
    lbars, ldue, sweeps, scale,                                   \* Liquidity
    tape, samples,                                                \* Learning
    asked, start, windows, tried, results,                        \* WalkForward
    f,                                                            \* Confluence
    mid, positions, balance, booked, index, phase, tradesToday, openTags, flattered \* Backtest

-----------------------------------------------------------------------------
Chart == INSTANCE Structure WITH
    Lookback <- ChartLookback, MinLeg <- LeastLeg, BosDisp <- BreakBeyond, MssDisp <- ShiftBeyond,
    MinGap <- LeastGap, MinBody <- LeastBody, MinBlock <- LeastBlock, MaxBack <- BlockReach,
    MaxTests <- BlockTests, Prices <- ChartPrices, Wicks <- ChartWicks, Atrs <- ChartAtrs,
    MaxBars <- ChartBars, Jumps <- Gapped, Still <- ChartStill

Pools == INSTANCE Liquidity WITH
    bars <- lbars, due <- ldue,
    Lookback <- ChartLookback, MinLeg <- LeastLeg, Atrs <- PoolAtrs, Prices <- PoolPrices,
    Wicks <- PoolWicks, MaxBars <- PoolBars, Jumps <- Gapped, Still <- PoolStill,
    Tol <- EqualWithin, Yesterday <- KnownDays, LastWeek <- KnownWeeks, Asia <- KnownAsia,
    MinPen <- LeastBeyond, MaxPen <- MostBeyond, MinReject <- LeastReject,
    MaxReject <- LatestReject, Window <- ScannedBars, MinBars <- FewestBars

Lessons == INSTANCE Learning WITH
    bars <- tape,
    Lookback <- ChartLookback, MinLeg <- LeastLeg, Atrs <- ChartAtrs, Prices <- LessonPrices,
    Wicks <- LessonWicks, MaxBars <- LessonBars, Jumps <- Gapped, Still <- LessonStill,
    Risk <- StopAway, TargetR <- TargetInRisks, Horizon <- LessonHorizon, Splits <- Folds,
    EmbargoPct <- EmbargoShare

Walk == INSTANCE WalkForward WITH
    Ratio <- HigherBar, Lengths <- HistoryLengths, Samples <- SampleBars, Tests <- TestBars,
    MaxWindows <- MostWindows

Replay == INSTANCE Backtest WITH
    close <- mid,
    Half <- HalfSpread, MaxSlip <- WorstSlip, Commission <- SideCost,
    Prices <- 1..TopPrice, MaxRange <- BarRange, Gaps <- Gapped, MinutesMissing <- Lacking,
    MaxBars <- ReplayedBars, Tags <- PlanTags, MaxConcurrent <- OpenLimit,
    MaxTrades <- DayLimit, MaxSlippage <- SlipLimit, MinRR <- LeastRR

Judge == INSTANCE Confluence WITH
    Grades <- EvidenceGrades, Baseline <- BaseEvidence, Varied <- VariedFields

chartVars == <<bars, due, chart>>
poolsVars == <<lbars, ldue, sweeps, scale>>
lessonVars == <<tape, samples>>
walkVars == <<asked, start, windows, tried, results>>
judgeVars == <<f>>
replayVars == <<mid, positions, balance, booked, index, phase, tradesToday, openTags, flattered>>

StudyInit ==
    /\ Chart!Init
    /\ Pools!LiquidityInit
    /\ Lessons!LearningInit
    /\ Walk!WalkInit
    /\ Judge!Init
    /\ Replay!Init

ChartMoves == Chart!Next /\ UNCHANGED <<poolsVars, lessonVars, walkVars, judgeVars, replayVars>>
PoolsMove == Pools!LiquidityNext /\ UNCHANGED <<chartVars, lessonVars, walkVars, judgeVars, replayVars>>
LessonsMove == Lessons!LearningNext /\ UNCHANGED <<chartVars, poolsVars, walkVars, judgeVars, replayVars>>
WalkMoves == Walk!WalkNext /\ UNCHANGED <<chartVars, poolsVars, lessonVars, judgeVars, replayVars>>
JudgeMoves == Judge!Next /\ UNCHANGED <<chartVars, poolsVars, lessonVars, walkVars, replayVars>>
ReplayMoves == Replay!Next /\ UNCHANGED <<chartVars, poolsVars, lessonVars, walkVars, judgeVars>>

StudyNext ==
    \/ ChartMoves
    \/ PoolsMove
    \/ LessonsMove
    \/ WalkMoves
    \/ JudgeMoves
    \/ ReplayMoves

studyVars == <<chartVars, poolsVars, lessonVars, walkVars, judgeVars, replayVars>>

StudySpec == StudyInit /\ [][StudyNext]_studyVars

-----------------------------------------------------------------------------
\* The structure turns in two steps, and one impulse makes one break.
StructureSound == Chart!TurnsInTwoSteps /\ Chart!NoCascade

\* A gap or a block that is used up stays so.
ZonesOnlyDecay == Chart!ZonesOnlyDecay

\* A sweep that was reported is not moved by a later analysis, as long as it is scanned
\* and its depth is one of a sweep by the ATR of both.
SweepStays == Pools!SweepStays

\* Nothing that a model is tested on leaks into what it is trained on, and a strategy is
\* judged by every bar after its first sample, by none twice but at a boundary.
LessonsSound == Lessons!NothingLeaks /\ Walk!JudgedOnce

\* Worse evidence never makes a better class of trade.
WorseNeverBetter == Judge!WorseNeverBetter

\* Evidence that is lost never makes one either.
MissingNeverHelps == Judge!MissingNeverHelps

\* The trades that a replay reports add up to its balance, and what is protected
\* cannot lose.
BooksBalance == Replay!BooksBalance /\ Replay!BreakEvenKept
=============================================================================
