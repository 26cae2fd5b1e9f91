---------------------------------- MODULE Desk ----------------------------------
(***************************************************************************)
(* What the engines read, judge it by and remember: the feed, the calendar, *)
(* the hours of the sessions, the stored history, the analyzer's cache, the *)
(* memory of the intraday engine, the scan for scalps, the plans of the     *)
(* setups and the jobs of the dashboard, each working beside the others.   *)
(* They share no state, so a step of one leaves the rest as it is.         *)
(***************************************************************************)
EXTENDS Integers, FiniteSets

CONSTANTS
    ClockAhead, BarLength, Count, MaxQuoteAge, MaxBarAge, Quarter, DayLength, MaxTrades, \* Feed
    MaxPause, FeedHorizon,
    Calendar, WindowBefore, WindowAfter, CalendarHour, Refreshed, Late, WorldHorizon,   \* Context
    AsiaStart, AsiaEnd, LondonStart, LondonEnd, NewYorkStart, NewYorkEnd,               \* Sessions
    TradedSessions, Weekdays, BlockFirst, BlockLast,
    Chunk, Wanted, HigherRatio, MaxBar,                           \* History
    MaxHistory, MaxJobs,                                          \* JobRunner
    Readers, Length, Lag, Start, CacheHorizon,                    \* AnalysisCache
    MaxAge, Controlled, FillRaises, MaxNow, MaxRestarts,          \* Intraday
    ScalpSights, MostSights, ScalpSettings, ScalpModels, RefusedLive, MaxSpread, SlipCost, \* Scalp
    CommissionCost, MinScore, Reach, SideCap, ScalpLimit, MedianSpread,
    SetupSights, MostSetupSights, SetupSettings, SetupStrategies  \* Setups

ASSUME FeedAssumption ==
    /\ ClockAhead \in Int
    /\ {Count, MaxQuoteAge, MaxBarAge, MaxTrades, MaxPause, FeedHorizon} \subseteq Nat
    /\ BarLength \in Nat \ {0} /\ Quarter \in Nat \ {0} /\ DayLength \in Nat \ {0}

\* The calendar is read from six hours back to twelve hours ahead; no window is
\* wider.
ASSUME WorldAssumption ==
    /\ {CalendarHour, Refreshed, Late, WorldHorizon} \subseteq Nat
    /\ \A e \in Calendar :
         /\ e.ts \in Int /\ e.relevance \in Int
         /\ WindowBefore[e.impact] \in 0..12 * CalendarHour
         /\ WindowAfter[e.impact] \in 0..6 * CalendarHour

\* Half hours of the day; the edges of the week are any.
ASSUME SessionAssumption ==
    /\ {AsiaStart, AsiaEnd, LondonStart, LondonEnd, NewYorkStart, NewYorkEnd} \subseteq 0..47
    /\ BlockFirst \in Nat /\ BlockLast \in Nat

ASSUME HistoryAssumption ==
    /\ {Chunk, MaxBar} \subseteq Nat /\ Wanted \subseteq Nat
    /\ HigherRatio \in Nat \ {0}

ASSUME JobsAssumption == MaxHistory \in Nat /\ MaxJobs \in Nat

\* Four quarters make an hour, and hours a day.
ASSUME CacheAssumption ==
    /\ \A s \in DOMAIN Length : Length[s] \in Nat \ {0}
    /\ {"M15", "H1", "H4", "D1"} \subseteq DOMAIN Length
    /\ "zones" \notin DOMAIN Length /\ "levels" \notin DOMAIN Length
    /\ \A s \in {"H1", "D1"} : \E n \in 1..Length[s] : Length[s] = n * Length["M15"]
    /\ {Lag, Start, CacheHorizon} \subseteq Nat

ASSUME IntradayAssumption ==
    /\ {MaxAge, MaxNow, MaxRestarts} \subseteq Nat
    /\ Controlled \in BOOLEAN /\ FillRaises \in BOOLEAN

VARIABLES
    now, ticks, offset, stale, day, trades, cycle,                \* Feed
    clock, context, read, sent,                                   \* Context
    halfHour, summer,                                             \* Sessions
    closed, stored, harvest,                                      \* History
    known, current, process, status, thread, child,               \* JobRunner
    key, time, entry, reader,                                     \* AnalysisCache
    close, pending, bos, mss, setup, held, taken, lost, restarts, \* Intraday
    market, conditions,                                           \* Scalp
    setupMarket, setupConditions                                  \* Setups

-----------------------------------------------------------------------------
Feed == INSTANCE Feed WITH Ahead <- ClockAhead, Horizon <- FeedHorizon

World == INSTANCE Context WITH
    Events <- Calendar, Before <- WindowBefore, After <- WindowAfter, Hour <- CalendarHour,
    now <- clock, cycle <- read, Horizon <- WorldHorizon

Hours == INSTANCE Sessions WITH now <- halfHour, Sessions <- TradedSessions

History == INSTANCE History WITH Ratio <- HigherRatio

Runner == INSTANCE JobRunner

Cache == INSTANCE AnalysisCache WITH Horizon <- CacheHorizon

Intraday == INSTANCE Intraday WITH now <- close, due <- pending, entries <- taken

Scalps == INSTANCE Scalp WITH
    Features <- ScalpSights, MaxFeatures <- MostSights, Conditions <- ScalpSettings, Models <- ScalpModels,
    Slip <- SlipCost, Commission <- CommissionCost, SameDirectionCap <- SideCap, MaxConcurrent <- ScalpLimit

\* The features and the conditions are such as a scan can read.
ASSUME ScalpAssumption ==
    /\ {MaxSpread, SlipCost, CommissionCost, MinScore, Reach, MedianSpread} \subseteq Nat
    /\ {MostSights, SideCap, ScalpLimit} \subseteq Nat
    /\ ScalpSights \subseteq Scalps!Sights /\ ScalpSettings \subseteq Scalps!Settings

Plans == INSTANCE Setups WITH
    market <- setupMarket, conditions <- setupConditions,
    Features <- SetupSights, MaxFeatures <- MostSetupSights, Conditions <- SetupSettings,
    Strategies <- SetupStrategies

\* So are those of the setups, and the events of one bar go one way: of the last
\* events of the structure there is one.
ASSUME SetupAssumption ==
    /\ MedianSpread \in Nat /\ MostSetupSights \in Nat
    /\ SetupSights \subseteq Plans!Sights /\ SetupSettings \subseteq Plans!Settings
    /\ \A x, y \in {z \in SetupSights : z.kind \in Plans!EventKinds} : x.age = y.age => x.dir = y.dir

-----------------------------------------------------------------------------
feedVars == <<now, ticks, offset, stale, day, trades, cycle>>
worldVars == <<clock, context, read, sent>>
hourVars == <<halfHour, summer>>
historyVars == <<closed, stored, harvest>>
jobsVars == <<known, current, process, status, thread, child>>
cacheVars == <<key, time, entry, reader>>
intradayVars == <<close, pending, bos, mss, setup, held, taken, lost, restarts>>
scalpVars == <<market, conditions>>
setupVars == <<setupMarket, setupConditions>>

deskVars ==
    <<feedVars, worldVars, hourVars, historyVars, jobsVars, cacheVars, intradayVars, scalpVars,
      setupVars>>

DeskInit ==
    /\ Feed!FeedInit
    /\ World!ContextInit
    /\ Hours!SessionsInit
    /\ History!HistoryInit
    /\ Runner!JobInit
    /\ Cache!CacheInit
    /\ Intraday!Init
    /\ Scalps!MarketInit
    /\ Plans!MarketInit

FeedMoves ==
    /\ Feed!FeedNext
    /\ UNCHANGED <<worldVars, hourVars, historyVars, jobsVars, cacheVars, intradayVars, scalpVars,
                   setupVars>>

WorldMoves ==
    /\ World!ContextNext
    /\ UNCHANGED <<feedVars, hourVars, historyVars, jobsVars, cacheVars, intradayVars, scalpVars,
                   setupVars>>

HoursMove ==
    /\ Hours!SessionsNext
    /\ UNCHANGED <<feedVars, worldVars, historyVars, jobsVars, cacheVars, intradayVars, scalpVars,
                   setupVars>>

HistoryMoves ==
    /\ History!HistoryNext
    /\ UNCHANGED <<feedVars, worldVars, hourVars, jobsVars, cacheVars, intradayVars, scalpVars,
                   setupVars>>

JobsMove ==
    /\ Runner!JobNext
    /\ UNCHANGED <<feedVars, worldVars, hourVars, historyVars, cacheVars, intradayVars, scalpVars,
                   setupVars>>

CacheMoves ==
    /\ Cache!CacheNext
    /\ UNCHANGED <<feedVars, worldVars, hourVars, historyVars, jobsVars, intradayVars, scalpVars,
                   setupVars>>

IntradayMoves ==
    /\ Intraday!Next
    /\ UNCHANGED <<feedVars, worldVars, hourVars, historyVars, jobsVars, cacheVars, scalpVars,
                   setupVars>>

ScalpsMove ==
    /\ Scalps!ScalpNext
    /\ UNCHANGED <<feedVars, worldVars, hourVars, historyVars, jobsVars, cacheVars, intradayVars,
                   setupVars>>

SetupsMove ==
    /\ Plans!SetupsNext
    /\ UNCHANGED <<feedVars, worldVars, hourVars, historyVars, jobsVars, cacheVars, intradayVars,
                   scalpVars>>

DeskNext ==
    \/ FeedMoves
    \/ WorldMoves
    \/ HoursMove
    \/ HistoryMoves
    \/ JobsMove
    \/ CacheMoves
    \/ IntradayMoves
    \/ ScalpsMove
    \/ SetupsMove

DeskSpec == DeskInit /\ [][DeskNext]_deskVars

-----------------------------------------------------------------------------
(* Properties: each is stated and explained in the module of its part.     *)

\* The memory of the intraday engine: an expansion is traded once unless it was
\* forgotten, and what is remembered of it is true.
TradedOnce == Intraday!OnceUnlessForgotten /\ Intraday!ConsumedMeansTraded

\* A live view is the end of the view that a replay has, and what is analysed of
\* it is not what another thread analysed of another.
LiveIsReplay == Feed!LiveIsReplay /\ Cache!AnalysisIsOwn

\* Orders are decided on the market as it is.
DecidedOnTheMarket == Feed!DecidedOnTheMarket

\* The range of a session is that of the session, in summer and in winter, and
\* nothing is entered at the edges of the week.
SessionsSound == Hours!RangeIsSession /\ Hours!EdgesQuiet

\* Only closed bars are stored, and a higher bar is made of all its base bars.
HistorySound == History!StoredIsFinal /\ History!HigherIsWhole

\* One job at a time, and nobody waits for one that nobody runs.
JobsSerialised == Runner!JobsSerialised

\* What lies ahead shortens a target, never lengthens it, and what is worse never
\* turns a refused scalp into a trade.  (Without features there is no signal.)
ScalpMonotone == market # {} => Scalps!WallsOnlyShorten /\ Scalps!WorseNeverApproves

\* Neither side of the market is favoured by a scalp model.
ScalpMirror == market # {} => Scalps!ScalpMirror

\* A strategy favours neither side of the market, and a plan rests on its own evidence.
PlansSound == setupMarket # {} => Plans!SetupMirror /\ Plans!OnOwnEvidence

\* No engine trades through a release.
QuietAtNews == World!QuietAtNews
=============================================================================
