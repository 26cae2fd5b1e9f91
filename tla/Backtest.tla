------------------------------- MODULE Backtest -------------------------------
(***************************************************************************)
(* backtesting/engine.py: the replay of a history on the simulated broker. *)
(* Every bar is a step of the broker, then of the management of positions, *)
(* then a turn of each engine.  The bar's path within itself is a sequence *)
(* of minutes, of which the replay may or may not have the data.           *)
(***************************************************************************)
EXTENDS SimBroker, Sequences

CONSTANTS
    Prices,        \* 1..n
    MaxRange,      \* bound: the height of a bar
    Gaps,          \* TRUE: a bar may open away from the last close
    MinutesMissing,\* TRUE: the M1 data may lack some of a bar's minutes
    MaxBars,       \* bound: the bars replayed
    BarsPerDay,
    Tags,          \* the client tags of the plans
    MaxConcurrent, MaxTrades, MaxSlippage,
    MinRR,         \* [Engines -> min_rr_for]
    HoldLimit,     \* [Engines -> time_stop_bars_for, 0 is none]
    RUnit,         \* the R thresholds below are fractions of RUnit
    BreakEvenAt, BreakEvenOffset, TrailAt, TimeStopMin

Engines == {"", "scalp", "intraday"}

VARIABLES
    index,       \* the bars replayed so far
    phase,       \* what is next: a bar, the management, an engine, the end
    tradesToday, openTags,
    flattered    \* history: a stop may have come first and was not taken

vars == <<brokerVars, index, phase, tradesToday, openTags, flattered>>

Phases == {"bar", "manage", "main", "scalp", "intraday", "ended"}

-----------------------------------------------------------------------------
(* The history.                                                            *)

Bars == {b \in [low : Prices, high : Prices] : b.low <= b.high /\ b.high - b.low <= MaxRange}

Joined(a, b) == a.low <= b.high /\ b.low <= a.high

Whole(path) ==
    [low |-> Min({path[k].low : k \in DOMAIN path}),
     high |-> Max({path[k].high : k \in DOMAIN path})]

\* The minutes of a bar, in order.  Without gaps each starts where the last
\* one ended.
Paths ==
    LET firsts == {m \in Bars : Gaps \/ Touches(close, m)} IN
    {<<m>> : m \in firsts}
      \cup {s \in firsts \X Bars : (Gaps \/ Joined(s[1], s[2])) /\ Whole(s) \in Bars}

\* _m1_for(): the minutes for which there are data.
Known(path) ==
    {<<>>, path} \cup (IF MinutesMissing THEN {<<path[k]>> : k \in DOMAIN path} ELSE {})

\* A stop order is executed when the market trades at it or beyond it, a
\* limit likewise: on some path within the minutes the stop is the first.
StopReached(p, m) == IF p.dir = "LONG" THEN m.low <= p.sl ELSE m.high >= p.sl
TargetReached(p, m) == IF p.dir = "LONG" THEN m.high >= p.tp ELSE m.low <= p.tp

MayBeStopped(p, path) ==
    \E k \in DOMAIN path :
        StopReached(p, path[k]) /\ \A j \in 1..k - 1 : ~TargetReached(p, path[j])

\* 1) set_time() and step_bar(); a new day resets the counter.
Advance ==
    /\ phase = "bar" /\ index < MaxBars
    /\ \E path \in Paths :
       \E c \in path[Len(path)].low..path[Len(path)].high, m1 \in Known(path) :
          LET b == [low |-> Whole(path).low, high |-> Whole(path).high, close |-> c] IN
          /\ StepBar(b, m1)
          /\ flattered' = (flattered \/ \E p \in positions :
                             MayBeStopped(p, path) /\ Outcome(p, b, m1) # "SL")
    /\ index' = index + 1
    /\ tradesToday' = IF index % BarsPerDay = 0 THEN 0 ELSE tradesToday
    /\ phase' = "manage"
    /\ UNCHANGED openTags

-----------------------------------------------------------------------------
(* _manage().                                                              *)

Risk(p) == Distance(p.entry, p.sl)

\* r_now >= r, where R is the distance of the present stop.
AtR(p, r) == Risk(p) > 0 /\ Gain(p, p.entry, close) * RUnit >= r * Risk(p)

TimeStopped(p) ==
    /\ Risk(p) > 0 /\ HoldLimit[p.engine] > 0 /\ p.held >= HoldLimit[p.engine]
    /\ ~AtR(p, TimeStopMin)

Better(p, a, b) == IF Gain(p, a, b) > 0 THEN b ELSE a

BreakEven(p) == p.entry + ((BreakEvenOffset * Risk(p)) \div RUnit) * Sign(p)

NewStop(p) ==
    LET be == IF AtR(p, BreakEvenAt) THEN Better(p, p.sl, BreakEven(p)) ELSE p.sl IN
    IF AtR(p, TrailAt) THEN Better(p, be, close - Risk(p) * Sign(p)) ELSE be

Managed(p) ==
    [p EXCEPT !.sl = IF NewStop(p) # p.sl /\ Modifiable(NewStop(p)) THEN NewStop(p) ELSE @,
              !.reached = @ \/ AtR(p, BreakEvenAt)]

\* 2) Break-even, trail and time stop, for every position.
Manage ==
    /\ phase = "manage"
    /\ LET timed == {p \in positions : TimeStopped(p)} IN
       /\ positions' = {Managed(p) : p \in positions \ timed}
       /\ Settle(timed, [p \in timed |-> MarketExit(p)])
    /\ phase' = "main"
    /\ UNCHANGED <<close, index, tradesToday, openTags, flattered>>

-----------------------------------------------------------------------------
(* The engines' turns.                                                     *)

After(e) == CASE e = "" -> "scalp" [] e = "scalp" -> "intraday" [] e = "intraday" -> "bar"
Turn(e) == IF e = "" THEN "main" ELSE e

\* RiskGate's no_stacking: only another known engine's position in the same
\* direction is tolerated.
Tolerated(e, dir, q) == e # "" /\ q.engine \notin {"", e} /\ q.dir = dir

Admitted(e, dir) ==
    /\ Cardinality(positions) < MaxConcurrent
    /\ tradesToday < MaxTrades
    /\ \A q \in positions : Tolerated(e, dir, q)

\* _execute(): the plan is priced again at the quote.
WorthIt(p, e) ==
    LET now == EntryPrice(p) IN
    Gain(p, now, p.tp) >= MinRR[e] * Gain(p, p.sl, now)

\* The engine has an approved plan and the broker fills it.
Enter(e) ==
    /\ phase = Turn(e)
    /\ \E dir \in Directions, sl \in Prices, tp \in Prices, tag \in Tags \ openTags, slip \in 0..MaxSlip :
          LET plan == [engine |-> e, dir |-> dir, sl |-> sl, tp |-> tp, entry |-> close,
                       tag |-> tag, held |-> 0, reached |-> FALSE]
              fill == EntryPrice(plan) + slip * Sign(plan) IN
          /\ Admitted(e, dir)
          /\ Gain(plan, sl, close) > 0 /\ Gain(plan, fill, tp) > 0
          /\ WorthIt(plan, e)
          /\ Fillable(plan, fill, MaxSlippage)
          /\ Fill([plan EXCEPT !.entry = fill])
          /\ openTags' = openTags \cup {tag}
    /\ tradesToday' = tradesToday + 1
    /\ phase' = After(e)
    /\ UNCHANGED <<index, flattered>>

\* No candidate, a regime that forbids the engine, a refusal by a gate, by the
\* new price or by the broker.
Pass(e) ==
    /\ phase = Turn(e)
    /\ phase' = After(e)
    /\ UNCHANGED <<brokerVars, index, tradesToday, openTags, flattered>>

\* The history ends.
Finish ==
    /\ phase = "bar" /\ index = MaxBars
    /\ CloseAll
    /\ phase' = "ended"
    /\ UNCHANGED <<index, tradesToday, openTags, flattered>>

Init ==
    /\ close \in Prices /\ positions = {} /\ balance = 0 /\ booked = 0
    /\ index = 0 /\ phase = "bar" /\ tradesToday = 0 /\ openTags = {}
    /\ flattered = FALSE

Next == Advance \/ Manage \/ Finish \/ \E e \in Engines : Enter(e) \/ Pass(e)

Spec == Init /\ [][Next]_vars

-----------------------------------------------------------------------------
(* Properties                                                              *)

\* Types; one position per engine, and all in one direction.
TypeOK ==
    /\ close \in Prices /\ balance \in Int /\ booked \in Int
    /\ \A p \in positions :
          /\ p.engine \in Engines /\ p.dir \in Directions /\ p.tag \in openTags
          /\ {p.entry, p.sl, p.tp} \subseteq Int
          /\ p.held \in 0..MaxBars /\ p.reached \in BOOLEAN
    /\ \A p, q \in positions : p # q => p.engine # q.engine /\ p.dir = q.dir
    /\ index \in 0..MaxBars /\ phase \in Phases
    /\ tradesToday \in 0..MaxTrades /\ openTags \subseteq Tags /\ flattered \in BOOLEAN

\* The trades that are reported add up to the balance.
BooksBalance == TypeOK /\ balance = booked - Commission * Cardinality(positions)

\* A position that has closed a bar at break-even cannot lose at its stop.
BreakEvenKept == \A p \in positions : p.reached => Gain(p, p.entry, p.sl) >= 0

-----------------------------------------------------------------------------
(* What the code's texts say besides, and does not hold.                   *)

\* step_bar(): "when both SL and TP fall inside the same bar's range, resolve the LOSS
\* first unless M1 data proves otherwise", and "gaps get worse".  A position whose stop
\* may have been the first of its levels to be reached has been stopped.
NeverFlatters == ~flattered
=============================================================================
