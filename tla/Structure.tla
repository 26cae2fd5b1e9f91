------------------------------ MODULE Structure ------------------------------
(***************************************************************************)
(* What the chart says: breaks of structure and the bias of                *)
(* core/structure.py, the gaps of core/fair_value_gap.py and the order     *)
(* blocks of core/order_blocks.py.  Each analysis starts again from the    *)
(* bars; nothing else is remembered.                                       *)
(***************************************************************************)
EXTENDS Bars

CONSTANTS
    BosDisp, MssDisp, \* how far beyond the swing a break, and a shift, must close
    MinGap,      \* the least size of a gap
    MinBody,     \* the least body of the bar that leaves it
    MinBlock,    \* the least displacement of a break that makes a block
    MaxBack,     \* how many bars back its candle may lie
    MaxTests     \* tests after which a block is stale

VARIABLES
    due,   \* has the last bar still to be analysed?
    chart  \* what the last analysis said: [bias, events, gaps, blocks]

vars == <<bars, due, chart>>

-----------------------------------------------------------------------------
(* StructureEngine.detect_events(): the walk from the first bar to the     *)
(* last, with the swings that the whole series has.                        *)

\* active: [Dirs -> the swings, by index, that are not broken].
WalkStart == [bias |-> 0, active |-> [d \in Dirs |-> {}], events |-> <<>>]

Confirmed(swings, d, k) == {s.at : s \in {t \in swings : t.dir = d /\ t.at + Lookback = k}}

Breaks(active, atr, d, k) ==
    active[d] # {} /\ Close(d, k) - Tip(d, Max(active[d])) >= BosDisp * atr

\* All swings that lie behind the close, back to the first that does not, are taken.
Unbroken(active, d, k) ==
    {i \in active[d] : \E j \in active[d] : j >= i /\ Tip(d, j) > Close(d, k)}

\* Mutation: without a bias, too, a break is a change of character.
KindOfBreak_Neutral(bias, disp, atr, d) ==
    IF bias = d THEN "BOS" ELSE IF disp >= MssDisp * atr THEN "MSS" ELSE "CHOCH"

KindOfBreak(bias, disp, atr, d) ==
    IF bias # -d THEN "BOS" ELSE IF disp >= MssDisp * atr THEN "MSS" ELSE "CHOCH"

BiasAfter(kind, d) == IF kind = "BOS" THEN d ELSE 0

Broken(w, active, atr, d, k) ==
    LET ref == Max(active[d])
        disp == Close(d, k) - Tip(d, ref)
        kind == KindOfBreak(w.bias, disp, atr, d)
        event == [at |-> k, kind |-> kind, dir |-> d, ref |-> ref, wide |-> disp >= MinBlock * atr]
    IN [bias |-> BiasAfter(kind, d),
        active |-> [active EXCEPT ![d] = Unbroken(active, d, k)],
        events |-> Append(w.events, event)]

WalkStep(w, swings, atr, k) ==
    LET active == [d \in Dirs |-> w.active[d] \cup Confirmed(swings, d, k)]
    IN IF ~Solid(k) THEN [w EXCEPT !.active = active]
       ELSE IF Breaks(active, atr, 1, k) THEN Broken(w, active, atr, 1, k)
       ELSE IF Breaks(active, atr, -1, k) THEN Broken(w, active, atr, -1, k)
       ELSE [w EXCEPT !.active = active]

Events(swings, atr) ==
    LET walk[k \in 0..Len(bars)] == IF k = 0 THEN WalkStart ELSE WalkStep(walk[k - 1], swings, atr, k)
    IN walk[Len(bars)].events

-----------------------------------------------------------------------------
(* StructureEngine.bias_from().                                            *)

Rising(swings, d) ==
    LET s == {t.at : t \in {u \in swings : u.dir = d}}
    IN Tip(d, Max(s)) - Tip(d, Max(s \ {Max(s)}))

Bias(swings, events) ==
    LET higher == Rising(swings, 1)
        lower == Rising(swings, -1)
    IN IF \E d \in Dirs : Cardinality({s \in swings : s.dir = d}) < 2 THEN 0
       ELSE IF events # <<>> THEN
           IF events[Len(events)].kind = "BOS" THEN events[Len(events)].dir ELSE 0
       ELSE IF higher > 0 /\ lower < 0 THEN 1
       ELSE IF higher < 0 /\ lower > 0 THEN -1 ELSE 0

-----------------------------------------------------------------------------
(* FVGEngine.detect() and _lifecycle().  far and near are the edges of the *)
(* gap as a trade in its direction meets them, coming back.                *)

GapAt(d, i) == [at |-> i, dir |-> d, far |-> Tip(d, i - 1), near |-> -Tip(-d, i + 1)]

IsGap(d, atr, i) ==
    /\ i - 1 \in Indices /\ i + 1 \in Indices
    /\ GapAt(d, i).near - GapAt(d, i).far >= MinGap * atr
    /\ Body(i) >= MinBody * atr

Gaps(atr) == UNION {{GapAt(d, i) : i \in {k \in Indices : IsGap(d, atr, k)}} : d \in Dirs}

\* Bar j is in the gap.
Touches(g, j) == Tip(g.dir, j) >= g.far /\ -Tip(-g.dir, j) <= g.near

\* Mutation: only the last bar is looked at.
Touching_Last(g) == {j \in {Len(bars)} : j >= g.at + 2 /\ Touches(g, j)}

Touching(g) == {j \in g.at + 2..Len(bars) : Touches(g, j)}

Fill(g, touching) == Max({0} \cup {g.near - Max({-Tip(-g.dir, j), g.far}) : j \in touching})

GapState(g) ==
    LET touching == Touching(g)
        fill == Fill(g, touching)
    IN IF \E j \in touching : Close(g.dir, j) < g.far THEN "INVERTED"
       ELSE IF fill = g.near - g.far THEN "INVALIDATED"
       ELSE IF 2 * fill >= g.near - g.far THEN "MITIGATED"
       ELSE IF fill > 0 THEN "PARTIAL" ELSE "UNMITIGATED"

-----------------------------------------------------------------------------
(* OrderBlockEngine.detect() and _lifecycle().                             *)

\* The last candle against the break, from the break backwards.
Opposing(d, k) ==
    {i \in Indices : k - MaxBack <= i /\ i <= k
                     /\ IF d = 1 THEN bars[i].c < bars[i].o ELSE bars[i].c >= bars[i].o}

Block(d, i) == [at |-> i, dir |-> d, top |-> bars[i].h, bottom |-> bars[i].l]

\* Of blocks with the same midpoint the earliest is kept.
Blocks(events) ==
    LET of == {events[n] : n \in {m \in 1..Len(events) : events[m].wide}}
        all == {Block(e.dir, Max(Opposing(e.dir, e.at))) : e \in {x \in of : Opposing(x.dir, x.at) # {}}}
        Same(b, a) == a.dir = b.dir /\ a.top + a.bottom = b.top + b.bottom
    IN {b \in all : \A a \in all : Same(b, a) => b.at <= a.at}

Tests(b) == {j \in b.at + 1..Len(bars) : bars[j].h >= b.bottom /\ bars[j].l <= b.top}

Failed(b) ==
    \E j \in b.at + 1..Len(bars) : IF b.dir = 1 THEN bars[j].c < b.bottom ELSE bars[j].c > b.top

BlockState(b) ==
    IF Failed(b) THEN "INVALIDATED"
    ELSE IF Tests(b) = {} THEN "FRESH"
    ELSE IF Cardinality(Tests(b)) > MaxTests THEN "MITIGATED" ELSE "TESTED"

-----------------------------------------------------------------------------
(* The analysis.                                                           *)

Init ==
    /\ bars = <<>> /\ due = FALSE
    /\ chart = [bias |-> 0, events |-> <<>>, gaps |-> <<>>, blocks |-> <<>>]

BarCloses ==
    /\ ~due /\ due' = TRUE
    /\ NewBar
    /\ UNCHANGED chart

\* StructureEngine.analyze() and MarketAnalyzer._compute_zones().
Analyse ==
    /\ due /\ due' = FALSE
    /\ \E atr \in Atrs :
         LET swings == Structural(atr)
             events == Events(swings, atr)
         IN chart' = [bias |-> Bias(swings, events), events |-> events,
                      gaps |-> [g \in Gaps(atr) |-> GapState(g)],
                      blocks |-> [b \in Blocks(events) |-> BlockState(b)]]
    /\ UNCHANGED bars

Next == BarCloses \/ Analyse

Spec == Init /\ [][Next]_vars

-----------------------------------------------------------------------------
(* Properties                                                              *)

TypeOK ==
    /\ Len(bars) <= MaxBars /\ due \in BOOLEAN /\ chart.bias \in {-1, 0, 1}
    /\ \A n \in 1..Len(chart.events) : chart.events[n].kind \in {"BOS", "CHOCH", "MSS"}

\* The structure turns in two steps: a change of character answers the other
\* side's break of structure, so two changes never follow one another and none
\* comes first.
TurnsInTwoSteps ==
    \A n \in 1..Len(chart.events) :
        chart.events[n].kind # "BOS" =>
            /\ n > 1
            /\ chart.events[n - 1].kind = "BOS" /\ chart.events[n - 1].dir = -chart.events[n].dir

\* One impulse does not fire a cascade: a second break the same way takes a
\* swing that the first one had not already left behind.
NoCascade ==
    \A n \in 2..Len(chart.events) :
        LET e == chart.events[n - 1]
            f == chart.events[n]
        IN f.dir = e.dir => f.ref + Lookback > e.at \/ Tip(f.dir, f.ref) > Close(f.dir, e.at)

TradableStates == {"UNMITIGATED", "PARTIAL", "FRESH", "TESTED"}

Decays(zones, later) ==
    \A z \in DOMAIN zones \cap DOMAIN later : later[z] \in TradableStates => zones[z] \in TradableStates

\* Gaps and blocks only lose their worth: although each analysis starts again
\* from the bars, and finds another ATR, a zone that could not be traded on one
\* close cannot be traded on the next.
ZonesOnlyDecay == [][Decays(chart.gaps, chart'.gaps) /\ Decays(chart.blocks, chart'.blocks)]_vars

\* What the roadmap lists as done, objective and non-repainting detection: an
\* event that an analysis has found is found again by the next one.
EventsKept ==
    [][\A n \in 1..Len(chart.events) :
          \E m \in 1..Len(chart'.events) : chart'.events[m] = chart.events[n]]_vars
=============================================================================
