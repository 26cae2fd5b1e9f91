-------------------------------- MODULE Scalp ---------------------------------
(***************************************************************************)
(* The scalp engine: five models read the market on M1 and M5 and propose  *)
(* signals; each is given a target that the higher timeframes may shorten, *)
(* is scored, costed, held against the positions that are open, and the    *)
(* first one approved is traded.                                           *)
(*                                                                         *)
(* Market says what a feature is; shares are rounded down, ages minutes.   *)
(***************************************************************************)
EXTENDS Market

CONSTANTS
    Models,        \* enabled_models
    RefusedLive,   \* models not validated, when the mode is real money
    MaxSpread, Slip, Commission,
    MinScore,
    Reach,         \* reachable_target_distance()
    Controlled,    \* is the regime controller switched on?
    SameDirectionCap, \* counted in scalps
    MaxConcurrent

ShiftWindow == 20
Unknown == 0           \* a spread that could not be read

Clamp(x) == IF x < 0 THEN 0 ELSE IF x > 100 THEN 100 ELSE x

HigherFrames == {"M15", "H1", "H4", "D1"}

-----------------------------------------------------------------------------
(* The features that a scan reads, by their kind.  Prices stay away from    *)
(* those that stand for none.                                              *)

Prices == (0 - 9000)..9000
Nearby == (0 - 9500)..9500
Stops == Nearby \cup {Naked}
Frames == {"M5"} \cup HigherFrames

SweepSights ==
    [kind : {"sweep"}, dir : Directions, pool : Prices, pen : Int, quality : Int, after : Int, age : Int]
ShiftSights == [kind : {"shift"}, dir : Directions, age : Int, size : Int]
BreakSights == [kind : {"bos"}, dir : Directions, price : Prices, age : Int, size : Int, body : Int]
ZoneSights ==
    [kind : {"gap", "block"}, tf : Frames, dir : Directions, top : Prices, bottom : Prices,
     tradable : BOOLEAN, size : Int]
LevelSights == [kind : {"level"}, tf : Frames, price : Prices, half : Int]
PoolSights == [kind : {"pool"}, tf : Frames, price : Prices, resting : BOOLEAN]
BiasSights == [kind : {"bias"}, tf : Frames, dir : Directions \cup {"none"}]
RangeSights == [kind : {"range"}, high : Int, low : Int]
PositionSights ==
    [kind : {"position"}, owner : {"aplus", "intraday", "scalp"}, dir : Directions, stop : Stops]

Sights ==
    SweepSights \cup ShiftSights \cup BreakSights \cup ZoneSights \cup LevelSights
    \cup PoolSights \cup BiasSights \cup RangeSights \cup PositionSights

\* The conditions of a snapshot.
Settings ==
    [enough : BOOLEAN, heat : Nat, adx : Int, lean : {1, -1}, slope : Int, spread : Nat,
     blocked : BOOLEAN, news : {"LOW", "MODERATE", "HIGH", "EXTREME"},
     session : {"OVERLAP", "LONDON", "NEW_YORK", "ASIA", "OFF"}, fast : Nat]

-----------------------------------------------------------------------------
(* The higher timeframes.                                                  *)

\* What a timeframe gives to a direction, in percent: an absent structure
\* gives half of what a neutral one does, a conflicting one nothing.
Agreement(m, d, tf) ==
    LET sides == {b.dir : b \in {x \in Kind(m, "bias") : x.tf = tf}}
    IN IF sides = {} THEN 25
       ELSE IF sides = {d} THEN 100
       ELSE IF sides = {"none"} THEN 50 ELSE 0

Alignment(m, d) ==
    (35 * Agreement(m, d, "M15") + 30 * Agreement(m, d, "H1") + 25 * Agreement(m, d, "H4")
       + 10 * Agreement(m, d, "D1")) \div 100

Near(price, zone) ==
    \/ zone.bottom <= price /\ price <= zone.top
    \/ AbsOf(price - zone.top) <= ATR \div 2
    \/ AbsOf(price - zone.bottom) <= ATR \div 2

Supports(d, entry, level) ==
    /\ AbsOf(level.price - entry) <= ATR \div 2 \/ AbsOf(level.price - entry) <= level.half
    /\ IF d = "LONG" THEN level.price <= entry ELSE level.price >= entry

\* Half of the dealing range: discount for a long, premium for a short.
GoodHalf(d, entry, range) ==
    IF d = "LONG" THEN 2 * entry <= range.low + range.high
                  ELSE 2 * entry >= range.low + range.high

HigherZones(m, k) == {z \in Kind(m, k) : z.tf \in HigherFrames /\ z.tradable}

\* The entry stands on a gap, a block, a level, in its half of the range.
Confluence(m, d, entry) ==
    LET hits == {k \in {"gap", "block"} : \E z \in HigherZones(m, k) : z.dir = d /\ Near(entry, z)}
                \cup {k \in {"level"} : \E l \in Kind(m, k) : l.tf \in HigherFrames /\ Supports(d, entry, l)}
                \cup {k \in {"range"} : \E r \in Kind(m, k) : GoodHalf(d, entry, r)}
    IN 25 * Cardinality(hits)

HtfFactor(m, d, entry) == (65 * Alignment(m, d) + 35 * Confluence(m, d, entry)) \div 100

\* The near edges of what lies ahead on the higher timeframes.
HigherWalls(m, d, entry) ==
    LET levels == {IF d = "LONG" THEN l.price - l.half ELSE l.price + l.half :
                     l \in {x \in Kind(m, "level") : x.tf \in HigherFrames}}
        pools == {p.price : p \in {x \in Kind(m, "pool") : x.tf \in HigherFrames /\ x.resting}}
        zones == {IF d = "LONG" THEN z.bottom ELSE z.top :
                    z \in {x \in HigherZones(m, "gap") \cup HigherZones(m, "block") : x.dir # d}}
    IN {p \in levels \cup pools \cup zones : IF d = "LONG" THEN p > entry ELSE p < entry}

-----------------------------------------------------------------------------
(* The target.                                                             *)

Walls(m, d, entry) ==
    {p.price : p \in {x \in Kind(m, "pool") : x.tf = "M5" /\ x.resting}}
    \cup {l.price : l \in Kind(m, "level")}
    \cup HigherWalls(m, d, entry)

\* 1.5 R, or what the holding window can reach; pulled in to the nearest wall
\* that leaves at least 0.75 R.
Target(entry, stop, d, walls) ==
    LET risk == AbsOf(entry - stop)
        wanted == IF Reach < (3 * risk) \div 2 THEN Reach ELSE (3 * risk) \div 2
        ideal == IF d = "LONG" THEN entry + wanted ELSE entry - wanted
        ahead == IF d = "LONG"
                 THEN {w \in walls : 4 * (w - entry) >= 3 * risk /\ w <= ideal}
                 ELSE {w \in walls : 4 * (entry - w) >= 3 * risk /\ w >= ideal}
    IN IF ahead = {} THEN ideal ELSE IF d = "LONG" THEN Min(ahead) ELSE Max(ahead)

\* _Base._finish(): nothing when the stop is too tight, too wide or on the
\* wrong side.  The parts are the soft factors that only the model knows.
Finish(m, model, d, entry, stop, ref, parts) ==
    LET risk == AbsOf(entry - stop)
        target == Target(entry, stop, d, Walls(m, d, entry))
        usable == /\ 5 * risk >= 4 * ATR /\ 2 * risk <= 7 * ATR
                  /\ IF d = "LONG" THEN stop < entry ELSE stop > entry
                  /\ target # entry
    IN {[model |-> model, dir |-> d, entry |-> entry, stop |-> stop, target |-> target,
         ref |-> ref, parts |-> parts, htf |-> HtfFactor(m, d, entry)] : x \in {y \in {0} : usable}}

-----------------------------------------------------------------------------
(* The models.  One that finds several equal candidates takes either.      *)

Parts(structure, liquidity, momentum, location) ==
    [structure |-> Clamp(structure), liquidity |-> Clamp(liquidity),
     momentum |-> Clamp(momentum), location |-> Clamp(location)]

\* MicroSnapshot.recent_shift(): the latest in this direction.
RecentShift(m, d) ==
    LET shifts == {s \in Facing(m, "shift", d) : s.age <= ShiftWindow}
    IN {s \in shifts : \A t \in shifts : s.age <= t.age}

Sweeping(m, d) ==
    LET fresh == {s \in Facing(m, "sweep", d) : s.age <= ShiftWindow /\ s.quality >= 35}
        best == {s \in fresh : \A t \in fresh : t.quality <= s.quality}
        extreme(s) == IF d = "LONG" THEN s.pool - s.pen ELSE s.pool + s.pen
        stop(s) == IF d = "LONG" THEN extreme(s) - ATR \div 4 ELSE extreme(s) + ATR \div 4
    IN UNION {UNION {Finish(m, "sweep_reversal", d, 0, stop(s), s.pool,
                            Parts((100 * t.size) \div 150, s.quality, s.after,
                                  100 - (100 * AbsOf(s.pool)) \div (2 * ATR))) :
                       t \in {u \in RecentShift(m, d) : u.age <= s.age}} : s \in best}

\* The edge that price meets first is the entry, the stop is beyond the other.
ZoneEntry(d, z) == IF d = "LONG" THEN z.top ELSE z.bottom

\* Mutation: the buffer of a short has the sign of a long's.
ZoneStop_Signed(d, z) == IF d = "LONG" THEN z.bottom - (3 * ATR) \div 10 ELSE z.top - (3 * ATR) \div 10

ZoneStop(d, z) == IF d = "LONG" THEN z.bottom - (3 * ATR) \div 10 ELSE z.top + (3 * ATR) \div 10

\* The nearest tradable zone of M5, if it is within 1.5 ATR.
NearestZone(m, k, d) ==
    LET zones == {z \in Facing(m, k, d) : z.tf = "M5" /\ z.tradable}
        middle(z) == AbsOf(z.top + z.bottom)
    IN {z \in zones : middle(z) <= 3 * ATR /\ \A y \in zones : middle(z) <= middle(y)}

ZoneLocation(d, z) == 100 - (100 * AbsOf(ZoneEntry(d, z))) \div ((3 * ATR) \div 2)

Retracing(m, d) ==
    UNION {Finish(m, "fvg_retracement", d, ZoneEntry(d, z), ZoneStop(d, z), NoPrice,
                  Parts(IF RecentShift(m, d) # {} THEN 100 ELSE 50, 40, z.size \div 2,
                        ZoneLocation(d, z))) : z \in NearestZone(m, "gap", d)}

Reacting(m, d) ==
    UNION {Finish(m, "ob_reaction", d, ZoneEntry(d, z), ZoneStop(d, z), NoPrice,
                  Parts((100 * z.size) \div 150, 45, 50, ZoneLocation(d, z))) :
             z \in NearestZone(m, "block", d)}

Retesting(m, d) ==
    UNION {Finish(m, "breakout_retest", d, 0,
                  IF d = "LONG" THEN b.price - (7 * ATR) \div 20 ELSE b.price + (7 * ATR) \div 20,
                  b.price,
                  Parts((100 * b.size) \div 150, 35, b.body,
                        100 - (100 * AbsOf(b.price)) \div (ATR \div 2))) :
             b \in {c \in Latest({x \in Facing(m, "bos", d) : x.age <= ShiftWindow}) :
                      AbsOf(c.price) <= ATR \div 2}}

Continuing(m, d, c) ==
    UNION {UNION {Finish(m, "momentum_continuation", d, 0,
                         IF d = "LONG" THEN b.price - (3 * ATR) \div 10
                                       ELSE b.price + (3 * ATR) \div 10,
                         b.price,
                         Parts((100 * b.size) \div 150, 30, (100 * t.size) \div 120,
                               100 - (100 * AbsOf(b.price)) \div ((5 * ATR) \div 2))) :
                    t \in RecentShift(m, d)} :
             b \in {e \in Latest(Kind(m, "bos")) :
                      /\ e.dir = d
                      /\ Regime(c) = IF d = "LONG" THEN "STRONG_BULL" ELSE "STRONG_BEAR"}}

Signals(m, c) ==
    {s \in UNION {Sweeping(m, d) \cup Retracing(m, d) \cup Reacting(m, d)
                  \cup Retesting(m, d) \cup Continuing(m, d, c) : d \in Directions} :
       s.model \in Models}

-----------------------------------------------------------------------------
(* The score.                                                              *)

SessionFactor(session) ==
    CASE session = "OVERLAP" -> 100 [] session = "LONDON" -> 90 [] session = "NEW_YORK" -> 85
      [] session = "ASIA" -> 40 [] session = "OFF" -> 20

\* MODERATE is not in the table, and has what a missing entry has.
NewsFactor(news) ==
    CASE news = "LOW" -> 90 [] news = "MODERATE" -> 50 [] news = "HIGH" -> 25
      [] news = "EXTREME" -> 0

\* The ratio of the ATR of M1 to that of M5.
VolatilityFactor(fast) ==
    LET ratio == (100 * fast) \div ATR
    IN IF ratio < 20 \/ ratio > 90 THEN 20 ELSE Clamp(100 - (100 * AbsOf(ratio - 45)) \div 45)

\* The macro state has no dxy_bias: the dollar counts as unknown, always.
DxyFactor == 40

Score(s, c) ==
    20 * s.parts.structure + 18 * s.parts.liquidity + 13 * s.parts.momentum
    + 15 * s.parts.location + 9 * VolatilityFactor(c.fast) + 4 * SessionFactor(c.session)
    + 4 * DxyFactor + 5 * NewsFactor(c.news) + 12 * s.htf

-----------------------------------------------------------------------------
(* What the signal costs.                                                  *)

\* Mutation: an unknown spread is none.
SpreadOf_Zero(spread) == spread

\* A spread that could not be read is the largest allowed.
SpreadOf(spread) == IF spread = Unknown THEN MaxSpread ELSE spread

CostOnWin(spread) == SpreadOf(spread) + Slip + Commission
CostOnLoss(spread) == CostOnWin(spread) + Slip

Risk(s) == AbsOf(s.entry - s.stop)
Reward(s) == AbsOf(s.target - s.entry)

\* Costs take at most 35% of the risk; at 55% wins at least 0.05 R remains,
\* which is a net reward of 0.909 of the net risk.
Affordable(s, spread) ==
    /\ 100 * CostOnLoss(spread) <= 35 * Risk(s)
    /\ 55 * (Reward(s) - CostOnWin(spread)) >= 50 * (Risk(s) + CostOnLoss(spread))

-----------------------------------------------------------------------------
(* The positions that are open.                                            *)

\* _scalp_exposures(): nothing tracks what a position was opened on, so no
\* exposure has a model or a pool.
Exposures(m) == {[dir |-> p.dir, stop |-> p.stop, model |-> "", ref |-> NoPrice] :
                   p \in Kind(m, "position")}

\* evaluate_correlation(): the share of one direction, the zone of the stop,
\* the pool, and the burst of one model.
Uncorrelated(s, m) ==
    /\ Cardinality({p \in Kind(m, "position") : p.dir = s.dir}) + 1 <= SameDirectionCap
    /\ \A x \in Exposures(m) :
         /\ AbsOf(x.stop - s.stop) > ATR
         /\ x.ref = NoPrice \/ s.ref = NoPrice \/ 4 * AbsOf(x.ref - s.ref) > ATR
         /\ x.model # s.model

\* risk.no_stacking of the RiskGate, whose other checks are of module Risk.
Tolerated(s, m) ==
    \A p \in Kind(m, "position") : p.owner = "intraday" /\ p.dir = s.dir

\* ScalpPipeline._evaluate().
Approved(s, m, c) ==
    /\ s.model \notin RefusedLive
    /\ Score(s, c) >= 100 * MinScore
    /\ 100 * Reward(s) >= 125 * Risk(s)
    /\ Affordable(s, c.spread)
    /\ Uncorrelated(s, m)
    /\ Tolerated(s, m)

-----------------------------------------------------------------------------
(* The scan.                                                               *)

Usable(c) == c.fast > 0

\* MarketRegimeController.evaluate(): a blackout or a dead market forbids scalps,
\* as a wide spread and news do.
ScalpAllowed(c) == ~c.blocked /\ c.spread <= 3 * MedianSpread /\ c.news \in {"LOW", "MODERATE"}

\* The exposure of a position without a stop reads a field that positions do
\* not have: the scan raises until the position has one.
Raises(m) == \E p \in Kind(m, "position") : p.stop = Naked

Order == <<"sweep_reversal", "fvg_retracement", "ob_reaction", "breakout_retest",
           "momentum_continuation">>

Rank(s) == 2 * (CHOOSE i \in DOMAIN Order : Order[i] = s.model) + (IF s.dir = "LONG" THEN 0 ELSE 1)

Approvals(m, c) == {s \in Signals(m, c) : Approved(s, m, c)}

\* The first signal approved, in the order of the models, a long before a short.
Executable(m, c) ==
    LET approved == Approvals(m, c)
    IN {s \in approved : \A t \in approved : Rank(s) <= Rank(t)}

Own(m) == {p \in Kind(m, "position") : p.owner = "scalp"}

Scan ==
    /\ Controlled => ScalpAllowed(conditions)
    /\ Usable(conditions)
    /\ ~Raises(market)
    /\ Cardinality(Own(market)) < MaxConcurrent
    /\ Cardinality(market) < MaxFeatures
    /\ \E s \in Executable(market, conditions) :
         market' = market \cup {[kind |-> "position", owner |-> "scalp",
                                 dir |-> s.dir, stop |-> s.stop]}
    /\ UNCHANGED conditions

ScalpNext == Scan \/ Appears \/ Vanishes

ScalpSpec == MarketInit /\ [][ScalpNext]_marketVars

-----------------------------------------------------------------------------
(* Properties                                                              *)

\* Neither side is favoured: the market upside down gives the same signals
\* upside down, with the same stops, targets, scores and verdicts.  Every
\* model, the walls and the budgets are written twice, for a long and a short.
ScalpMirror ==
    LET flipped == Mirrored(market)
        turned == MirrorConditions(conditions)
    IN /\ Signals(flipped, turned) = Mirrored(Signals(market, conditions))
       /\ Approvals(flipped, turned) = Mirrored(Approvals(market, conditions))

Same(s, t) == /\ s.model = t.model /\ s.dir = t.dir /\ s.entry = t.entry /\ s.stop = t.stop

IsWall(f) == f.kind = "level" \/ f.kind = "pool" \/ (f.kind \in {"gap", "block"} /\ f.tf # "M5")

\* A level, a pool or a zone of a higher timeframe may shorten a target, never
\* lengthen it; and a pool that has been swept is no wall at all.
WallsOnlyShorten ==
    \A f \in {x \in market : IsWall(x)} :
        \A s \in Signals(market, conditions) :
            \E t \in Signals(market \ {f}, conditions) :
                /\ Same(s, t)
                /\ Reward(s) <= Reward(t)
                /\ f.kind = "pool" /\ ~f.resting => Reward(s) = Reward(t)

\* What is worse never turns a refusal into a trade: a wider spread, or one that
\* cannot be read, even if it changes the regime; a wilder market; more risk of
\* news; one more open position.
Worse(c) ==
    {[c EXCEPT !.spread = w] : w \in {Unknown} \cup (IF c.spread = Unknown THEN {} ELSE c.spread..MaxSpread)}
    \cup {[c EXCEPT !.heat = 400]}
    \cup {[c EXCEPT !.news = n] : n \in IF c.news \in {"LOW", "MODERATE"} THEN {"HIGH", "EXTREME"} ELSE {}}

WorseNeverApproves ==
    LET trades == Approvals(market, conditions) IN
    /\ \A c \in Worse(conditions) : Approvals(market, c) \subseteq trades
    /\ \A p \in Kind(Features, "position") :
         p.stop # Naked /\ ~Raises(market) => Approvals(market \cup {p}, conditions) \subseteq trades

\* "Nothing here can lift the factor by going missing."
MissingNeverLifts ==
    \A b \in Kind(market, "bias") : \A d \in Directions :
        Alignment(market \ {b}, d) <= Alignment(market, d)
=============================================================================
