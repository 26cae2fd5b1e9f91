-------------------------------- MODULE Setups --------------------------------
(***************************************************************************)
(* The four strategies of strategy/setups/ and the targets of              *)
(* strategy/base.py: what plans they make of a market.  Module Confluence  *)
(* says which of them are traded.  An age is in bars of M15.               *)
(*                                                                         *)
(* Where a strategy finds several equally good candidates, each gives a    *)
(* plan here; the code takes the one that its lists have first.            *)
(*                                                                         *)
(* The range of Asia is known in London only if the session does not cross *)
(* midnight of UTC: module Sessions shows that with the hours of the       *)
(* repository it is not.  The features here are those of other hours.      *)
(***************************************************************************)
EXTENDS Market

CONSTANT Strategies  \* enabled_strategies

-----------------------------------------------------------------------------
(* The features that a strategy reads, by their kind.  Prices stay away     *)
(* from those that stand for none, and the edges of a zone are even: its    *)
(* middle is a price.                                                      *)

Prices == (0 - 9000)..9000
Edges == {2 * k : k \in (0 - 4500)..4500}
Nearby == (0 - 9500)..9500
Depths == 0..400
Frames == {"M15", "H1", "H4", "D1", "W1", "MN1"}

SweepSights ==
    [kind : {"sweep"}, dir : Directions, pool : Prices, pen : Depths, quality : Int, after : Int,
     age : Int, period : BOOLEAN, closed : BOOLEAN]
EventKinds == {"mss", "bos", "choch"}
EventSights == [kind : EventKinds, dir : Directions, age : Int]
GapSights ==
    [kind : {"gap"}, dir : Directions, top : Edges, bottom : Edges, size : Int, age : Int,
     tradable : BOOLEAN]
BlockSights ==
    [kind : {"block"}, dir : Directions, top : Edges, bottom : Edges, size : Int, caused : BOOLEAN,
     breaker : BOOLEAN, tradable : BOOLEAN]
LevelSights == [kind : {"level"}, price : Prices, weight : Int]
PoolSights == [kind : {"pool"}, price : Prices, resting : BOOLEAN]
RangeSights == [kind : {"range", "asia"}, high : Prices, low : Prices]
BiasSights == [kind : {"bias"}, tf : Frames, dir : Directions \cup {"none"}]

Sights ==
    SweepSights \cup EventSights \cup GapSights \cup BlockSights \cup LevelSights \cup PoolSights
    \cup RangeSights \cup BiasSights

\* The conditions of a snapshot.
Settings ==
    [enough : BOOLEAN, heat : Nat, adx : Int, lean : {1, -1}, slope : Int, spread : Nat,
     session : {"OVERLAP", "LONDON", "NEW_YORK", "ASIA", "OFF"}, minutes : Nat]

-----------------------------------------------------------------------------
(* The targets and the stop: strategy/base.py.                             *)

Ahead(d, entry, p) == IF d = "LONG" THEN p > entry ELSE p < entry

Away(p, entry) == AbsOf(p - entry)

Blocked(m, d, entry, p) ==
    \E l \in Kind(m, "level") :
        l.weight >= 45 /\ Ahead(d, entry, l.price) /\ Away(l.price, entry) < Away(p, entry)

Candidates(m) ==
    {p.price : p \in {x \in Kind(m, "pool") : x.resting}}
    \cup {l.price : l \in {x \in Kind(m, "level") : x.weight >= 25}}

\* At least 2 R away, and nothing significant before it.
Viable(m, d, entry, stop) ==
    {p \in Candidates(m) :
        /\ Ahead(d, entry, p)
        /\ Away(p, entry) >= 2 * Away(stop, entry)
        /\ ~Blocked(m, d, entry, p)}

Nearest(prices, entry) == {p \in prices : \A q \in prices : Away(p, entry) <= Away(q, entry)}
Furthest(prices, entry) == {p \in prices : \A q \in prices : Away(p, entry) >= Away(q, entry)}

\* The nearest of those at 3 R or more, else the furthest; the first target is
\* the nearest of all.  Nothing when none is viable.
Targets(m, d, entry, stop) ==
    LET viable == Viable(m, d, entry, stop)
        preferred == {p \in viable : Away(p, entry) >= 3 * Away(stop, entry)}
        chosen == IF preferred # {} THEN Nearest(preferred, entry) ELSE Furthest(viable, entry)
    IN {[first |-> f, target |-> t] : f \in Nearest(viable, entry), t \in chosen}

\* Mutation: the buffer of a short has the sign of a long's.
StructuralStop_Signed(d, top, bottom, extreme, buffer) ==
    IF d = "SHORT" THEN Max({top, extreme}) - buffer ELSE Min({bottom, extreme}) - buffer

\* Beyond the zone and the extreme of the sweep.
StructuralStop(d, top, bottom, extreme, buffer) ==
    IF d = "SHORT" THEN Max({top, extreme}) + buffer ELSE Min({bottom, extreme}) - buffer

Plans(m, name, d, entry, stop) ==
    IF IF d = "LONG" THEN stop >= entry ELSE stop <= entry THEN {}
    ELSE {[strategy |-> name, dir |-> d, entry |-> entry, stop |-> stop,
           first |-> t.first, target |-> t.target] : t \in Targets(m, d, entry, stop)}

-----------------------------------------------------------------------------
(* What the strategies share.                                              *)

Conflicts(m, d, frames) ==
    \E b \in Kind(m, "bias") : b.tf \in frames /\ b.dir = Opposite(d)

\* In the half of the dealing range that suits the direction, or a little beyond.
CorrectSide(m, d, entry, tolerance) ==
    \A r \in Kind(m, "range") :
        LET across == 100 * (entry - r.low)
            size == r.high - r.low
        IN IF d = "LONG" THEN across <= (50 + tolerance) * size ELSE across >= (50 - tolerance) * size

\* The price that a sweep reached.
SweepExtreme(s) == IF s.dir = "SHORT" THEN s.pool + s.pen ELSE s.pool - s.pen

\* The best sweep of the last 15 bars, whatever came of it.
RecentSweep(m, d) ==
    LET recent == {s \in Facing(m, "sweep", d) : s.age <= 15 /\ s.quality >= 45}
    IN {s \in recent : \A t \in recent : t.quality <= s.quality}

LastShift(m) == Latest(Kind(m, "mss"))

\* The last event of the structure, of whatever kind.
LastEvent(m) == Latest({f \in m : f.kind \in EventKinds})

\* The first links of the chain: no frame above against it, a sweep, a move
\* away from it, and a shift of structure that is not older.
Chains(m, d) ==
    {s \in RecentSweep(m, d) :
        /\ ~Conflicts(m, d, {"H4", "D1", "W1", "MN1"})
        /\ s.after >= 50
        /\ \E e \in LastShift(m) : e.dir = d /\ e.age <= s.age}

\* The zone with the most displacement; of equals the nearest.
Best(zones) ==
    LET middle(z) == AbsOf(z.top + z.bottom)
        better(y, z) == y.size > z.size \/ (y.size = z.size /\ middle(y) < middle(z))
    IN {z \in zones : \A y \in zones : ~better(y, z)}

\* An entry into a zone that the chain leads to.
Entered(m, name, d, sweep, zone, entry) ==
    IF Away(entry, 0) <= 4 * ATR /\ CorrectSide(m, d, entry, 10)
    THEN Plans(m, name, d, entry,
               StructuralStop(d, zone.top, zone.bottom, SweepExtreme(sweep), (15 * ATR) \div 100))
    ELSE {}

-----------------------------------------------------------------------------
(* The strategies.                                                         *)

Middle(zone) == (zone.top + zone.bottom) \div 2

\* SweepMssFvg: into the gap that the move away from the sweep left.
SweepMssFvg(m, d) ==
    UNION {UNION {Entered(m, "sweep_mss_fvg", d, s, z, Middle(z)) :
                    z \in Best({g \in Facing(m, "gap", d) : g.tradable /\ g.age <= s.age /\ g.size >= 50})} :
             s \in Chains(m, d)}

\* The block of a break of structure; without one, a breaker.
EntryBlock(m, d) ==
    LET blocks == {b \in Facing(m, "block", d) : b.tradable}
        caused == {b \in blocks : b.caused}
    IN Best(IF caused # {} THEN caused ELSE {b \in blocks : b.breaker})

\* The middle of a block that is high, the near edge of another.
BlockEntry(d, b) ==
    IF 10 * (b.top - b.bottom) > 8 * ATR THEN Middle(b) ELSE IF d = "LONG" THEN b.top ELSE b.bottom

\* SweepMssOb.
SweepMssOb(m, d) ==
    UNION {UNION {Entered(m, "sweep_mss_ob", d, s, b, BlockEntry(d, b)) : b \in EntryBlock(m, d)} :
             s \in Chains(m, d)}

\* The last shift; a break counts only where there was no shift at all.
ShiftOrBreak(m) == IF Kind(m, "mss") # {} THEN LastShift(m) ELSE Latest(Kind(m, "bos"))

\* The side of the range of Asia that was swept, with price back inside.
AsiaTaken(m, d, asia) ==
    LET edge == IF d = "SHORT" THEN asia.high ELSE asia.low
    IN /\ IF d = "SHORT" THEN 0 < edge ELSE 0 > edge
       /\ \E s \in Facing(m, "sweep", d) : 2 * AbsOf(s.pool - edge) <= ATR

\* SessionRangeExpansion: at the price of now, the stop beyond the edge itself.
SessionRangeExpansion(m, d, minutes) ==
    UNION {LET edge == IF d = "SHORT" THEN a.high ELSE a.low
           IN Plans(m, "session_range_expansion", d, 0,
                    StructuralStop(d, edge, edge, edge, (25 * ATR) \div 100)) :
             a \in {x \in Kind(m, "asia") :
                      /\ minutes <= 240
                      /\ 10 * (x.high - x.low) >= 8 * ATR /\ x.high - x.low <= 4 * ATR
                      /\ AsiaTaken(m, d, x)
                      /\ ~Conflicts(m, d, {"H4", "D1"})
                      /\ \E e \in ShiftOrBreak(m) : e.dir = d
                      /\ CorrectSide(m, d, 0, 15)}}

\* Swept levels of the day or the week before, with the last event of the
\* structure going the way of the reversal.
Rejected(m) ==
    {s \in Kind(m, "sweep") :
        /\ s.period /\ s.age <= 8 /\ s.quality >= 55 /\ s.closed
        /\ \E e \in LastEvent(m) : e.dir = s.dir}

Reversion(m, s) ==
    LET extreme == SweepExtreme(s)
    IN Plans(m, "pdh_pdl_reversion", s.dir, 0,
             StructuralStop(s.dir, extreme, extreme, extreme, (20 * ATR) \div 100))

\* PdhPdlReversion: one plan, that of the oldest sweep that gives one.
PdhPdlReversion(m) ==
    LET giving == {s \in Rejected(m) : Reversion(m, s) # {}}
    IN UNION {Reversion(m, s) : s \in {t \in giving : \A u \in giving : u.age <= t.age}}

-----------------------------------------------------------------------------
(* DecisionPipeline._detect().                                             *)

Trends == {"STRONG_BULL", "MODERATE_BULL", "MODERATE_BEAR", "STRONG_BEAR"}

\* StrategyMeta: the regimes and the sessions of a strategy.
Regimes(name) ==
    CASE name \in {"sweep_mss_fvg", "sweep_mss_ob"} -> Trends \cup {"RANGE"}
      [] name = "session_range_expansion" -> Trends
      [] name = "pdh_pdl_reversion" -> {"RANGE"}

Sessions(name) ==
    {"LONDON", "OVERLAP"} \cup (IF name = "session_range_expansion" THEN {} ELSE {"NEW_YORK"})

Allowed(name, c) == name \in Strategies /\ Regime(c) \in Regimes(name) /\ c.session \in Sessions(name)

\* All plans of an evaluation.
Detected(m, c) ==
    LET of(name, plans) == IF Allowed(name, c) THEN plans ELSE {}
    IN of("sweep_mss_fvg", UNION {SweepMssFvg(m, d) : d \in Directions})
       \cup of("sweep_mss_ob", UNION {SweepMssOb(m, d) : d \in Directions})
       \cup of("session_range_expansion", UNION {SessionRangeExpansion(m, d, c.minutes) : d \in Directions})
       \cup of("pdh_pdl_reversion", PdhPdlReversion(m))

SetupsNext == Appears \/ Vanishes

SetupsSpec == MarketInit /\ [][SetupsNext]_marketVars

-----------------------------------------------------------------------------
(* Properties                                                              *)

\* Neither side is favoured: the market upside down gives the same plans
\* upside down.  Every strategy, the stop, the targets and the test of the
\* dealing range are written once for a long and once for a short.
SetupMirror ==
    Detected(Mirrored(market), MirrorConditions(conditions))
        = Mirrored(Detected(market, conditions))

\* What is no evidence for a plan: what faces the other way, a zone that is
\* used up, a pool that was taken.
NoEvidence(f, d) ==
    \/ f.kind \in {"sweep", "gap", "block"} /\ f.dir # d
    \/ f.kind \in {"gap", "block"} /\ ~f.tradable
    \/ f.kind = "pool" /\ ~f.resting

PlansOf(m, d) == {p \in Detected(m, conditions) : p.dir = d}

\* A plan rests on its own evidence: without a feature that is none, the plans
\* of a direction are the same.  In particular the one plan that the reversion
\* may make is never lost to a sweep of the other side.
OnOwnEvidence ==
    \A d \in Directions : \A f \in market :
        NoEvidence(f, d) => PlansOf(market \ {f}, d) = PlansOf(market, d)
=============================================================================
