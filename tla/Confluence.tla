------------------------------ MODULE Confluence ------------------------------
(***************************************************************************)
(* How one candidate is judged: the confluence score of                    *)
(* strategy/scoring.py, the mandatory gates, and the classifier, over the  *)
(* evidence that strategy/features.py reads off a snapshot.  The evidence  *)
(* changes between evaluations, one field at a time.                       *)
(*                                                                         *)
(* Scores are in hundredths of a point: a weight times a percentage.       *)
(***************************************************************************)
EXTENDS Integers, FiniteSets, FiniteSetsExt

CONSTANTS
    Grades,   \* [fields -> the values each may take, the worse the lower]
    Baseline, \* the evidence with which the behaviours begin
    Varied,   \* bound: the fields that change
    HintShare \* the most that the news adds to the fundamentals, in percent of their weight

VARIABLE f \* the evidence

Unknown == -9 \* the lowest grade of what may be missing

-----------------------------------------------------------------------------
(* ScoringEngine: categories.  A grade in percent stands for the features  *)
(* of one source: a sweep's quality, displacement, pool and rejection.     *)

Min2(a, b) == IF a < b THEN a ELSE b
Max2(a, b) == IF a > b THEN a ELSE b
Clamp(s) == Max2(0, Min2(100, s))
If(b, points) == IF b THEN points ELSE 0

Weight == [htf |-> 15, structure |-> 15, liquidity |-> 15, zones |-> 10, levels |-> 10,
           fundamentals |-> 10, dollar |-> 5, session |-> 5, volatility |-> 5, entry |-> 10]
Categories == DOMAIN Weight

RightSide == f.place > 50

\* htf is -100 (a higher timeframe opposes) or the share of those that agree.
HtfBias == If(f.htf >= 0, (f.htf + 100) \div 2)

\* mss is -1 (none) or how far it displaced, in percent of 1.5 ATR.
Structure ==
    If(f.mss >= 0, (55 * f.mss) \div 100 + 10) + If(f.bos, 20) + (15 * f.recency) \div 100

Liquidity == (75 * f.sweep) \div 100 + If(f.sweep > 0, 10) + If(f.target, 15)

Zones == (70 * f.zone) \div 100 + If(f.zone = 100, 20) + If(f.zone > 0, 10)

Levels == (80 * f.support) \div 100 + If(RightSide, 20)

Known == f.macro # Unknown

\* Mutation: an unknown macro picture earns the full mark.
MacroShare_Full == IF Known THEN Clamp(50 + 25 * f.macro) ELSE 100

\* macro is -2..2 in the trade's direction.
MacroShare == IF Known THEN Clamp(50 + 25 * f.macro) ELSE 30

\* The hint of the news counts while it is fresh, up to its cap.
Fundamentals == Clamp(MacroShare + If(f.fresh, HintShare * f.hint))

\* How many of the dollar and the yields agree.
Dollar == 50 * f.dollar

Session == If(f.session > 0, 55) + If(f.session = 2, 15) + If(f.killzone, 30)

Volatility ==
    If(f.regime > 0, (IF f.regime = 2 THEN 50 ELSE 15)
                       + CASE f.vol = "NORMAL" -> 50 [] f.vol = "HIGH" -> 30
                           [] f.vol = "LOW" -> 15 [] f.vol = "EXTREME" -> 0)

EntryConfirmation == (35 * Min2(100, (f.sweep * 5) \div 3)) \div 100 + If(RightSide, 30) + 35

Share == [htf |-> Clamp(HtfBias), structure |-> Clamp(Structure), liquidity |-> Clamp(Liquidity),
          zones |-> Clamp(Zones), levels |-> Clamp(Levels), fundamentals |-> Fundamentals,
          dollar |-> Dollar, session |-> Clamp(Session), volatility |-> Clamp(Volatility),
          entry |-> Clamp(EntryConfirmation)]

-----------------------------------------------------------------------------
(* ScoringEngine: penalties and the total.                                 *)

Opposed == Known /\ f.macro < 0

\* Mutation: the two penalties are swapped.
WideSpread_Swapped == CASE f.spread >= 0 -> 0 [] f.spread = -1 -> 800 [] OTHER -> 400

\* spread is 0 (up to 1.5 times the median), -1 (2), -2 (2.5) or -3 (beyond).
WideSpread == CASE f.spread >= 0 -> 0 [] f.spread = -1 -> 400 [] OTHER -> 800

\* news is minus the level of the risk.
MissingData == If(~f.fresh, 300) + If(~Known, 300)

Penalties ==
    (CASE f.news = 0 -> 0 [] f.news = -1 -> 300 [] f.news = -2 -> 900 [] f.news = -3 -> 1500)
    + If(Opposed, -500 * f.macro)
    + (CASE f.vol = "EXTREME" -> 800 [] f.vol = "LOW" -> 400 [] OTHER -> 0)
    + WideSpread
    + If(f.session = 0, 500)
    + If(~f.clear, 500)
    + MissingData
    + If(f.blocked, 500)

Total ==
    LET share == Share
    IN Max2(0, MapThenSumSet(LAMBDA c : Weight[c] * share[c], Categories) - Penalties)

Strong == LET share == Share IN {c \in Categories : share[c] >= 70}

-----------------------------------------------------------------------------
(* run_gates() with MANDATORY_GATES.  Every one of them must pass.         *)

\* The kill switch, the broker, the symbol, the age of the data.
SystemGates == f.system

MarketGates ==
    /\ f.spread > -3
    /\ f.calendar
    /\ f.news > -3 /\ ~f.blackout
    /\ f.regime > 0

PlanGates ==
    /\ f.proven \/ ~f.real
    /\ f.htf >= 0
    /\ f.rr /\ f.stop
    /\ f.place >= 40 \/ f.place = Unknown

\* Drawdown, exposure, frequency, duplicates.
AccountGates == f.account

GatesPassed == SystemGates /\ MarketGates /\ PlanGates /\ AccountGates

-----------------------------------------------------------------------------
(* Classifier.classify().                                                  *)

\* A probability of a model that is not healthy counts as none.
Probability == IF f.healthy THEN f.prob ELSE Unknown

ChecksAPlus ==
    /\ Total >= 8500 /\ Cardinality(Strong) >= 7 /\ f.rr
    /\ Known /\ f.macro > 0
    /\ f.news = 0
    /\ f.htf >= 0 /\ f.mss >= 0 /\ f.sweep > 50
    /\ f.proven
    /\ Probability >= 65

ChecksA ==
    /\ Total >= 7000 /\ Cardinality(Strong) >= 5 /\ f.rr
    /\ f.htf >= 0 /\ ~Opposed
    /\ f.news >= -1
    /\ f.mss >= 0 \/ f.bos
    /\ Probability # Unknown => Probability >= 55

Classify ==
    IF ~GatesPassed THEN "NO_TRADE"
    ELSE IF ChecksAPlus THEN "A_PLUS"
    ELSE IF ChecksA THEN "A" ELSE "NO_TRADE"

\* DecisionPipeline._evaluate_plan(): the risk gate has the last word.
Decision == IF f.sized THEN Classify ELSE "NO_TRADE"

-----------------------------------------------------------------------------

Init == f = Baseline

\* The next evaluation sees other evidence.
Changes(k) ==
    \E i \in DOMAIN Grades[k] : Grades[k][i] # f[k] /\ f' = [f EXCEPT ![k] = Grades[k][i]]

Next == \E k \in Varied : Changes(k)

Spec == Init /\ [][Next]_f

-----------------------------------------------------------------------------
(* Properties                                                              *)

Rank == [NO_TRADE |-> 0, A |-> 1, A_PLUS |-> 2]

\* Where a value stands among the grades of its field, worst first.
Position(k, v) == CHOOSE i \in DOMAIN Grades[k] : Grades[k][i] = v

Worsened(k) == Position(k, f'[k]) < Position(k, f[k])

\* What was known is missing.
Lost(k) ==
    \/ k \in {"macro", "prob", "place"} /\ f'[k] = Unknown
    \/ k = "fresh" /\ ~f'.fresh

\* The judgement follows the evidence: through ten categories, their breadth,
\* nine penalties, the gates and both lists of checks, worse evidence never
\* makes a better trade.
WorseNeverBetter ==
    [][\A k \in Varied : Worsened(k) /\ ~Lost(k) => Rank[Decision]' <= Rank[Decision]]_f

\* Nothing is gained by not knowing, except the model, without which an A asks for
\* no probability: when news, a macro picture or a range that did not
\* oppose the trade are lost, the class does not improve.  (An opposing headline
\* that grows stale may improve it, through the breadth of the categories.)
MissingNeverHelps ==
    [][\A k \in Varied :
          /\ Lost(k) /\ Worsened(k)
          /\ k = "fresh" => f.hint >= 0
          /\ k = "macro" => f.macro >= 0
          /\ k = "place" => f.place >= 40
          /\ k # "prob"
          => Rank[Decision]' <= Rank[Decision]]_f

\* What the settings promise of the news' contribution: it can never move a
\* classification on its own.
NewsNeverDecides == [][f' = [f EXCEPT !.hint = f'.hint] => Decision' = Decision]_f
=============================================================================
