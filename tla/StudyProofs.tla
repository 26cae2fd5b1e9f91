------------------------------- MODULE StudyProofs -------------------------------
(***************************************************************************)
(* What holds of the study for every value of its constants.               *)
(***************************************************************************)
EXTENDS Study, Arithmetic

-----------------------------------------------------------------------------
(* The replay.                                                             *)

\* A step of the study is one of each part, or leaves it as it is.
LEMMA StudyMoves ==
    [StudyNext]_studyVars =>
        /\ [Chart!Next]_chartVars /\ [Pools!LiquidityNext]_poolsVars
        /\ [Lessons!LearningNext]_lessonVars /\ [Walk!WalkNext]_walkVars
        /\ [Judge!Next]_judgeVars /\ [Replay!Next]_replayVars
BY DEF StudyNext, ChartMoves, PoolsMove, LessonsMove, WalkMoves, JudgeMoves, ReplayMoves, studyVars

\* An instance counts as the library does.
LEMMA ReplaySame == \A S : Replay!Cardinality(S) = Cardinality(S)
BY DEF Replay!Cardinality, Cardinality

\* The lesser and the greater of two numbers.
LEMMA ReplayExtremes ==
    ASSUME NEW a \in Int, NEW b \in Int
    PROVE  /\ Replay!Min({a, b}) \in {a, b} /\ Replay!Min({a, b}) <= a /\ Replay!Min({a, b}) <= b
           /\ Replay!Max({a, b}) \in {a, b} /\ a <= Replay!Max({a, b}) /\ b <= Replay!Max({a, b})
BY DEF Replay!Min, Replay!Max

\* A position as a fill makes it and as the broker keeps it.
SimPositions ==
    [engine : Replay!Engines, dir : Replay!Directions, sl : Int, tp : Int, entry : Int,
     tag : PlanTags, held : Nat, reached : BOOLEAN]

BooksInv ==
    /\ mid \in 1..TopPrice /\ balance \in Int /\ booked \in Int
    /\ IsFiniteSet(positions)
    /\ balance = booked - SideCost * Cardinality(positions)
    /\ positions \in SUBSET SimPositions
    /\ \A p \in positions : p.tag \in openTags /\ p.held <= index
    /\ \A p, q \in positions : p # q => p.engine # q.engine /\ p.dir = q.dir
    /\ index \in 0..ReplayedBars /\ phase \in Replay!Phases
    /\ tradesToday \in 0..DayLimit /\ openTags \subseteq PlanTags /\ flattered \in BOOLEAN

\* What whole positions are settled for: the balance lacks the entries'
\* commissions, which the books have.
LEMMA SettledBooks ==
    ASSUME NEW gone, IsFiniteSet(gone), NEW price, Replay!Settle(gone, price),
           balance \in Int, booked \in Int, SideCost \in Int,
           \A p \in gone : Replay!Gain(p, p.entry, price[p]) \in Int
    PROVE  /\ balance' \in Int /\ booked' \in Int
           /\ balance' - booked' = balance - booked + SideCost * Cardinality(gone)
<1> DEFINE v == [p \in gone |-> Replay!Gain(p, p.entry, price[p]) - SideCost]
           w == [p \in gone |-> Replay!Gain(p, p.entry, price[p]) - 2 * SideCost]
           P(g) == g = [s \in SUBSET gone |->
                     IF s = {} THEN 0
                     ELSE (Replay!Gain(Pick(s), Pick(s).entry, price[Pick(s)]) - SideCost) + g[s \ {Pick(s)}]]
           Q(g) == g = [s \in SUBSET gone |->
                     IF s = {} THEN 0
                     ELSE (Replay!Gain(Pick(s), Pick(s).entry, price[Pick(s)]) - 2 * SideCost) + g[s \ {Pick(s)}]]
<1>1. \A s \in SUBSET gone : s # {} =>
        /\ v[Pick(s)] = Replay!Gain(Pick(s), Pick(s).entry, price[Pick(s)]) - SideCost
        /\ w[Pick(s)] = Replay!Gain(Pick(s), Pick(s).entry, price[Pick(s)]) - 2 * SideCost
  BY Picked
<1>2. \A g : (IsSum(g, v, gone) <=> P(g)) /\ (IsSum(g, w, gone) <=> Q(g))
  <2> HIDE DEF v, w
  <2> QED
    BY <1>1 DEF IsSum
<1>3. balance' = balance + (CHOOSE g : P(g))[gone] /\ booked' = booked + (CHOOSE g : Q(g))[gone]
  BY Zenon DEF Replay!Settle, Replay!MapThenSumSet, Replay!MapThenFoldSet, Pick
<1> DEFINE g == CHOOSE x : P(x)
           h == CHOOSE x : Q(x)
<1>4. IsSum(g, v, gone) /\ IsSum(h, w, gone)
  <2>1. (\E x : P(x)) /\ (\E x : Q(x))
    BY <1>2, SumExists
  <2> HIDE DEF P, Q
  <2> QED
    BY <1>2, <2>1
<1>5. \A p \in gone : v[p] \in Int /\ w[p] \in Int /\ v[p] = w[p] + SideCost
  OBVIOUS
<1>6. balance' = balance + g[gone] /\ booked' = booked + h[gone]
  BY <1>3
<1> HIDE DEF g, h, v, w
<1>7. g[gone] \in Int /\ h[gone] \in Int /\ g[gone] = h[gone] + SideCost * Cardinality(gone)
  BY <1>4, <1>5, SumsCompare
<1>8. Cardinality(gone) \in Nat /\ SideCost * Cardinality(gone) \in Int
  BY FS_CardinalityType
<1> QED
  BY <1>6, <1>7, <1>8

\* The positions that stay are as many as they were, with the sides and the
\* engines that they had.
LEMMA KeptBooks ==
    ASSUME BooksInv, SideCost \in Int, NEW gone \in SUBSET positions, NEW price, NEW keep,
           \A p \in gone : price[p] \in Int,
           \A p \in positions \ gone : keep[p].engine = p.engine /\ keep[p].dir = p.dir,
           \A q : q \in positions' <=> \E p \in positions \ gone : q = keep[p],
           Replay!Settle(gone, price)
    PROVE  /\ balance' \in Int /\ booked' \in Int /\ IsFiniteSet(positions')
           /\ balance' = booked' - SideCost * Cardinality(positions')
           /\ \A p, q \in positions' : p # q => p.engine # q.engine /\ p.dir = q.dir
<1>1. IsFiniteSet(gone) /\ IsFiniteSet(positions \ gone) /\ IsFiniteSet(positions)
  BY FS_Subset, FS_Difference DEF BooksInv
<1>2. /\ balance \in Int /\ booked \in Int /\ balance = booked - SideCost * Cardinality(positions)
      /\ \A p, q \in positions : p # q => p.engine # q.engine /\ p.dir = q.dir
      /\ \A p \in positions : p \in SimPositions
  BY DEF BooksInv
<1>3. Cardinality(positions \ gone) = Cardinality(positions) - Cardinality(gone)
  <2>1. positions \cap gone = gone
    OBVIOUS
  <2> QED
    BY <1>1, <2>1, FS_Difference
<1>4. \A p \in gone : Replay!Gain(p, p.entry, price[p]) \in Int
  <2> SUFFICES ASSUME NEW p \in gone PROVE Replay!Gain(p, p.entry, price[p]) \in Int
    OBVIOUS
  <2>1. p \in SimPositions /\ price[p] \in Int
    BY <1>2
  <2>2. p.entry \in Int
    BY <2>1 DEF SimPositions
  <2> QED
    BY <2>1, <2>2 DEF Replay!Gain, Replay!Sign
<1>5. /\ balance' \in Int /\ booked' \in Int
      /\ balance' - booked' = balance - booked + SideCost * Cardinality(gone)
  BY <1>1, <1>2, <1>4, SettledBooks
<1>6. \A p, q \in positions \ gone : keep[p] = keep[q] => p = q
  BY <1>2
<1>7. IsFiniteSet(positions') /\ Cardinality(positions') = Cardinality(positions \ gone)
  <2>1. positions' = {keep[p] : p \in positions \ gone}
    OBVIOUS
  <2> QED
    BY <1>1, <1>6, <2>1, ImageSize
<1>8. Cardinality(positions) \in Nat /\ Cardinality(gone) \in Nat /\ Cardinality(positions') \in Nat
  BY <1>1, <1>7, FS_CardinalityType
<1>9. SideCost * Cardinality(positions') = SideCost * Cardinality(positions) - SideCost * Cardinality(gone)
  BY <1>3, <1>7, <1>8
<1>10. /\ SideCost * Cardinality(positions') \in Int /\ SideCost * Cardinality(positions) \in Int
       /\ SideCost * Cardinality(gone) \in Int
  BY <1>8
<1>11. balance' = booked' - SideCost * Cardinality(positions')
  <2>1. balance - booked = 0 - SideCost * Cardinality(positions)
    BY <1>2, <1>10
  <2>2. balance' - booked' = 0 - SideCost * Cardinality(positions')
    BY <1>2, <1>5, <1>9, <1>10, <2>1
  <2> QED
    BY <1>5, <1>10, <2>2
<1>12. \A p, q \in positions' : p # q => p.engine # q.engine /\ p.dir = q.dir
  BY <1>2
<1> QED
  BY <1>5, <1>7, <1>11, <1>12

\* A bar of a history, and the minutes that it is made of.
LEMMA BarIs ==
    ASSUME NEW m \in Replay!Bars
    PROVE  m.low \in 1..TopPrice /\ m.high \in 1..TopPrice /\ m.low <= m.high
BY DEF Replay!Bars

\* A bar of the replay is one minute or two, which join unless there are gaps.
LEMMA PathIs ==
    ASSUME NEW path \in Replay!Paths
    PROVE  \/ \E m \in Replay!Bars : path = <<m>> /\ (Gapped \/ Replay!Touches(mid, m))
           \/ \E a, b \in Replay!Bars :
                 /\ path = <<a, b>> /\ (Gapped \/ Replay!Touches(mid, a))
                 /\ Gapped \/ Replay!Joined(a, b)
<1> DEFINE firsts == {m \in Replay!Bars : Gapped \/ Replay!Touches(mid, m)}
<1>1. CASE path \in {<<m>> : m \in firsts}
  BY <1>1
<1>2. CASE path \in {s \in firsts \X Replay!Bars :
                     (Gapped \/ Replay!Joined(s[1], s[2])) /\ Replay!Whole(s) \in Replay!Bars}
  <2>1. PICK a \in firsts, b \in Replay!Bars : path = <<a, b>>
    BY <1>2
  <2>2. Gapped \/ Replay!Joined(a, b)
    BY <1>2, <2>1
  <2> QED
    BY <2>1, <2>2
<1> QED
  BY <1>1, <1>2 DEF Replay!Paths

\* The bar holds its minutes, and its extremes are theirs.
LEMMA WholeIs ==
    ASSUME TopPrice \in Nat, NEW path \in Replay!Paths
    PROVE  /\ path # <<>> /\ Len(path) \in DOMAIN path /\ 1 \in DOMAIN path
           /\ \A k \in DOMAIN path :
                 /\ k \in 1..2 /\ path[k] \in Replay!Bars
                 /\ Replay!Whole(path).low <= path[k].low /\ path[k].high <= Replay!Whole(path).high
           /\ \E k \in DOMAIN path : Replay!Whole(path).low = path[k].low
           /\ \E k \in DOMAIN path : Replay!Whole(path).high = path[k].high
<1> DEFINE w == Replay!Whole(path)
<1>1. CASE \E m \in Replay!Bars : path = <<m>>
  <2>1. PICK m \in Replay!Bars : path = <<m>>
    BY <1>1
  <2>2. m.low \in Int /\ m.high \in Int
    BY BarIs
  <2>3. DOMAIN path = {1} /\ path[1] = m /\ Len(path) = 1 /\ path # <<>>
    BY <2>1
  <2>4. {path[k].low : k \in DOMAIN path} = {m.low, m.low} /\ {path[k].high : k \in DOMAIN path} = {m.high, m.high}
    BY <2>3
  <2>5. w.low = m.low /\ w.high = m.high
    BY <2>2, <2>4, ReplayExtremes DEF Replay!Whole
  <2>6. \A k \in DOMAIN path : k \in 1..2 /\ path[k] \in Replay!Bars /\ w.low <= path[k].low /\ path[k].high <= w.high
    BY <2>2, <2>3, <2>5
  <2> QED
    BY <2>3, <2>5, <2>6
<1>2. CASE \E a, b \in Replay!Bars : path = <<a, b>>
  <2>1. PICK a \in Replay!Bars, b \in Replay!Bars : path = <<a, b>>
    BY <1>2
  <2>2. a.low \in Int /\ a.high \in Int /\ b.low \in Int /\ b.high \in Int
    BY BarIs
  <2>3. DOMAIN path = {1, 2} /\ path[1] = a /\ path[2] = b /\ Len(path) = 2 /\ path # <<>>
    BY <2>1
  <2>4. {path[k].low : k \in DOMAIN path} = {a.low, b.low} /\ {path[k].high : k \in DOMAIN path} = {a.high, b.high}
    BY <2>3
  <2>5. /\ w.low \in {a.low, b.low} /\ w.low <= a.low /\ w.low <= b.low
        /\ w.high \in {a.high, b.high} /\ a.high <= w.high /\ b.high <= w.high
    BY <2>2, <2>4, ReplayExtremes DEF Replay!Whole
  <2>6. \A k \in DOMAIN path : k \in 1..2 /\ path[k] \in Replay!Bars /\ w.low <= path[k].low /\ path[k].high <= w.high
    BY <2>2, <2>3, <2>5
  <2>7. (\E k \in DOMAIN path : w.low = path[k].low) /\ (\E k \in DOMAIN path : w.high = path[k].high)
    BY <2>3, <2>5
  <2> QED
    BY <2>3, <2>6, <2>7
<1> QED
  BY <1>1, <1>2, PathIs

\* The fields of a position.
LEMMA SimFields ==
    ASSUME NEW p \in SimPositions
    PROVE  /\ p.engine \in Replay!Engines /\ p.dir \in Replay!Directions /\ p.tag \in PlanTags
           /\ p.sl \in Int /\ p.tp \in Int /\ p.entry \in Int
           /\ p.held \in Nat /\ p.reached \in BOOLEAN
BY DEF SimPositions

\* A position that is held longer is otherwise the same.
LEMMA HeldLonger ==
    ASSUME NEW p \in SimPositions
    PROVE  LET q == [p EXCEPT !.held = @ + 1]
           IN  /\ q \in SimPositions /\ q.engine = p.engine /\ q.dir = p.dir /\ q.tag = p.tag
               /\ q.sl = p.sl /\ q.tp = p.tp /\ q.entry = p.entry /\ q.held = p.held + 1
               /\ q.reached = p.reached
<1>1. p.held + 1 \in Nat
  BY SimFields
<1> QED
  BY <1>1 DEF SimPositions

\* A bar of the broker settles some positions and keeps the others.
LEMMA BarKeepsBooks ==
    ASSUME ReplayAssumption, BooksInv, Replay!Advance
    PROVE  BooksInv'
<1>1. PICK path \in Replay!Paths :
      \E c \in path[Len(path)].low..path[Len(path)].high, m1 \in Replay!Known(path) :
         /\ Replay!StepBar([low |-> Replay!Whole(path).low, high |-> Replay!Whole(path).high, close |-> c], m1)
         /\ flattered' = (flattered \/ \E p \in positions :
                            /\ Replay!MayBeStopped(p, path)
                            /\ Replay!Outcome(p, [low |-> Replay!Whole(path).low,
                                  high |-> Replay!Whole(path).high, close |-> c], m1) # "SL")
  BY DEF Replay!Advance
<1>2. PICK c \in path[Len(path)].low..path[Len(path)].high, m1 \in Replay!Known(path) :
         /\ Replay!StepBar([low |-> Replay!Whole(path).low, high |-> Replay!Whole(path).high, close |-> c], m1)
         /\ flattered' = (flattered \/ \E p \in positions :
                            /\ Replay!MayBeStopped(p, path)
                            /\ Replay!Outcome(p, [low |-> Replay!Whole(path).low,
                                  high |-> Replay!Whole(path).high, close |-> c], m1) # "SL")
  BY <1>1
<1> DEFINE b == [low |-> Replay!Whole(path).low, high |-> Replay!Whole(path).high, close |-> c]
           gone == {p \in positions : Replay!Outcome(p, b, m1) # "HELD"}
           stopped == {p \in gone : Replay!Outcome(p, b, m1) = "SL"}
           keep == [p \in positions |-> [p EXCEPT !.held = @ + 1]]
<1>3. PICK slip \in [stopped -> 0..WorstSlip] :
        Replay!Settle(gone, [p \in gone |-> Replay!ExitPrice(p, b, m1, IF p \in stopped THEN slip[p] ELSE 0)])
  BY <1>2 DEF Replay!StepBar
<1> DEFINE price == [p \in gone |-> Replay!ExitPrice(p, b, m1, IF p \in stopped THEN slip[p] ELSE 0)]
<1>4. mid' = b.close /\ positions' = {[p EXCEPT !.held = @ + 1] : p \in positions \ gone}
  BY <1>2 DEF Replay!StepBar
<1>5. /\ phase = "bar" /\ index < ReplayedBars /\ index' = index + 1 /\ phase' = "manage"
      /\ openTags' = openTags /\ tradesToday' \in {0, tradesToday}
  BY DEF Replay!Advance
<1>6. TopPrice \in Nat /\ WorstSlip \in Nat /\ SideCost \in Int /\ ReplayedBars \in Nat /\ DayLimit \in Nat
  BY DEF ReplayAssumption
<1>7. \A k \in DOMAIN path : path[k].low \in 1..TopPrice /\ path[k].high \in 1..TopPrice
  BY <1>6, WholeIs, BarIs
<1>8. Replay!Whole(path).low \in Int /\ Replay!Whole(path).high \in Int /\ c \in 1..TopPrice
  <2>1. PICK k \in DOMAIN path : Replay!Whole(path).low = path[k].low
    BY <1>6, WholeIs
  <2>2. PICK n \in DOMAIN path : Replay!Whole(path).high = path[n].high
    BY <1>6, WholeIs
  <2>3. Len(path) \in DOMAIN path
    BY <1>6, WholeIs
  <2>4. path[Len(path)].low \in 1..TopPrice /\ path[Len(path)].high \in 1..TopPrice
    BY <1>7, <2>3
  <2>5. c \in 1..TopPrice
    <3> DEFINE low == path[Len(path)].low
               high == path[Len(path)].high
    <3>1. c \in low..high
      OBVIOUS
    <3>2. low \in 1..TopPrice /\ high \in 1..TopPrice
      BY <2>4
    <3> HIDE DEF low, high
    <3> QED
      BY <1>6, <3>1, <3>2
  <2> QED
    BY <1>6, <1>7, <2>1, <2>2, <2>5
<1>9. b.low \in Int /\ b.high \in Int /\ b.close = c
  BY <1>8
<1>10. positions \in SUBSET SimPositions /\ index \in 0..ReplayedBars
       /\ \A p \in positions : p.tag \in openTags /\ p.held <= index
  BY DEF BooksInv
<1> HIDE DEF b
<1>11. \A p \in gone : price[p] \in Int
  <2> SUFFICES ASSUME NEW p \in gone PROVE price[p] \in Int
    OBVIOUS
  <2> DEFINE s == IF p \in stopped THEN slip[p] ELSE 0
  <2>1. s \in Int
    BY <1>6
  <2>2. p.sl \in Int /\ p.tp \in Int
    BY <1>10, SimFields
  <2> HIDE DEF s
  <2>3. p.sl - s \in Int /\ p.sl + s \in Int
    BY <2>1, <2>2, SMTT(60)
  <2>4. Replay!Min({p.sl - s, b.high}) \in Int /\ Replay!Max({p.sl + s, b.low}) \in Int
    BY <1>9, <2>3, ReplayExtremes
  <2>5. Replay!ExitPrice(p, b, m1, s) \in Int
    BY <2>2, <2>4 DEF Replay!ExitPrice
  <2> QED
    BY <2>5 DEF s
<1> HIDE DEF gone, stopped, price
<1>12. \A p \in positions \ gone : keep[p].engine = p.engine /\ keep[p].dir = p.dir
  BY <1>10, HeldLonger
<1>13. \A q : q \in positions' <=> \E p \in positions \ gone : q = keep[p]
  BY <1>4
<1>14. \A p \in positions \ gone :
         /\ keep[p] \in SimPositions /\ keep[p].tag = p.tag /\ keep[p].held = p.held + 1
  BY <1>10, HeldLonger
<1>15. gone \in SUBSET positions
  BY DEF gone
<1>16. Replay!Settle(gone, price)
  BY <1>3 DEF price
<1> HIDE DEF keep
<1>17. /\ balance' \in Int /\ booked' \in Int /\ IsFiniteSet(positions')
       /\ balance' = booked' - SideCost * Cardinality(positions')
       /\ \A p, q \in positions' : p # q => p.engine # q.engine /\ p.dir = q.dir
  BY <1>6, <1>11, <1>12, <1>13, <1>15, <1>16, KeptBooks
<1>18. \A p \in positions' : p \in SimPositions /\ p.tag \in openTags' /\ p.held <= index'
  <2> SUFFICES ASSUME NEW p \in positions \ gone
               PROVE  keep[p] \in SimPositions /\ keep[p].tag \in openTags' /\ keep[p].held <= index'
    BY <1>13
  <2>1. p.held \in Nat /\ p.held <= index /\ p.tag \in openTags /\ index \in Nat
    BY <1>10, SimFields
  <2>2. keep[p] \in SimPositions /\ keep[p].tag = p.tag /\ keep[p].held = p.held + 1
    BY <1>14
  <2>3. keep[p].held <= index'
    BY <1>5, <2>1, <2>2, SMTT(60)
  <2> QED
    BY <1>5, <2>1, <2>2, <2>3
<1>19. flattered' \in BOOLEAN
  BY <1>2
<1>20. /\ index' \in 0..ReplayedBars /\ phase' \in Replay!Phases
       /\ tradesToday' \in 0..DayLimit /\ openTags' \subseteq PlanTags
  <2>1. index \in 0..ReplayedBars /\ tradesToday \in 0..DayLimit /\ openTags \subseteq PlanTags
    BY DEF BooksInv
  <2>2. tradesToday' \in 0..DayLimit
    BY <1>5, <1>6, <2>1
  <2> QED
    BY <1>5, <1>6, <2>1, <2>2, SMTT(60) DEF Replay!Phases
<1> QED
  BY <1>4, <1>8, <1>9, <1>17, <1>18, <1>19, <1>20 DEF BooksInv

\* The offset of the break-even stop is not below the entry, and behind a price
\* that has gone as far as it takes.
LEMMA BreakEvenBehind ==
    ASSUME ReplayAssumption, NEW risk \in Nat \ {0}, NEW gain \in Int,
           gain * RUnit >= BreakEvenAt * risk
    PROVE  /\ (BreakEvenOffset * risk) \div RUnit \in Nat
           /\ (BreakEvenOffset * risk) \div RUnit < gain
<1>1. /\ BreakEvenOffset \in Nat /\ BreakEvenAt \in Nat /\ BreakEvenOffset < BreakEvenAt
      /\ RUnit \in Nat \ {0}
  BY DEF ReplayAssumption
<1> DEFINE t == BreakEvenOffset * risk
           e == t \div RUnit
<1>2. t \in Int /\ BreakEvenAt * risk \in Int /\ t < BreakEvenAt * risk /\ 0 * risk <= t /\ 0 * risk = 0
  BY <1>1, Products
<1>3. e \in Int /\ e * RUnit <= t /\ t < (e + 1) * RUnit
  <2> HIDE DEF t
  <2> QED
    BY <1>1, <1>2, Quotient
<1> HIDE DEF t, e
<1>4. e * RUnit \in Int /\ gain * RUnit \in Int /\ (e + 1) * RUnit \in Int /\ 0 * RUnit = 0
  BY <1>1, <1>3
<1>5. e * RUnit < gain * RUnit /\ 0 * RUnit < (e + 1) * RUnit
  BY <1>2, <1>3, <1>4
<1>6. e < gain /\ 0 < e + 1
  BY <1>1, <1>3, <1>5, Products
<1> QED
  BY <1>3, <1>6 DEF e, t

\* The risk of a position is not negative.
LEMMA RiskIs ==
    ASSUME NEW p \in SimPositions
    PROVE  Replay!Risk(p) \in Nat /\ (Replay!Risk(p) > 0 => Replay!Risk(p) \in Nat \ {0})
BY SimFields DEF Replay!Risk, Replay!Distance

\* The two sides of the market.
LEMMA Sides ==
    ASSUME NEW p, NEW a \in Int, NEW b \in Int
    PROVE  /\ p.dir = "LONG" => /\ Replay!Sign(p) = 1 /\ Replay!Gain(p, a, b) = b - a
                                /\ Replay!Better(p, a, b) = IF b > a THEN b ELSE a
           /\ p.dir = "SHORT" => /\ Replay!Sign(p) = -1 /\ Replay!Gain(p, a, b) = a - b
                                 /\ Replay!Better(p, a, b) = IF b < a THEN b ELSE a
<1>1. CASE p.dir = "LONG"
  <2>1. Replay!Sign(p) = 1
    BY <1>1 DEF Replay!Sign
  <2>2. Replay!Gain(p, a, b) = b - a
    BY <2>1 DEF Replay!Gain
  <2>3. Replay!Better(p, a, b) = IF b - a > 0 THEN b ELSE a
    BY <2>2 DEF Replay!Better
  <2> QED
    BY <1>1, <2>1, <2>2, <2>3
<1>2. CASE p.dir = "SHORT"
  <2>1. Replay!Sign(p) = -1
    BY <1>2 DEF Replay!Sign
  <2>2. Replay!Gain(p, a, b) = a - b
    BY <2>1 DEF Replay!Gain
  <2>3. Replay!Better(p, a, b) = IF a - b > 0 THEN b ELSE a
    BY <2>2 DEF Replay!Better
  <2> QED
    BY <1>2, <2>1, <2>2, <2>3
<1> QED
  BY <1>1, <1>2

\* A stop is only moved in the position's favour, to a level behind the price, and
\* at break-even to one that does not lose.
LEMMA NewStopIs ==
    ASSUME ReplayAssumption, NEW p \in SimPositions, mid \in Int
    PROVE  LET new == Replay!NewStop(p)
           IN  /\ new \in Int /\ Replay!Gain(p, p.sl, new) >= 0
               /\ new # p.sl => Replay!Gain(p, new, mid) > 0
               /\ Replay!AtR(p, BreakEvenAt) => Replay!Gain(p, p.entry, new) >= 0
<1> DEFINE risk == Replay!Risk(p)
           gain == Replay!Gain(p, p.entry, mid)
           e == (BreakEvenOffset * risk) \div RUnit
           be == IF Replay!AtR(p, BreakEvenAt) THEN Replay!Better(p, p.sl, Replay!BreakEven(p)) ELSE p.sl
           new == Replay!NewStop(p)
<1>1. p.sl \in Int /\ p.entry \in Int /\ p.dir \in {"LONG", "SHORT"}
  BY SimFields DEF Replay!Directions
<1>2. risk \in Nat /\ gain \in Int
  BY <1>1, RiskIs DEF Replay!Gain, Replay!Sign
<1>3. Replay!AtR(p, BreakEvenAt) => e \in Nat /\ e < gain
  <2>1. SUFFICES ASSUME Replay!AtR(p, BreakEvenAt) PROVE e \in Nat /\ e < gain
    OBVIOUS
  <2>2. risk > 0 /\ gain * RUnit >= BreakEvenAt * risk
    BY <2>1 DEF Replay!AtR
  <2>3. risk \in Nat \ {0}
    BY <1>2, <2>2
  <2> HIDE DEF risk, gain
  <2> QED
    BY <1>2, <2>2, <2>3, BreakEvenBehind
<1>4. Replay!AtR(p, TrailAt) => risk > 0
  BY DEF Replay!AtR
<1>5. Replay!BreakEven(p) = p.entry + e * Replay!Sign(p)
  BY DEF Replay!BreakEven
<1>6. new = IF Replay!AtR(p, TrailAt) THEN Replay!Better(p, be, mid - risk * Replay!Sign(p)) ELSE be
  BY DEF Replay!NewStop
<1> HIDE DEF risk, e, new
<1>7. CASE p.dir = "LONG"
  <2>9. Replay!Sign(p) = 1
    BY <1>7 DEF Replay!Sign
  <2>1. \A a, b \in Int : Replay!Gain(p, a, b) = b - a
    BY <1>7, Sides
  <2>2. \A a, b \in Int : Replay!Better(p, a, b) = IF b > a THEN b ELSE a
    BY <1>7, Sides
  <2>3. gain = mid - p.entry
    BY <1>1, <2>1
  <2> HIDE DEF gain
  <2>4. Replay!AtR(p, BreakEvenAt) => Replay!BreakEven(p) \in Int /\ p.entry <= Replay!BreakEven(p) /\ Replay!BreakEven(p) < mid
    BY <1>1, <1>3, <1>5, <2>9, <2>3
  <2>5. /\ be \in Int /\ p.sl <= be /\ (be # p.sl => be < mid)
        /\ Replay!AtR(p, BreakEvenAt) => p.entry <= be
    BY <1>1, <2>2, <2>4
  <2>6. Replay!AtR(p, TrailAt) => mid - risk * Replay!Sign(p) \in Int /\ mid - risk * Replay!Sign(p) < mid
    BY <1>2, <1>4, <2>9
  <2> HIDE DEF be
  <2>7. /\ new \in Int /\ p.sl <= new /\ (new # p.sl => new < mid)
        /\ Replay!AtR(p, BreakEvenAt) => p.entry <= new
    BY <1>1, <1>6, <2>2, <2>5, <2>6
  <2>8. Replay!Gain(p, p.sl, new) = new - p.sl
    BY <1>1, <2>1, <2>7
  <2>10. Replay!Gain(p, new, mid) = mid - new
    BY <2>1, <2>7
  <2>11. Replay!Gain(p, p.entry, new) = new - p.entry
    BY <1>1, <2>1, <2>7
  <2> QED
    BY <1>1, <2>7, <2>8, <2>10, <2>11 DEF new
<1>8. CASE p.dir = "SHORT"
  <2>9. Replay!Sign(p) = -1
    BY <1>8 DEF Replay!Sign
  <2>1. \A a, b \in Int : Replay!Gain(p, a, b) = a - b
    BY <1>8, Sides
  <2>2. \A a, b \in Int : Replay!Better(p, a, b) = IF b < a THEN b ELSE a
    BY <1>8, Sides
  <2>3. gain = p.entry - mid
    BY <1>1, <2>1
  <2> HIDE DEF gain
  <2>4. Replay!AtR(p, BreakEvenAt) => Replay!BreakEven(p) \in Int /\ p.entry >= Replay!BreakEven(p) /\ Replay!BreakEven(p) > mid
    BY <1>1, <1>3, <1>5, <2>9, <2>3
  <2>5. /\ be \in Int /\ p.sl >= be /\ (be # p.sl => be > mid)
        /\ Replay!AtR(p, BreakEvenAt) => p.entry >= be
    BY <1>1, <2>2, <2>4
  <2>6. Replay!AtR(p, TrailAt) => mid - risk * Replay!Sign(p) \in Int /\ mid - risk * Replay!Sign(p) > mid
    BY <1>2, <1>4, <2>9
  <2> HIDE DEF be
  <2>7. /\ new \in Int /\ p.sl >= new /\ (new # p.sl => new > mid)
        /\ Replay!AtR(p, BreakEvenAt) => p.entry >= new
    BY <1>1, <1>6, <2>2, <2>5, <2>6
  <2>8. Replay!Gain(p, p.sl, new) = p.sl - new
    BY <1>1, <2>1, <2>7
  <2>10. Replay!Gain(p, new, mid) = new - mid
    BY <2>1, <2>7
  <2>11. Replay!Gain(p, p.entry, new) = p.entry - new
    BY <1>1, <2>1, <2>7
  <2> QED
    BY <1>1, <2>7, <2>8, <2>10, <2>11 DEF new
<1> QED
  BY <1>1, <1>7, <1>8

\* What a position gains between any two prices.
LEMMA Gains ==
    ASSUME NEW p
    PROVE  \A u, v \in Int : /\ p.dir = "LONG" => Replay!Gain(p, u, v) = v - u
                             /\ p.dir = "SHORT" => Replay!Gain(p, u, v) = u - v
<1>1. CASE p.dir = "LONG"
  <2>1. Replay!Sign(p) = 1
    BY <1>1 DEF Replay!Sign
  <2> QED
    BY <1>1, <2>1 DEF Replay!Gain
<1>2. CASE p.dir = "SHORT"
  <2>1. Replay!Sign(p) = -1
    BY <1>2 DEF Replay!Sign
  <2> QED
    BY <1>2, <2>1 DEF Replay!Gain
<1> QED
  BY <1>1, <1>2, Zenon

\* What the management of a position changes.
LEMMA ManagedIs ==
    ASSUME ReplayAssumption, NEW p \in SimPositions, mid \in Int, NEW q, q = Replay!Managed(p)
    PROVE  /\ q \in SimPositions /\ q.engine = p.engine /\ q.dir = p.dir /\ q.tag = p.tag
           /\ q.tp = p.tp /\ q.entry = p.entry /\ q.held = p.held
           /\ Replay!Gain(p, p.sl, q.sl) >= 0
           /\ q.sl # p.sl => Replay!Gain(p, q.sl, mid) > 0
           /\ q.reached => p.reached \/ Replay!AtR(p, BreakEvenAt)
           /\ StopsLevel <= 1 /\ Replay!AtR(p, BreakEvenAt) => Replay!Gain(p, p.entry, q.sl) >= 0
<1> DEFINE new == Replay!NewStop(p)
           stop == IF new # p.sl /\ Replay!Modifiable(new) THEN new ELSE p.sl
           there == p.reached \/ Replay!AtR(p, BreakEvenAt)
<1>1. /\ new \in Int /\ Replay!Gain(p, p.sl, new) >= 0
      /\ new # p.sl => Replay!Gain(p, new, mid) > 0
      /\ Replay!AtR(p, BreakEvenAt) => Replay!Gain(p, p.entry, new) >= 0
  BY NewStopIs
<1>2. p.sl \in Int /\ p.entry \in Int /\ p.dir \in {"LONG", "SHORT"}
  BY SimFields DEF Replay!Directions
<1>3. q = [p EXCEPT !.sl = stop, !.reached = there]
  BY DEF Replay!Managed
<1>4. there \in BOOLEAN
  BY SimFields DEF Replay!AtR
<1> HIDE DEF new
<1>5. stop \in Int
  BY <1>1, <1>2
<1>6. new # p.sl /\ StopsLevel <= 1 => Replay!Modifiable(new)
  <2>1. SUFFICES ASSUME new # p.sl, StopsLevel <= 1 PROVE Replay!Modifiable(new)
    OBVIOUS
  <2>2. new # mid
    <3>0. new \in Int /\ mid \in Int
      BY <1>1
    <3> HIDE DEF stop, there
    <3>1. CASE p.dir = "LONG"
      <4>1. Replay!Gain(p, new, mid) = mid - new
        BY <3>1, <3>0, Gains
      <4> QED
        BY <1>1, <2>1, <4>1
    <3>2. CASE p.dir = "SHORT"
      <4>1. Replay!Gain(p, new, mid) = new - mid
        BY <3>2, <3>0, Gains
      <4> QED
        BY <1>1, <2>1, <4>1
    <3> QED
      BY <1>2, <3>1, <3>2
  <2>3. StopsLevel \in Nat
    BY DEF ReplayAssumption
  <2> QED
    BY <1>1, <2>1, <2>2, <2>3 DEF Replay!Modifiable, Replay!Distance
<1>7. Replay!Gain(p, p.sl, p.sl) = 0
  BY <1>2, Sides
<1>8. /\ Replay!Gain(p, p.sl, stop) >= 0
      /\ stop # p.sl => Replay!Gain(p, stop, mid) > 0
      /\ StopsLevel <= 1 /\ Replay!AtR(p, BreakEvenAt) => Replay!Gain(p, p.entry, stop) >= 0
  BY <1>1, <1>6, <1>7
<1> HIDE DEF stop, there
<1>9. /\ q \in SimPositions /\ q.engine = p.engine /\ q.dir = p.dir /\ q.tag = p.tag
      /\ q.tp = p.tp /\ q.entry = p.entry /\ q.held = p.held /\ q.sl = stop /\ q.reached = there
  BY <1>3, <1>4, <1>5 DEF SimPositions
<1> QED
  BY <1>8, <1>9, Zenon DEF there

\* The prices that a position is closed and opened at are numbers.
LEMMA ExitIs ==
    ASSUME ReplayAssumption, NEW p \in SimPositions, mid \in Int
    PROVE  Replay!MarketExit(p) \in Int /\ Replay!EntryPrice(p) \in Int
BY SimFields DEF ReplayAssumption, Replay!MarketExit, Replay!EntryPrice, Replay!Sign

\* The management settles what a time stop ends and keeps the rest.
LEMMA ManageKeepsBooks ==
    ASSUME ReplayAssumption, BooksInv, Replay!Manage
    PROVE  BooksInv'
<1> DEFINE timed == {p \in positions : Replay!TimeStopped(p)}
           price == [p \in timed |-> Replay!MarketExit(p)]
           keep == [p \in positions |-> Replay!Managed(p)]
<1>1. /\ Replay!Settle(timed, price)
      /\ positions' = {Replay!Managed(p) : p \in positions \ timed}
      /\ phase' = "main" /\ UNCHANGED <<mid, index, tradesToday, openTags, flattered>>
  BY DEF Replay!Manage
<1>2. positions \in SUBSET SimPositions /\ mid \in Int /\ SideCost \in Int
  BY DEF BooksInv, ReplayAssumption
<1>3. \A p \in timed : price[p] \in Int
  BY <1>2, ExitIs
<1>4. \A p \in positions :
        /\ keep[p] \in SimPositions /\ keep[p].tag = p.tag /\ keep[p].held = p.held
        /\ keep[p].engine = p.engine /\ keep[p].dir = p.dir
  BY <1>2, ManagedIs
<1>5. \A q : q \in positions' <=> \E p \in positions \ timed : q = keep[p]
  BY <1>1
<1>6. timed \in SUBSET positions
  OBVIOUS
<1> HIDE DEF timed, price, keep
<1>7. \A p \in positions \ timed : keep[p].engine = p.engine /\ keep[p].dir = p.dir
  BY <1>4
<1>8. Replay!Settle(timed, price)
  BY <1>1
<1>9. /\ balance' \in Int /\ booked' \in Int /\ IsFiniteSet(positions')
      /\ balance' = booked' - SideCost * Cardinality(positions')
      /\ \A p, q \in positions' : p # q => p.engine # q.engine /\ p.dir = q.dir
  BY <1>2, <1>3, <1>5, <1>6, <1>7, <1>8, KeptBooks, ZenonT(60)
<1>10. \A p \in positions' : p \in SimPositions /\ p.tag \in openTags' /\ p.held <= index'
  BY <1>1, <1>4, <1>5 DEF BooksInv
<1> QED
  BY <1>1, <1>9, <1>10 DEF BooksInv, Replay!Phases

\* What an engine's entry adds.
LEMMA EntryIs ==
    ASSUME ReplayAssumption, BooksInv, NEW e \in Replay!Engines, Replay!Enter(e)
    PROVE  /\ \E p \in SimPositions :
                 /\ positions' = positions \cup {p} /\ openTags' = openTags \cup {p.tag}
                 /\ p.held = 0 /\ ~p.reached
                 /\ Replay!Gain(p, p.sl, mid) > 0 /\ Replay!Gain(p, mid, p.tp) > 0
                 /\ \A q \in positions : q.engine # p.engine /\ q.dir = p.dir
           /\ balance' = balance - SideCost /\ tradesToday < DayLimit /\ tradesToday' = tradesToday + 1
           /\ phase' \in Replay!Phases /\ UNCHANGED <<mid, booked, index, flattered>>
<1>1. PICK dir \in Replay!Directions, sl \in 1..TopPrice, tp \in 1..TopPrice,
           tag \in PlanTags \ openTags, slip \in 0..WorstSlip :
        LET plan == [engine |-> e, dir |-> dir, sl |-> sl, tp |-> tp, entry |-> mid,
                     tag |-> tag, held |-> 0, reached |-> FALSE]
            fill == Replay!EntryPrice(plan) + slip * Replay!Sign(plan) IN
        /\ Replay!Admitted(e, dir)
        /\ Replay!Gain(plan, sl, mid) > 0 /\ Replay!Gain(plan, fill, tp) > 0
        /\ Replay!WorthIt(plan, e)
        /\ Replay!Fillable(plan, fill, SlipLimit)
        /\ Replay!Fill([plan EXCEPT !.entry = fill])
        /\ openTags' = openTags \cup {tag}
  BY Zenon DEF Replay!Enter
<1> DEFINE plan == [engine |-> e, dir |-> dir, sl |-> sl, tp |-> tp, entry |-> mid,
                    tag |-> tag, held |-> 0, reached |-> FALSE]
           fill == Replay!EntryPrice(plan) + slip * Replay!Sign(plan)
           p == [plan EXCEPT !.entry = fill]
<1>2. /\ Replay!Admitted(e, dir)
      /\ Replay!Gain(plan, sl, mid) > 0 /\ Replay!Gain(plan, fill, tp) > 0
      /\ Replay!Fill(p) /\ openTags' = openTags \cup {tag}
  BY <1>1
<1>3. mid \in Int /\ HalfSpread \in Nat /\ WorstSlip \in Nat /\ TopPrice \in Nat
  BY DEF BooksInv, ReplayAssumption
<1>4. /\ plan \in SimPositions /\ plan.engine = e /\ plan.dir = dir /\ plan.sl = sl /\ plan.tp = tp
      /\ plan.tag = tag /\ plan.held = 0 /\ ~plan.reached /\ dir \in {"LONG", "SHORT"}
  BY <1>3 DEF SimPositions, Replay!Directions
<1>5. Replay!EntryPrice(plan) = mid + HalfSpread * Replay!Sign(plan)
  BY DEF Replay!EntryPrice
<1> HIDE DEF plan
<1>6. fill \in Int /\ Replay!Gain(plan, mid, tp) > 0
  <2>1. CASE dir = "LONG"
    <3>1. Replay!Sign(plan) = 1 /\ Replay!Gain(plan, fill, tp) > 0
      BY <1>2, <1>4, <2>1 DEF Replay!Sign
    <3>2. fill \in Int /\ mid <= fill
      BY <1>3, <1>5, <3>1
    <3> HIDE DEF fill
    <3>3. Replay!Gain(plan, fill, tp) = tp - fill /\ Replay!Gain(plan, mid, tp) = tp - mid
      BY <1>3, <1>4, <2>1, <3>2, Sides
    <3> QED
      BY <1>3, <3>1, <3>2, <3>3
  <2>2. CASE dir = "SHORT"
    <3>1. Replay!Sign(plan) = -1 /\ Replay!Gain(plan, fill, tp) > 0
      BY <1>2, <1>4, <2>2 DEF Replay!Sign
    <3>2. fill \in Int /\ fill <= mid
      BY <1>3, <1>5, <3>1
    <3> HIDE DEF fill
    <3>3. Replay!Gain(plan, fill, tp) = fill - tp /\ Replay!Gain(plan, mid, tp) = mid - tp
      BY <1>3, <1>4, <2>2, <3>2, Sides
    <3> QED
      BY <1>3, <3>1, <3>2, <3>3
  <2> QED
    BY <1>4, <2>1, <2>2
<1> HIDE DEF fill
<1>7. /\ p \in SimPositions /\ p.engine = e /\ p.dir = dir /\ p.sl = sl /\ p.tp = tp /\ p.tag = tag
      /\ p.held = 0 /\ ~p.reached
  BY <1>4, <1>6 DEF SimPositions
<1>8. Replay!Gain(p, sl, mid) = Replay!Gain(plan, sl, mid) /\ Replay!Gain(p, mid, tp) = Replay!Gain(plan, mid, tp)
  BY <1>4, <1>7 DEF Replay!Gain, Replay!Sign
<1> HIDE DEF p
<1>9. tradesToday < DayLimit /\ \A q \in positions : q.engine # e /\ q.dir = dir
  BY <1>2 DEF Replay!Admitted, Replay!Tolerated
<1>10. positions' = positions \cup {p} /\ balance' = balance - SideCost /\ UNCHANGED <<mid, booked>>
  BY <1>2 DEF Replay!Fill
<1>11. tradesToday' = tradesToday + 1 /\ phase' = Replay!After(e) /\ UNCHANGED <<index, flattered>>
  BY DEF Replay!Enter
<1>12. phase' \in Replay!Phases
  BY <1>11 DEF Replay!After, Replay!Engines, Replay!Phases
<1> QED
  BY <1>2, <1>6, <1>7, <1>8, <1>9, <1>10, <1>11, <1>12

\* The books are empty at the start.
LEMMA BooksStart == ASSUME ReplayAssumption, Replay!Init PROVE BooksInv
<1>1. IsFiniteSet({}) /\ Cardinality({}) = 0 /\ SideCost * 0 = 0
  BY FS_EmptySet DEF ReplayAssumption
<1> QED
  <2>1. /\ mid \in 1..TopPrice /\ balance = 0 /\ booked = 0 /\ positions = {} /\ index = 0
        /\ phase = "bar" /\ tradesToday = 0 /\ openTags = {} /\ flattered = FALSE
    BY DEF Replay!Init
  <2>2. ReplayedBars \in Nat /\ DayLimit \in Nat
    BY DEF ReplayAssumption
  <2> QED
    <3>1. balance = booked - SideCost * Cardinality(positions)
      BY <1>1, <2>1
    <3>2. IsFiniteSet(positions) /\ positions \in SUBSET SimPositions
      BY <1>1, <2>1
    <3>3. index \in 0..ReplayedBars /\ tradesToday \in 0..DayLimit
      BY <2>1, <2>2
    <3>4. openTags \subseteq PlanTags /\ flattered \in BOOLEAN /\ phase \in Replay!Phases
      BY <2>1 DEF Replay!Phases
    <3>5. balance \in Int /\ booked \in Int /\ \A p \in positions : FALSE
      BY <2>1
    <3> QED
      BY <2>1, <3>1, <3>2, <3>3, <3>4, <3>5 DEF BooksInv

\* What a step takes from the positions it adds to what was closed, and to the balance.
LEMMA BooksStep ==
    ASSUME ReplayAssumption, BooksInv, [Replay!Next]_replayVars
    PROVE  BooksInv'
<1>1. CASE Replay!Advance
  BY <1>1, BarKeepsBooks
<1>2. CASE Replay!Manage
  BY <1>2, ManageKeepsBooks
<1>3. CASE Replay!Finish
  <2> DEFINE price == [p \in positions |-> Replay!MarketExit(p)]
             keep == [p \in {} |-> p]
  <2>1. /\ Replay!Settle(positions, price) /\ positions' = {} /\ phase' = "ended"
        /\ UNCHANGED <<mid, index, tradesToday, openTags, flattered>>
    BY <1>3 DEF Replay!Finish, Replay!CloseAll
  <2>2. positions \in SUBSET SimPositions /\ mid \in Int /\ SideCost \in Int
    BY DEF BooksInv, ReplayAssumption
  <2>3. \A p \in positions : price[p] \in Int
    BY <2>2, ExitIs
  <2>4. /\ \A p \in positions \ positions : keep[p].engine = p.engine /\ keep[p].dir = p.dir
        /\ \A q : q \in positions' <=> \E p \in positions \ positions : q = keep[p]
    BY <2>1
  <2> HIDE DEF price, keep
  <2>5. /\ balance' \in Int /\ booked' \in Int /\ IsFiniteSet(positions')
        /\ balance' = booked' - SideCost * Cardinality(positions')
    BY <2>1, <2>2, <2>3, <2>4, KeptBooks
  <2> QED
    BY <2>1, <2>5 DEF BooksInv, Replay!Phases
<1>4. ASSUME NEW e \in Replay!Engines, Replay!Enter(e) PROVE BooksInv'
  <2>1. PICK p \in SimPositions :
          /\ positions' = positions \cup {p} /\ openTags' = openTags \cup {p.tag} /\ p.held = 0
          /\ \A q \in positions : q.engine # p.engine /\ q.dir = p.dir
    BY <1>4, EntryIs
  <2>2. /\ balance' = balance - SideCost /\ tradesToday < DayLimit /\ tradesToday' = tradesToday + 1
        /\ phase' \in Replay!Phases /\ UNCHANGED <<mid, booked, index, flattered>>
    BY <1>4, EntryIs
  <2>3. /\ balance \in Int /\ booked \in Int /\ IsFiniteSet(positions)
        /\ balance = booked - SideCost * Cardinality(positions)
        /\ tradesToday \in 0..DayLimit /\ SideCost \in Int /\ DayLimit \in Nat
    BY DEF BooksInv, ReplayAssumption
  <2>4. p \notin positions
    BY <2>1
  <2>5. IsFiniteSet(positions') /\ Cardinality(positions') = Cardinality(positions) + 1
    BY <2>1, <2>3, <2>4, FS_AddElement
  <2>6. Cardinality(positions) \in Nat
    BY <2>3, FS_CardinalityType
  <2>7. SideCost * Cardinality(positions') = SideCost * Cardinality(positions) + SideCost
    BY <2>3, <2>5, <2>6
  <2>8. balance' \in Int /\ balance' = booked' - SideCost * Cardinality(positions')
    BY <2>2, <2>3, <2>5, <2>6, <2>7
  <2>9. tradesToday' \in 0..DayLimit
    BY <2>2, <2>3
  <2>10. p.tag \in PlanTags /\ p.held <= index
    BY <2>1, SimFields DEF BooksInv
  <2> QED
    BY <2>1, <2>2, <2>5, <2>8, <2>9, <2>10 DEF BooksInv
<1>5. ASSUME NEW e \in Replay!Engines, Replay!Pass(e) PROVE BooksInv'
  BY <1>5 DEF Replay!Pass, Replay!brokerVars, Replay!After, Replay!Engines, BooksInv, Replay!Phases
<1>6. CASE UNCHANGED replayVars
  BY <1>6 DEF replayVars, BooksInv
<1> QED
  BY <1>1, <1>2, <1>3, <1>4, <1>5, <1>6 DEF Replay!Next

\* Gains depend on the side alone.
LEMMA SameSide ==
    ASSUME NEW p, NEW q, q.dir = p.dir
    PROVE  \A a, b : Replay!Gain(q, a, b) = Replay!Gain(p, a, b)
BY DEF Replay!Gain, Replay!Sign

\* A gain over two legs is the sum of theirs.
LEMMA GainsAdd ==
    ASSUME NEW p \in SimPositions, NEW a \in Int, NEW b \in Int, NEW c \in Int
    PROVE  /\ Replay!Gain(p, a, b) \in Int /\ Replay!Gain(p, b, c) \in Int
           /\ Replay!Gain(p, a, c) = Replay!Gain(p, a, b) + Replay!Gain(p, b, c)
<1>1. p.dir \in {"LONG", "SHORT"}
  BY SimFields DEF Replay!Directions
<1>2. CASE p.dir = "LONG"
  <2>1. Replay!Gain(p, a, b) = b - a /\ Replay!Gain(p, b, c) = c - b /\ Replay!Gain(p, a, c) = c - a
    BY <1>2, Sides
  <2> QED
    BY <2>1
<1>3. CASE p.dir = "SHORT"
  <2>1. Replay!Gain(p, a, b) = a - b /\ Replay!Gain(p, b, c) = b - c /\ Replay!Gain(p, a, c) = a - c
    BY <1>3, Sides
  <2> QED
    BY <2>1
<1> QED
  BY <1>1, <1>2, <1>3

\* A stop that was moved to break-even stays behind the price of the entry.
LEMMA BreakEvenStep ==
    ASSUME ReplayAssumption, StopsLevel <= 1, BooksInv, Replay!BreakEvenKept, [Replay!Next]_replayVars
    PROVE  Replay!BreakEvenKept'
<1>1. positions \in SUBSET SimPositions /\ mid \in Int
  BY DEF BooksInv, ReplayAssumption
<1>2. \A p \in positions : p.reached => Replay!Gain(p, p.entry, p.sl) >= 0
  BY DEF Replay!BreakEvenKept
<1>3. CASE Replay!Advance
  <2>1. \A q \in positions' : \E p \in positions : q = [p EXCEPT !.held = @ + 1]
    BY <1>3 DEF Replay!Advance, Replay!StepBar
  <2>2. ASSUME NEW p \in positions, NEW q, q = [p EXCEPT !.held = @ + 1], q.reached
        PROVE  Replay!Gain(q, q.entry, q.sl) >= 0
    <3>1. q.dir = p.dir /\ q.entry = p.entry /\ q.sl = p.sl /\ q.reached = p.reached
      BY <1>1, <2>2, HeldLonger
    <3>2. p.reached
      BY <2>2, <3>1, Zenon
    <3>3. Replay!Gain(q, q.entry, q.sl) = Replay!Gain(p, p.entry, p.sl)
      BY <3>1, SameSide
    <3> QED
      BY <1>2, <3>2, <3>3
  <2> QED
    BY <2>1, <2>2 DEF Replay!BreakEvenKept
<1>4. CASE Replay!Manage
  <2>1. \A q \in positions' : \E p \in positions : q = Replay!Managed(p)
    BY <1>4 DEF Replay!Manage
  <2>2. ASSUME NEW p \in positions, NEW q, q = Replay!Managed(p), q.reached
        PROVE  Replay!Gain(q, q.entry, q.sl) >= 0
    <3>1. p \in SimPositions /\ q \in SimPositions
      BY <1>1, <2>2, ManagedIs
    <3>2. q.dir = p.dir /\ q.entry = p.entry /\ Replay!Gain(p, p.sl, q.sl) >= 0
      BY <1>1, <2>2, ManagedIs
    <3>3. Replay!AtR(p, BreakEvenAt) => Replay!Gain(p, p.entry, q.sl) >= 0
      BY <1>1, <2>2, ManagedIs
    <3>4. p.reached \/ Replay!AtR(p, BreakEvenAt)
      BY <1>1, <2>2, ManagedIs
    <3>5. p.entry \in Int /\ p.sl \in Int /\ q.sl \in Int
      BY <3>1, SimFields
    <3>6. p.reached => Replay!Gain(p, p.entry, q.sl) >= 0
      BY <1>2, <3>1, <3>2, <3>5, GainsAdd
    <3>7. Replay!Gain(q, q.entry, q.sl) = Replay!Gain(p, p.entry, q.sl)
      BY <3>2, SameSide
    <3> QED
      BY <3>3, <3>4, <3>6, <3>7
  <2> QED
    BY <2>1, <2>2 DEF Replay!BreakEvenKept
<1>5. CASE Replay!Finish
  BY <1>5 DEF Replay!Finish, Replay!CloseAll, Replay!BreakEvenKept
<1>6. ASSUME NEW e \in Replay!Engines, Replay!Enter(e) PROVE Replay!BreakEvenKept'
  <2>1. PICK p \in SimPositions : positions' = positions \cup {p} /\ ~p.reached
    BY <1>6, EntryIs
  <2> QED
    BY <1>2, <2>1 DEF Replay!BreakEvenKept
<1>7. ASSUME NEW e \in Replay!Engines, Replay!Pass(e) PROVE Replay!BreakEvenKept'
  BY <1>7 DEF Replay!Pass, Replay!brokerVars, Replay!BreakEvenKept
<1>8. CASE UNCHANGED replayVars
  BY <1>8 DEF replayVars, Replay!BreakEvenKept
<1> QED
  BY <1>3, <1>4, <1>5, <1>6, <1>7, <1>8 DEF Replay!Next

\* Books that agree add up.
LEMMA BooksAreTyped == BooksInv => Replay!BooksBalance
<1> SUFFICES ASSUME BooksInv PROVE Replay!BooksBalance
  OBVIOUS
<1>1. \A p \in positions :
        /\ p.engine \in Replay!Engines /\ p.dir \in Replay!Directions /\ p.tag \in openTags
        /\ {p.entry, p.sl, p.tp} \subseteq Int
        /\ p.held \in 0..ReplayedBars /\ p.reached \in BOOLEAN
  <2> SUFFICES ASSUME NEW p \in positions
               PROVE  /\ p.engine \in Replay!Engines /\ p.dir \in Replay!Directions /\ p.tag \in openTags
                      /\ {p.entry, p.sl, p.tp} \subseteq Int
                      /\ p.held \in 0..ReplayedBars /\ p.reached \in BOOLEAN
    OBVIOUS
  <2>1. p \in SimPositions /\ p.tag \in openTags /\ p.held <= index /\ index \in 0..ReplayedBars
    BY DEF BooksInv
  <2>2. p.held \in Nat /\ ReplayedBars \in Nat
    BY <2>1, SimFields, ReplayAssumption DEF ReplayAssumption
  <2>3. p.held \in 0..ReplayedBars
    BY <2>1, <2>2
  <2> QED
    BY <2>1, <2>3, SimFields
<1>2. Replay!TypeOK
  BY <1>1 DEF BooksInv, Replay!TypeOK
<1>3. balance = booked - SideCost * Replay!Cardinality(positions)
  BY ReplaySame DEF BooksInv
<1> QED
  BY <1>2, <1>3 DEF Replay!BooksBalance

\* The trades that a replay reports add up to its balance, and what has reached
\* break-even cannot lose at its stop, if the broker takes a stop that is one unit
\* from the price.
THEOREM ReplaysAddUp == StopsLevel <= 1 => (StudySpec => []BooksBalance)
<1> SUFFICES ASSUME StopsLevel <= 1 PROVE StudySpec => []BooksBalance
  OBVIOUS
<1>1. StudyInit => BooksInv /\ Replay!BreakEvenKept
  BY ReplayAssumption, BooksStart DEF StudyInit, Replay!BreakEvenKept, Replay!Init
<1>2. BooksInv /\ Replay!BreakEvenKept /\ [StudyNext]_studyVars => BooksInv' /\ Replay!BreakEvenKept'
  BY ReplayAssumption, StudyMoves, BooksStep, BreakEvenStep DEF replayVars
<1>3. BooksInv /\ Replay!BreakEvenKept => BooksBalance
  BY BooksAreTyped DEF BooksBalance
<1> QED
  BY <1>1, <1>2, <1>3, PTL DEF StudySpec

-----------------------------------------------------------------------------
(* The judgement.                                                          *)

\* The evidence has values of its fields, those that vary one of their grades.
JudgeInv ==
    /\ DOMAIN f = Fields /\ \A k \in Fields : f[k] \in Values[k]
    /\ \A k \in VariedFields : \E i \in DOMAIN EvidenceGrades[k] : EvidenceGrades[k][i] = f[k]

\* The evidence has values of its fields at the start.
LEMMA JudgeStart == ASSUME JudgeAssumption, Judge!Init PROVE JudgeInv
BY DEF JudgeAssumption, Judge!Init, JudgeInv

\* A step gives one field another of its values.
LEMMA JudgeStep ==
    ASSUME JudgeAssumption, JudgeInv, [Judge!Next]_judgeVars
    PROVE  JudgeInv'
<1>1. CASE Judge!Next
  <2>7. PICK k \in VariedFields : Judge!Changes(k)
    BY <1>1 DEF Judge!Next
  <2>1. PICK i \in DOMAIN EvidenceGrades[k] : f' = [f EXCEPT ![k] = EvidenceGrades[k][i]]
    BY <2>7 DEF Judge!Changes
  <2>2. k \in Fields /\ EvidenceGrades[k][i] \in Values[k]
    BY DEF JudgeAssumption
  <2>3. DOMAIN f' = Fields /\ f'[k] = EvidenceGrades[k][i] /\ \A j \in Fields \ {k} : f'[j] = f[j]
    BY <2>1, <2>2 DEF JudgeInv
  <2>4. VariedFields \subseteq Fields
    BY DEF JudgeAssumption
  <2>5. \A j \in Fields : f'[j] \in Values[j]
    BY <2>2, <2>3 DEF JudgeInv
  <2>6. \A j \in VariedFields : \E n \in DOMAIN EvidenceGrades[j] : EvidenceGrades[j][n] = f'[j]
    BY <2>3, <2>4 DEF JudgeInv
  <2> QED
    BY <2>3, <2>5, <2>6 DEF JudgeInv
<1>2. CASE UNCHANGED judgeVars
  BY <1>2 DEF judgeVars, JudgeInv
<1> QED
  BY <1>1, <1>2

\* A field that is worsened is worse, and the others are as they were.
LEMMA WorsenedIs ==
    ASSUME JudgeAssumption, JudgeInv, JudgeInv', Judge!Next, NEW k \in VariedFields, Judge!Worsened(k)
    PROVE  /\ WorseGrade(k, f'[k], f[k])
           /\ \A j \in Fields \ {k} : f'[j] = f[j]
<1> DEFINE grades == EvidenceGrades[k]
<1>1. k \in Fields /\ VariedFields \subseteq Fields
  BY DEF JudgeAssumption
<1>2. PICK a \in DOMAIN grades : grades[a] = f[k]
  BY DEF JudgeInv
<1>3. PICK b \in DOMAIN grades : grades[b] = f'[k]
  BY DEF JudgeInv
<1>4. Judge!Position(k, f[k]) \in DOMAIN grades /\ grades[Judge!Position(k, f[k])] = f[k]
  BY <1>2 DEF Judge!Position
<1>5. Judge!Position(k, f'[k]) \in DOMAIN grades /\ grades[Judge!Position(k, f'[k])] = f'[k]
  BY <1>3 DEF Judge!Position
<1>6. Judge!Position(k, f'[k]) < Judge!Position(k, f[k])
  BY DEF Judge!Worsened
<1>7. \A i, j \in DOMAIN grades : i < j => WorseGrade(k, grades[i], grades[j])
  BY DEF JudgeAssumption
<1>8. WorseGrade(k, f'[k], f[k])
  BY <1>4, <1>5, <1>6, <1>7
<1>9. f'[k] # f[k]
  <2>1. \A i \in DOMAIN grades : i \in Int
    BY DEF JudgeAssumption
  <2> HIDE DEF grades
  <2>2. ASSUME f'[k] = f[k] PROVE FALSE
    <3>1. Judge!Position(k, f'[k]) = Judge!Position(k, f[k])
      BY <2>2 DEF Judge!Position
    <3> QED
      BY <1>4, <1>6, <2>1, <3>1
  <2> QED
    BY <2>2
<1>12. PICK m \in VariedFields : Judge!Changes(m)
  BY DEF Judge!Next
<1>10. PICK i \in DOMAIN EvidenceGrades[m] : f' = [f EXCEPT ![m] = EvidenceGrades[m][i]]
  BY <1>12 DEF Judge!Changes
<1>11. \A j \in Fields \ {m} : f'[j] = f[j]
  BY <1>10 DEF JudgeInv
<1> QED
  BY <1>1, <1>8, <1>9, <1>11

\* The values that the fields can have.
LEMMA FieldsAre ==
    ASSUME NEW g, \A k \in Fields : g[k] \in Values[k]
    PROVE  /\ g.htf \in {-100} \cup 0..100 /\ g.mss \in -1..100 /\ g.recency \in 0..100
           /\ g.sweep \in 0..100 /\ g.zone \in 0..100 /\ g.support \in 0..100
           /\ g.place \in {-9} \cup 0..100 /\ g.macro \in {-9} \cup -2..2 /\ g.hint \in Int
           /\ g.dollar \in 0..2 /\ g.session \in 0..2 /\ g.regime \in 0..2
           /\ g.spread \in -3..0 /\ g.news \in -3..0 /\ g.prob \in {-9} \cup 0..100
           /\ g.vol \in {"EXTREME", "LOW", "HIGH", "NORMAL"}
BY DEF Fields, Values

\* No field has become better.
Falls ==
    /\ \A k \in Numbers : f'[k] <= f[k]
    /\ \A k \in Given : f'[k] => f[k]
    /\ \A k \in Against : f[k] => f'[k]
    /\ Calm[f'.vol] <= Calm[f.vol]

\* A field with a worse grade has, as a number or a sign, no better value.
LEMMA FieldFalls ==
    ASSUME JudgeInv, JudgeInv', NEW k \in Fields, k # "healthy", WorseGrade(k, f'[k], f[k]),
           \A j \in Fields \ {k} : f'[j] = f[j]
    PROVE  Falls /\ f'.healthy = f.healthy
<1>1. /\ Numbers \subseteq Fields /\ Given \subseteq Fields /\ Against \subseteq Fields
      /\ "vol" \in Fields /\ "healthy" \in Fields
  BY DEF Numbers, Given, Against, Fields, Values
<1>2. \A j \in Numbers : f[j] \in Int /\ f'[j] \in Int
  <2>1. \A g : (\A j \in Fields : g[j] \in Values[j]) => \A j \in Numbers : g[j] \in Int
    BY FieldsAre DEF Numbers
  <2> QED
    BY <2>1 DEF JudgeInv
<1>3. \A j \in Numbers : j \notin Given /\ j \notin Against /\ j # "vol"
  BY DEF Numbers, Given, Against
<1>4. ASSUME NEW j \in Numbers PROVE f'[j] <= f[j]
  <2>1. CASE j = k
    <3>1. WorseGrade(k, f'[k], f[k]) <=> f'[k] < f[k]
      BY <1>3, <2>1 DEF WorseGrade
    <3> QED
      BY <1>2, <2>1, <3>1
  <2>2. CASE j # k
    BY <1>1, <1>2, <2>2
  <2> QED
    BY <2>1, <2>2
<1>5. ASSUME NEW j \in Given PROVE f'[j] => f[j]
  <2>1. CASE j = k
    <3>1. k \notin Against
      BY <2>1 DEF Given, Against
    <3> QED
      BY <2>1, <3>1, Zenon DEF WorseGrade
  <2>2. CASE j # k
    BY <1>1, <2>2, Zenon
  <2> QED
    BY <2>1, <2>2
<1>6. ASSUME NEW j \in Against PROVE f[j] => f'[j]
  <2>1. CASE j = k
    BY <2>1, Zenon DEF WorseGrade
  <2>2. CASE j # k
    BY <1>1, <2>2, Zenon
  <2> QED
    BY <2>1, <2>2
<1>7. Calm[f'.vol] <= Calm[f.vol]
  <2>1. Calm[f.vol] \in Int /\ Calm[f'.vol] \in Int
    <3>1. \A g : (\A j \in Fields : g[j] \in Values[j]) => Calm[g.vol] \in Int
      BY FieldsAre DEF Calm
    <3> QED
      BY <3>1 DEF JudgeInv
  <2>2. CASE k = "vol"
    <3>1. k \notin Given /\ k \notin Against
      BY <2>2 DEF Given, Against
    <3>2. Calm[f'[k]] < Calm[f[k]]
      BY <2>2, <3>1 DEF WorseGrade
    <3> QED
      BY <2>1, <2>2, <3>2
  <2>3. CASE k # "vol"
    <3>1. f'["vol"] = f["vol"]
      BY <1>1, <2>3
    <3> QED
      BY <2>1, <3>1
  <2> QED
    BY <2>2, <2>3
<1>8. f'["healthy"] = f["healthy"]
  BY <1>1
<1> QED
  BY <1>4, <1>5, <1>6, <1>7, <1>8, Zenon DEF Falls

\* What may be missing is not, or it was already, or it did not oppose the trade:
\* the losses of which the judgement makes nothing better.
HarmlessLoss ==
    /\ f'.macro = -9 => f.macro = -9 \/ f.macro >= 0
    /\ f.fresh /\ ~f'.fresh => f.hint >= 0
    /\ f'.place = -9 => f.place = -9 \/ f.place >= 40
    /\ f'.prob = -9 => f.prob = -9

\* Worse evidence, in the fields that are numbers.
LEMMA NumbersFall ==
    ASSUME Falls
    PROVE  /\ f'.htf <= f.htf /\ f'.mss <= f.mss /\ f'.recency <= f.recency
           /\ f'.sweep <= f.sweep /\ f'.zone <= f.zone /\ f'.support <= f.support
           /\ f'.place <= f.place /\ f'.macro <= f.macro /\ f'.hint <= f.hint
           /\ f'.dollar <= f.dollar /\ f'.session <= f.session /\ f'.regime <= f.regime
           /\ f'.spread <= f.spread /\ f'.news <= f.news /\ f'.prob <= f.prob
BY DEF Falls, Numbers

\* Worse evidence, in the fields that are signs.
LEMMA SignsFall ==
    ASSUME Falls
    PROVE  /\ (f'.bos => f.bos) /\ (f'.target => f.target) /\ (f'.fresh => f.fresh)
           /\ (f'.killzone => f.killzone) /\ (f'.clear => f.clear) /\ (f'.system => f.system)
           /\ (f'.calendar => f.calendar) /\ (f'.account => f.account) /\ (f'.stop => f.stop)
           /\ (f'.sized => f.sized) /\ (f'.proven => f.proven) /\ (f'.rr => f.rr)
           /\ (f.blocked => f'.blocked) /\ (f.blackout => f'.blackout) /\ (f.real => f'.real)
<1>1. \A k \in Given : f'[k] => f[k]
  BY Zenon DEF Falls
<1>2. \A k \in Against : f[k] => f'[k]
  BY Zenon DEF Falls
<1> QED
  BY <1>1, <1>2, Zenon DEF Given, Against

\* A hundredth of less is not more.
LEMMA HundredthFalls ==
    ASSUME NEW a \in Int, NEW b \in Int, a <= b
    PROVE  a \div 100 \in Int /\ b \div 100 \in Int /\ a \div 100 <= b \div 100
OBVIOUS

\* A share in percent of less is not more.
LEMMA PartFalls ==
    ASSUME NEW m \in Nat \ {0}, NEW a \in Int, NEW b \in Int, a <= b
    PROVE  /\ (m * a) \div 100 \in Int /\ (m * b) \div 100 \in Int
           /\ (m * a) \div 100 <= (m * b) \div 100
           /\ b >= 0 => (m * b) \div 100 >= 0
<1>1. m * a \in Int /\ m * b \in Int /\ m * a <= m * b
  BY Products
<1>2. b >= 0 => m * b >= 0
  BY Products
<1> DEFINE c == m * a
           d == m * b
<1> HIDE DEF c, d
<1>3. c \div 100 \in Int /\ d \div 100 \in Int /\ c \div 100 <= d \div 100
  BY <1>1, HundredthFalls DEF c, d
<1>4. d >= 0 => d \div 100 >= 0
  BY <1>1 DEF d
<1> QED
  BY <1>2, <1>3, <1>4 DEF c, d

\* Half of less is not more.
LEMMA HalfFalls ==
    ASSUME NEW a \in Int, NEW b \in Int, a <= b
    PROVE  a \div 2 \in Int /\ b \div 2 \in Int /\ a \div 2 <= b \div 2
OBVIOUS

\* Five thirds of less are not more.
LEMMA ThirdsFall ==
    ASSUME NEW a \in Int, NEW b \in Int, a <= b
    PROVE  (a * 5) \div 3 \in Int /\ (b * 5) \div 3 \in Int /\ (a * 5) \div 3 <= (b * 5) \div 3
<1>1. a * 5 \in Int /\ b * 5 \in Int /\ a * 5 <= b * 5
  OBVIOUS
<1>2. \A c, d \in Int : c <= d => c \div 3 \in Int /\ d \div 3 \in Int /\ c \div 3 <= d \div 3
  OBVIOUS
<1> QED
  BY <1>1, <1>2

\* Less is not more after it was clamped.
LEMMA ClampFalls ==
    ASSUME NEW a \in Int, NEW b \in Int, a <= b
    PROVE  /\ Judge!Clamp(a) \in 0..100 /\ Judge!Clamp(b) \in 0..100
           /\ Judge!Clamp(a) <= Judge!Clamp(b)
BY DEF Judge!Clamp, Judge!Min2, Judge!Max2

\* Every share of every category falls.
LEMMA SharesFall ==
    ASSUME JudgeAssumption, JudgeInv, JudgeInv', Falls, HarmlessLoss
    PROVE  \A c \in Judge!Categories :
               Judge!Share[c] \in 0..100 /\ Judge!Share'[c] \in 0..100 /\ Judge!Share'[c] <= Judge!Share[c]
<1> DEFINE Lower(a, b) == a \in 0..100 /\ b \in 0..100 /\ a <= b
           Falling(a, b) == a \in Int /\ b \in Int /\ a <= b
<1>1. /\ f.htf \in {-100} \cup 0..100 /\ f.mss \in -1..100 /\ f.recency \in 0..100
      /\ f.sweep \in 0..100 /\ f.zone \in 0..100 /\ f.support \in 0..100
      /\ f.place \in {-9} \cup 0..100 /\ f.macro \in {-9} \cup -2..2 /\ f.hint \in Int
      /\ f.dollar \in 0..2 /\ f.session \in 0..2 /\ f.regime \in 0..2
      /\ f.vol \in {"EXTREME", "LOW", "HIGH", "NORMAL"}
  BY FieldsAre DEF JudgeInv
<1>2. /\ f'.htf \in {-100} \cup 0..100 /\ f'.mss \in -1..100 /\ f'.recency \in 0..100
      /\ f'.sweep \in 0..100 /\ f'.zone \in 0..100 /\ f'.support \in 0..100
      /\ f'.place \in {-9} \cup 0..100 /\ f'.macro \in {-9} \cup -2..2 /\ f'.hint \in Int
      /\ f'.dollar \in 0..2 /\ f'.session \in 0..2 /\ f'.regime \in 0..2
      /\ f'.vol \in {"EXTREME", "LOW", "HIGH", "NORMAL"}
  BY FieldsAre DEF JudgeInv
<1>3. Falling(Judge!HtfBias', Judge!HtfBias)
  <2>1. Falling((f'.htf + 100) \div 2, (f.htf + 100) \div 2)
    <3>1. Falling(f'.htf + 100, f.htf + 100)
      <4>1. f'.htf \in Int /\ f.htf \in Int /\ f'.htf <= f.htf
        BY <1>1, <1>2, NumbersFall
      <4> QED
        BY <4>1
    <3> QED
      BY <3>1, HalfFalls
  <2>2. f.htf >= 0 => (f.htf + 100) \div 2 >= 0
    BY <1>1
  <2> QED
    BY <1>1, <1>2, <2>1, <2>2, NumbersFall DEF Judge!HtfBias, Judge!If
<1>4. Falling(Judge!Structure', Judge!Structure)
  <2>1. Falling((55 * f'.mss) \div 100, (55 * f.mss) \div 100) /\ (f.mss >= 0 => (55 * f.mss) \div 100 >= 0)
    <3>1. Falling(f'.mss, f.mss)
      BY <1>1, <1>2, NumbersFall
    <3> QED
      BY <3>1, PartFalls
  <2>2. Falling((15 * f'.recency) \div 100, (15 * f.recency) \div 100)
    <3>1. Falling(f'.recency, f.recency)
      BY <1>1, <1>2, NumbersFall
    <3> QED
      BY <3>1, PartFalls
  <2> DEFINE m == (55 * f.mss) \div 100
             r == (15 * f.recency) \div 100
  <2>3. Judge!Structure = Judge!If(f.mss >= 0, m + 10) + Judge!If(f.bos, 20) + r
    BY Zenon DEF Judge!Structure
  <2>4. Judge!Structure' = Judge!If(f.mss >= 0, m + 10)' + Judge!If(f.bos, 20)' + r'
    BY Zenon DEF Judge!Structure
  <2>5. Falling(m, m) /\ Falling(m', m) /\ Falling(r', r) /\ (f.mss >= 0 => m >= 0)
    BY <2>1, <2>2
  <2> HIDE DEF m, r
  <2>6. Falling(Judge!If(f.mss >= 0, m + 10)', Judge!If(f.mss >= 0, m + 10))
    <3>1. f.mss \in Int /\ f'.mss \in Int /\ (f'.mss >= 0 => f.mss >= 0)
      BY <1>1, <1>2, NumbersFall
    <3>2. Judge!If(f.mss >= 0, m + 10) = IF f.mss >= 0 THEN m + 10 ELSE 0
      BY Zenon DEF Judge!If
    <3>3. Judge!If(f.mss >= 0, m + 10)' = IF f'.mss >= 0 THEN m' + 10 ELSE 0
      BY Zenon DEF Judge!If
    <3> QED
      BY <2>5, <3>1, <3>2, <3>3
  <2>7. Falling(Judge!If(f.bos, 20)', Judge!If(f.bos, 20))
    BY SignsFall DEF Judge!If
  <2> QED
    BY <2>3, <2>4, <2>5, <2>6, <2>7
<1>5. Falling(Judge!Liquidity', Judge!Liquidity)
  <2>1. Falling((75 * f'.sweep) \div 100, (75 * f.sweep) \div 100)
    <3>1. Falling(f'.sweep, f.sweep)
      BY <1>1, <1>2, NumbersFall
    <3> QED
      BY <3>1, PartFalls
  <2>2. Falling(Judge!If(f.sweep > 0, 10)', Judge!If(f.sweep > 0, 10))
    BY <1>1, <1>2, NumbersFall DEF Judge!If
  <2>3. Falling(Judge!If(f.target, 15)', Judge!If(f.target, 15))
    BY SignsFall DEF Judge!If
  <2> QED
    BY <2>1, <2>2, <2>3 DEF Judge!Liquidity
<1>6. Falling(Judge!Zones', Judge!Zones)
  <2>1. Falling((70 * f'.zone) \div 100, (70 * f.zone) \div 100)
    <3>1. Falling(f'.zone, f.zone)
      BY <1>1, <1>2, NumbersFall
    <3> QED
      BY <3>1, PartFalls
  <2>2. Falling(Judge!If(f.zone = 100, 20)', Judge!If(f.zone = 100, 20))
    BY <1>1, <1>2, NumbersFall DEF Judge!If
  <2>3. Falling(Judge!If(f.zone > 0, 10)', Judge!If(f.zone > 0, 10))
    BY <1>1, <1>2, NumbersFall DEF Judge!If
  <2> QED
    BY <2>1, <2>2, <2>3 DEF Judge!Zones
<1>13. Judge!RightSide' => Judge!RightSide
  BY <1>1, <1>2, NumbersFall DEF Judge!RightSide
<1>7. Falling(Judge!Levels', Judge!Levels)
  <2>1. Falling((80 * f'.support) \div 100, (80 * f.support) \div 100)
    <3>1. Falling(f'.support, f.support)
      BY <1>1, <1>2, NumbersFall
    <3> QED
      BY <3>1, PartFalls
  <2>2. Falling(Judge!If(Judge!RightSide, 20)', Judge!If(Judge!RightSide, 20))
    BY <1>13 DEF Judge!If
  <2> QED
    BY <2>1, <2>2 DEF Judge!Levels
<1>8. Lower(Judge!Fundamentals', Judge!Fundamentals)
  <2>1. Falling(Judge!MacroShare', Judge!MacroShare)
    BY <1>1, <1>2, NumbersFall
       DEF Judge!MacroShare, Judge!Known, Judge!Unknown, HarmlessLoss, Judge!Clamp, Judge!Min2, Judge!Max2
  <2>2. /\ HintShare * f.hint \in Int /\ HintShare * f'.hint \in Int
        /\ HintShare * f'.hint <= HintShare * f.hint
        /\ f.hint >= 0 => HintShare * f.hint >= 0
    BY <1>1, <1>2, NumbersFall, Products DEF JudgeAssumption
  <2>3. Falling(Judge!If(f.fresh, HintShare * f.hint)', Judge!If(f.fresh, HintShare * f.hint))
    BY <1>1, <1>2, <2>2, SignsFall DEF HarmlessLoss, Judge!If
  <2> QED
    <3> DEFINE a == Judge!MacroShare + Judge!If(f.fresh, HintShare * f.hint)
    <3>1. Judge!Fundamentals = Judge!Clamp(a) /\ Judge!Fundamentals' = Judge!Clamp(a')
      BY Zenon DEF Judge!Fundamentals
    <3>2. Falling(a', a)
      BY <2>1, <2>3
    <3> HIDE DEF a
    <3> QED
      BY <3>1, <3>2, ClampFalls
<1>9. Lower(Judge!Dollar', Judge!Dollar)
  BY <1>1, <1>2, NumbersFall DEF Judge!Dollar
<1>10. Falling(Judge!Session', Judge!Session)
  BY <1>1, <1>2, NumbersFall, SignsFall DEF Judge!Session, Judge!If
<1>11. Falling(Judge!Volatility', Judge!Volatility)
  BY <1>1, <1>2, NumbersFall DEF Judge!Volatility, Falls, Calm, Judge!If
<1>12. Falling(Judge!EntryConfirmation', Judge!EntryConfirmation)
  <2>1. Falling(Judge!Min2(100, (f'.sweep * 5) \div 3), Judge!Min2(100, (f.sweep * 5) \div 3))
    <3>1. Falling(f'.sweep, f.sweep)
      BY <1>1, <1>2, NumbersFall
    <3>2. Falling((f'.sweep * 5) \div 3, (f.sweep * 5) \div 3)
      BY <3>1, ThirdsFall
    <3> QED
      BY <3>2 DEF Judge!Min2
  <2>2. Falling((35 * Judge!Min2(100, (f'.sweep * 5) \div 3)) \div 100,
                (35 * Judge!Min2(100, (f.sweep * 5) \div 3)) \div 100)
    BY <2>1, HundredthFalls
  <2>3. Falling(Judge!If(Judge!RightSide, 30)', Judge!If(Judge!RightSide, 30))
    BY <1>13 DEF Judge!If
  <2> QED
    BY <2>2, <2>3 DEF Judge!EntryConfirmation
<1>14. /\ Lower(Judge!Clamp(Judge!HtfBias)', Judge!Clamp(Judge!HtfBias))
       /\ Lower(Judge!Clamp(Judge!Structure)', Judge!Clamp(Judge!Structure))
       /\ Lower(Judge!Clamp(Judge!Liquidity)', Judge!Clamp(Judge!Liquidity))
       /\ Lower(Judge!Clamp(Judge!Zones)', Judge!Clamp(Judge!Zones))
       /\ Lower(Judge!Clamp(Judge!Levels)', Judge!Clamp(Judge!Levels))
  BY <1>3, <1>4, <1>5, <1>6, <1>7, ClampFalls
<1>15. /\ Lower(Judge!Clamp(Judge!Session)', Judge!Clamp(Judge!Session))
       /\ Lower(Judge!Clamp(Judge!Volatility)', Judge!Clamp(Judge!Volatility))
       /\ Lower(Judge!Clamp(Judge!EntryConfirmation)', Judge!Clamp(Judge!EntryConfirmation))
  BY <1>10, <1>11, <1>12, ClampFalls
<1> QED
  <2>1. ASSUME NEW c \in Judge!Categories PROVE Lower(Judge!Share'[c], Judge!Share[c])
    <3>1. c \in {"htf", "structure", "liquidity", "zones", "levels", "fundamentals", "dollar",
                 "session", "volatility", "entry"}
      BY DEF Judge!Categories, Judge!Weight
    <3> HIDE DEF Lower
    <3> QED
      BY <1>8, <1>9, <1>14, <1>15, <3>1 DEF Judge!Share
  <2> QED
    BY <2>1

\* Worse evidence is not penalised less.
LEMMA PenaltiesRise ==
    ASSUME JudgeInv, JudgeInv', Falls, HarmlessLoss
    PROVE  Judge!Penalties \in Int /\ Judge!Penalties' \in Int /\ Judge!Penalties <= Judge!Penalties'
<1>1. /\ f.macro \in {-9} \cup -2..2 /\ f.session \in 0..2 /\ f.spread \in -3..0 /\ f.news \in -3..0
      /\ f.vol \in {"EXTREME", "LOW", "HIGH", "NORMAL"}
  BY FieldsAre DEF JudgeInv
<1>2. /\ f'.macro \in {-9} \cup -2..2 /\ f'.session \in 0..2 /\ f'.spread \in -3..0 /\ f'.news \in -3..0
      /\ f'.vol \in {"EXTREME", "LOW", "HIGH", "NORMAL"}
  BY FieldsAre DEF JudgeInv
<1> DEFINE news(g) == CASE g.news = 0 -> 0 [] g.news = -1 -> 300 [] g.news = -2 -> 900 [] g.news = -3 -> 1500
           opposed(g) == IF g.macro # -9 /\ g.macro < 0 THEN -500 * g.macro ELSE 0
           extreme(g) == CASE g.vol = "EXTREME" -> 800 [] g.vol = "LOW" -> 400 [] OTHER -> 0
           spread(g) == CASE g.spread >= 0 -> 0 [] g.spread = -1 -> 400 [] OTHER -> 800
           closed(g) == IF g.session = 0 THEN 500 ELSE 0
           unclear(g) == IF ~g.clear THEN 500 ELSE 0
           missing(g) == (IF ~g.fresh THEN 300 ELSE 0) + (IF ~(g.macro # -9) THEN 300 ELSE 0)
           blocked(g) == IF g.blocked THEN 500 ELSE 0
           sum(g) == news(g) + opposed(g) + extreme(g) + spread(g) + closed(g) + unclear(g)
                     + missing(g) + blocked(g)
           Higher(a, b) == a \in Int /\ b \in Int /\ a <= b
<1>3. Higher(news(f), news(f'))
  BY <1>1, <1>2, NumbersFall
<1>4. Higher(opposed(f), opposed(f'))
  BY <1>1, <1>2, NumbersFall DEF HarmlessLoss
<1>5. Higher(extreme(f), extreme(f'))
  BY <1>1, <1>2 DEF Falls, Calm
<1>6. Higher(spread(f), spread(f'))
  BY <1>1, <1>2, NumbersFall
<1>7. Higher(closed(f), closed(f')) /\ Higher(unclear(f), unclear(f')) /\ Higher(blocked(f), blocked(f'))
  BY <1>1, <1>2, NumbersFall, SignsFall
<1>8. Higher(missing(f), missing(f'))
  BY <1>1, <1>2, NumbersFall, SignsFall
<1>9. Judge!Penalties = sum(f)
  BY DEF Judge!Penalties, Judge!If, Judge!Opposed, Judge!Known, Judge!Unknown, Judge!WideSpread,
         Judge!MissingData
<1>10. Judge!Penalties' = sum(f')
  BY DEF Judge!Penalties, Judge!If, Judge!Opposed, Judge!Known, Judge!Unknown, Judge!WideSpread,
         Judge!MissingData
<1> HIDE DEF news, opposed, extreme, spread, closed, unclear, missing, blocked
<1>11. Higher(sum(f), sum(f'))
  BY <1>3, <1>4, <1>5, <1>6, <1>7, <1>8
<1> HIDE DEF sum
<1> QED
  BY <1>9, <1>10, <1>11

\* There are finitely many categories, and each has a weight.
LEMMA CategoriesAre ==
    /\ IsFiniteSet(Judge!Categories)
    /\ \A c \in Judge!Categories : Judge!Weight[c] \in 1..15
<1>1. Judge!Categories = {"htf", "structure", "liquidity", "zones", "levels", "fundamentals", "dollar",
                          "session", "volatility", "entry"}
  BY DEF Judge!Categories, Judge!Weight
<1>2. IsFiniteSet(Judge!Categories)
  <2>1. \A x : IsFiniteSet({x})
    BY FS_Singleton
  <2> DEFINE A == {"htf"} \cup {"structure"} \cup {"liquidity"} \cup {"zones"} \cup {"levels"}
             B == {"fundamentals"} \cup {"dollar"} \cup {"session"} \cup {"volatility"} \cup {"entry"}
  <2>2. IsFiniteSet(A) /\ IsFiniteSet(B)
    BY <2>1, FS_Union
  <2>3. Judge!Categories = A \cup B
    BY <1>1
  <2> HIDE DEF A, B
  <2> QED
    BY <2>2, <2>3, FS_Union
<1>3. \A c \in Judge!Categories : Judge!Weight[c] \in 1..15
  BY DEF Judge!Categories, Judge!Weight
<1> QED
  BY <1>2, <1>3

\* The total falls, and so does the number of the strong categories.
LEMMA TotalFalls ==
    ASSUME JudgeAssumption, JudgeInv, JudgeInv', Falls, HarmlessLoss
    PROVE  /\ Judge!Total \in Int /\ Judge!Total' \in Int /\ Judge!Total' <= Judge!Total
           /\ Cardinality(Judge!Strong)' \in Int /\ Cardinality(Judge!Strong) \in Int
           /\ Cardinality(Judge!Strong)' <= Cardinality(Judge!Strong)
<1> DEFINE C == Judge!Categories
           W == Judge!Weight
           P(share, g) == g = [s \in SUBSET C |->
                     IF s = {} THEN 0
                     ELSE (W[Pick(s)] * share[Pick(s)]) + g[s \ {Pick(s)}]]
           sum(share) == (CHOOSE g : P(share, g))[C]
<1>1. Judge!Total = Judge!Max2(0, sum(Judge!Share) - Judge!Penalties)
  BY Zenon DEF Judge!Total, Judge!MapThenSumSet, Judge!MapThenFoldSet, Pick
<1>2. Judge!Total' = Judge!Max2(0, sum(Judge!Share') - Judge!Penalties')
  BY Zenon DEF Judge!Total, Judge!MapThenSumSet, Judge!MapThenFoldSet, Pick
<1>3. IsFiniteSet(C) /\ \A c \in C : W[c] \in 1..15
  BY CategoriesAre
<1>4. \A c \in C : Judge!Share[c] \in 0..100 /\ Judge!Share'[c] \in 0..100 /\ Judge!Share'[c] <= Judge!Share[c]
  BY SharesFall
<1> HIDE DEF C, W
<1>5. ASSUME NEW a, NEW b, \A c \in C : a[c] \in 0..100 /\ b[c] \in 0..100 /\ a[c] <= b[c]
      PROVE  sum(a) \in Int /\ sum(b) \in Int /\ sum(a) <= sum(b)
  <2> DEFINE v == [c \in C |-> W[c] * a[c]]
             w == [c \in C |-> W[c] * b[c]]
             g == CHOOSE x : P(a, x)
             h == CHOOSE x : P(b, x)
  <2>1. \A s \in SUBSET C : s # {} =>
          v[Pick(s)] = W[Pick(s)] * a[Pick(s)] /\ w[Pick(s)] = W[Pick(s)] * b[Pick(s)]
    BY Picked
  <2>2. \A x : (IsSum(x, v, C) <=> P(a, x)) /\ (IsSum(x, w, C) <=> P(b, x))
    <3> HIDE DEF v, w
    <3> QED
      BY <2>1 DEF IsSum
  <2>3. (\E x : P(a, x)) /\ (\E x : P(b, x))
    BY <1>3, <2>2, SumExists
  <2>4. P(a, g) /\ P(b, h)
    <3> HIDE DEF P
    <3> QED
      BY <2>3
  <2>5. IsSum(g, v, C) /\ IsSum(h, w, C)
    BY <2>2, <2>4
  <2>6. ASSUME NEW c \in C PROVE v[c] \in Int /\ w[c] \in Int /\ v[c] <= w[c]
    <3>1. W[c] \in Nat \ {0} /\ a[c] \in Int /\ b[c] \in Int /\ a[c] <= b[c]
      BY <1>3, <1>5
    <3> QED
      BY <3>1, Products
  <2> HIDE DEF g, h, v, w
  <2>7. g[C] \in Int /\ h[C] \in Int /\ g[C] <= h[C]
    BY <1>3, <2>5, <2>6, SumsCompare
  <2> QED
    BY <2>7 DEF g, h
<1>6. sum(Judge!Share') \in Int /\ sum(Judge!Share) \in Int /\ sum(Judge!Share') <= sum(Judge!Share)
  <2> HIDE DEF sum
  <2> QED
    BY <1>4, <1>5, Zenon
<1> HIDE DEF sum
<1>7. Judge!Total \in Int /\ Judge!Total' \in Int /\ Judge!Total' <= Judge!Total
  BY <1>1, <1>2, <1>6, PenaltiesRise DEF Judge!Max2
<1>8. Judge!Strong = {c \in C : Judge!Share[c] >= 70} /\ Judge!Strong' = {c \in C : Judge!Share'[c] >= 70}
  BY Zenon DEF Judge!Strong, C
<1>9. Judge!Strong' \subseteq Judge!Strong /\ Judge!Strong \subseteq C
  BY <1>4, <1>8
<1>10. Cardinality(Judge!Strong)' = Cardinality(Judge!Strong')
  OBVIOUS
<1> QED
  BY <1>3, <1>7, <1>9, <1>10, FS_Subset, FS_CardinalityType


\* Gates that pass on the worse evidence pass on the better.
LEMMA GatesFall ==
    ASSUME JudgeInv, JudgeInv', Falls, HarmlessLoss, Judge!GatesPassed'
    PROVE  Judge!GatesPassed
<1> DEFINE Typed(g) == /\ g.htf \in Int /\ g.place \in Int /\ g.regime \in Int
                       /\ g.spread \in Int /\ g.news \in Int
<1>1. Typed(f) /\ Typed(f')
  <2>1. \A g : (\A k \in Fields : g[k] \in Values[k]) => Typed(g)
    BY FieldsAre
  <2> QED
    BY <2>1, Zenon DEF JudgeInv
<1>2. /\ f'.htf <= f.htf /\ f'.place <= f.place /\ f'.regime <= f.regime
      /\ f'.spread <= f.spread /\ f'.news <= f.news
  BY NumbersFall
<1>3. Judge!SystemGates' /\ Judge!MarketGates' /\ Judge!PlanGates' /\ Judge!AccountGates'
  BY Zenon DEF Judge!GatesPassed
<1>4. /\ f'.spread > -3 => f.spread > -3
      /\ f'.news > -3 => f.news > -3
      /\ f'.regime > 0 => f.regime > 0
      /\ f'.htf >= 0 => f.htf >= 0
      /\ f'.place >= 40 \/ f'.place = -9 => f.place >= 40 \/ f.place = -9
  BY <1>1, <1>2 DEF HarmlessLoss
<1>5. Judge!MarketGates
  BY <1>3, <1>4, SignsFall, Zenon DEF Judge!MarketGates
<1>6. Judge!PlanGates
  BY <1>3, <1>4, SignsFall, Zenon DEF Judge!PlanGates, Judge!Unknown
<1>7. Judge!SystemGates /\ Judge!AccountGates
  BY <1>3, SignsFall, Zenon DEF Judge!SystemGates, Judge!AccountGates
<1> QED
  BY <1>5, <1>6, <1>7, Zenon DEF Judge!GatesPassed

\* So do the checks of both classes.
LEMMA ChecksFall ==
    ASSUME JudgeAssumption, JudgeInv, JudgeInv', Falls, HarmlessLoss, f'.healthy = f.healthy
    PROVE  /\ Judge!ChecksAPlus' => Judge!ChecksAPlus
           /\ Judge!ChecksA' => Judge!ChecksA
<1> DEFINE Typed(g) == /\ g.htf \in Int /\ g.mss \in Int /\ g.sweep \in Int /\ g.macro \in Int
                       /\ g.news \in -3..0 /\ g.prob \in {-9} \cup 0..100
<1>1. Typed(f) /\ Typed(f')
  <2>1. \A g : (\A k \in Fields : g[k] \in Values[k]) => Typed(g)
    BY FieldsAre, SMTT(60)
  <2> QED
    BY <2>1, Zenon DEF JudgeInv
<1>2. /\ f'.htf <= f.htf /\ f'.mss <= f.mss /\ f'.sweep <= f.sweep /\ f'.macro <= f.macro
      /\ f'.news <= f.news /\ f'.prob <= f.prob
  BY NumbersFall
<1> DEFINE strong == Judge!Cardinality(Judge!Strong)
<1>3. /\ Judge!Total' >= 8500 => Judge!Total >= 8500
      /\ Judge!Total' >= 7000 => Judge!Total >= 7000
      /\ strong' >= 7 => strong >= 7
      /\ strong' >= 5 => strong >= 5
  <2>1. /\ Judge!Total \in Int /\ Judge!Total' \in Int /\ Judge!Total' <= Judge!Total
        /\ strong' \in Int /\ strong \in Int /\ strong' <= strong
    <3>1. \A S : Judge!Cardinality(S) = Cardinality(S)
      BY DEF Judge!Cardinality, Cardinality
    <3> QED
      BY <3>1, TotalFalls
  <2> HIDE DEF strong
  <2> QED
    BY <2>1
<1>4. /\ f'.htf >= 0 => f.htf >= 0
      /\ f'.mss >= 0 => f.mss >= 0
      /\ f'.sweep > 50 => f.sweep > 50
      /\ f'.macro > 0 /\ f'.macro # -9 => f.macro > 0 /\ f.macro # -9
      /\ f'.news = 0 => f.news = 0
      /\ f'.news >= -1 => f.news >= -1
      /\ ~(f'.macro # -9 /\ f'.macro < 0) => ~(f.macro # -9 /\ f.macro < 0)
  BY <1>1, <1>2 DEF HarmlessLoss
<1>5. /\ Judge!Probability' >= 65 => Judge!Probability >= 65
      /\ (Judge!Probability' # -9 => Judge!Probability' >= 55)
           => (Judge!Probability # -9 => Judge!Probability >= 55)
  <2>1. Judge!Probability = IF f.healthy THEN f.prob ELSE -9
    BY DEF Judge!Probability, Judge!Unknown
  <2>2. Judge!Probability' = IF f'.healthy THEN f'.prob ELSE -9
    BY DEF Judge!Probability, Judge!Unknown
  <2>3. Judge!Probability' = IF f.healthy THEN f'.prob ELSE -9
    BY <2>2
  <2> QED
    BY <1>1, <1>2, <2>1, <2>3 DEF HarmlessLoss
<1>8. ASSUME Judge!ChecksAPlus' PROVE Judge!ChecksAPlus
  <2>1. /\ Judge!Total' >= 8500 /\ strong' >= 7 /\ f'.rr /\ f'.macro # -9 /\ f'.macro > 0
        /\ f'.news = 0 /\ f'.htf >= 0 /\ f'.mss >= 0 /\ f'.sweep > 50 /\ f'.proven
        /\ Judge!Probability' >= 65
    BY <1>8 DEF Judge!ChecksAPlus, Judge!Known, Judge!Unknown
  <2> HIDE DEF strong
  <2>2. f.rr /\ f.proven
    BY <2>1, SignsFall
  <2>3. /\ Judge!Total >= 8500 /\ strong >= 7 /\ f.macro # -9 /\ f.macro > 0
        /\ f.news = 0 /\ f.htf >= 0 /\ f.mss >= 0 /\ f.sweep > 50
        /\ Judge!Probability >= 65
    BY <2>1, <1>3, <1>4, <1>5
  <2> QED
    BY <2>2, <2>3 DEF strong, Judge!ChecksAPlus, Judge!Known, Judge!Unknown
<1>9. ASSUME Judge!ChecksA' PROVE Judge!ChecksA
  <2> DEFINE likely == Judge!Probability # -9 => Judge!Probability >= 55
             opposed == f.macro # -9 /\ f.macro < 0
  <2>1. /\ Judge!Total' >= 7000 /\ strong' >= 5 /\ f'.rr /\ f'.htf >= 0 /\ ~opposed'
        /\ f'.news >= -1 /\ (f'.mss >= 0 \/ f'.bos) /\ likely'
    BY <1>9 DEF Judge!ChecksA, Judge!Opposed, Judge!Known, Judge!Unknown
  <2>2. f.rr /\ (f'.bos => f.bos)
    BY <2>1, SignsFall
  <2>3. f.mss >= 0 \/ f.bos
    BY <2>1, <2>2, <1>4
  <2>4. likely /\ ~opposed
    BY <2>1, <1>4, <1>5
  <2> HIDE DEF strong, likely, opposed
  <2>5. Judge!Total >= 7000 /\ strong >= 5 /\ f.htf >= 0 /\ f.news >= -1
    BY <2>1, <1>3, <1>4
  <2> QED
    BY <2>2, <2>3, <2>4, <2>5
       DEF strong, likely, opposed, Judge!ChecksA, Judge!Opposed, Judge!Known, Judge!Unknown
<1> QED
  BY <1>8, <1>9

\* Worse evidence makes no better class.
LEMMA RankFalls ==
    ASSUME JudgeAssumption, JudgeInv, JudgeInv', Falls, HarmlessLoss, f'.healthy = f.healthy
    PROVE  Judge!Rank[Judge!Decision]' <= Judge!Rank[Judge!Decision]
<1>1. f'.sized => f.sized
  BY SignsFall
<1>2. Judge!GatesPassed' => Judge!GatesPassed
  BY GatesFall
<1>3. (Judge!ChecksAPlus' => Judge!ChecksAPlus) /\ (Judge!ChecksA' => Judge!ChecksA)
  BY ChecksFall
<1>4. Judge!Rank = [NO_TRADE |-> 0, A |-> 1, A_PLUS |-> 2]
  BY DEF Judge!Rank
<1>5. Judge!Rank[Judge!Decision]' = Judge!Rank[Judge!Decision']
  BY <1>4
<1>6. /\ Judge!Decision \in {"NO_TRADE", "A", "A_PLUS"}
      /\ Judge!Decision = "NO_TRADE" => Judge!Decision' = "NO_TRADE"
      /\ Judge!Decision = "A" => Judge!Decision' \in {"NO_TRADE", "A"}
      /\ Judge!Decision' \in {"NO_TRADE", "A", "A_PLUS"}
  BY <1>1, <1>2, <1>3 DEF Judge!Decision, Judge!Classify
<1> QED
  BY <1>4, <1>5, <1>6

\* A step for the worse that loses nothing, or nothing that opposed, makes no better class.
LEMMA WorseStep ==
    ASSUME JudgeAssumption, JudgeInv, JudgeInv', Judge!Next, NEW k \in VariedFields,
           Judge!Worsened(k), Judge!Lost(k) => HarmlessLoss
    PROVE  Judge!Rank[Judge!Decision]' <= Judge!Rank[Judge!Decision]
<1>1. WorseGrade(k, f'[k], f[k]) /\ \A j \in Fields \ {k} : f'[j] = f[j]
  BY WorsenedIs
<1>2. k \in Fields /\ k # "healthy"
  BY DEF JudgeAssumption
<1>3. Falls /\ f'.healthy = f.healthy
  BY <1>1, <1>2, FieldFalls
<1>4. HarmlessLoss
  <2>1. CASE Judge!Lost(k)
    BY <2>1
  <2>2. CASE ~Judge!Lost(k)
    <3>1. {"macro", "fresh", "place", "prob"} \subseteq Fields
      BY DEF Fields, Values
    <3>2. f'["macro"] = -9 => f["macro"] = -9
      BY <1>1, <2>2, <3>1 DEF Judge!Lost, Judge!Unknown
    <3>3. f'["place"] = -9 => f["place"] = -9
      BY <1>1, <2>2, <3>1 DEF Judge!Lost, Judge!Unknown
    <3>4. f'["prob"] = -9 => f["prob"] = -9
      BY <1>1, <2>2, <3>1 DEF Judge!Lost, Judge!Unknown
    <3>5. ~(f["fresh"] /\ ~f'["fresh"])
      <4>1. CASE k = "fresh"
        BY <2>2, <4>1, Zenon DEF Judge!Lost
      <4>2. CASE k # "fresh"
        BY <1>1, <3>1, <4>2, Zenon
      <4> QED
        BY <4>1, <4>2
    <3> QED
      BY <3>2, <3>3, <3>4, <3>5, Zenon DEF HarmlessLoss
  <2> QED
    BY <2>1, <2>2
<1> QED
  BY <1>3, <1>4, RankFalls

\* What the properties allow to be lost did not oppose the trade.
LEMMA LossStep ==
    ASSUME JudgeAssumption, JudgeInv, JudgeInv', Judge!Next, NEW k \in VariedFields,
           Judge!Worsened(k), Judge!Lost(k),
           k = "fresh" => f.hint >= 0, k = "macro" => f.macro >= 0, k = "place" => f.place >= 40,
           k # "prob"
    PROVE  HarmlessLoss
<1>1. \A j \in Fields \ {k} : f'[j] = f[j]
  BY WorsenedIs
<1>2. {"macro", "fresh", "place", "prob"} \subseteq Fields
  BY DEF Fields, Values
<1>3. f'["macro"] = -9 => f["macro"] = -9 \/ f["macro"] >= 0
  BY <1>1, <1>2
<1>4. f'["place"] = -9 => f["place"] = -9 \/ f["place"] >= 40
  BY <1>1, <1>2
<1>5. f'["prob"] = -9 => f["prob"] = -9
  BY <1>1, <1>2
<1>6. f["fresh"] /\ ~f'["fresh"] => f["hint"] >= 0
  <2>1. CASE k = "fresh"
    BY <2>1
  <2>2. CASE k # "fresh"
    BY <1>1, <1>2, <2>2, Zenon
  <2> QED
    BY <2>1, <2>2
<1> QED
  BY <1>3, <1>4, <1>5, <1>6, Zenon DEF HarmlessLoss

\* Worse evidence never makes a better class of trade: through the categories,
\* their breadth, the penalties, the gates and the checks of both classes.
THEOREM JudgedByTheEvidence == StudySpec => WorseNeverBetter
<1> USE JudgeAssumption
<1>1. StudyInit => JudgeInv
  BY JudgeStart DEF StudyInit
<1>3. JudgeInv /\ [StudyNext]_studyVars => JudgeInv'
  BY StudyMoves, JudgeStep
<1> DEFINE Holds == [\A k \in VariedFields :
               Judge!Worsened(k) /\ ~Judge!Lost(k)
               => Judge!Rank[Judge!Decision]' <= Judge!Rank[Judge!Decision]]_f
<1>4. JudgeInv /\ JudgeInv' /\ [StudyNext]_studyVars => Holds
  <2> SUFFICES ASSUME JudgeInv, JudgeInv', [StudyNext]_studyVars PROVE Holds
    OBVIOUS
  <2>1. CASE Judge!Next
    BY <2>1, WorseStep
  <2>2. CASE UNCHANGED f
    BY <2>2
  <2> QED
    BY StudyMoves, <2>1, <2>2 DEF judgeVars
<1> HIDE DEF Holds
<1>5. StudySpec => [][Holds]_f
  BY <1>1, <1>3, <1>4, PTL DEF StudySpec
<1> QED
  BY <1>5, PTL DEF WorseNeverBetter, Judge!WorseNeverBetter, Holds

\* What was known and is lost makes no better class either, but for the model's
\* probability: a macro picture, a range or news that did not oppose the trade.
THEOREM LossesDoNotHelp == StudySpec => MissingNeverHelps
<1> USE JudgeAssumption
<1>1. StudyInit => JudgeInv
  BY JudgeStart DEF StudyInit
<1>3. JudgeInv /\ [StudyNext]_studyVars => JudgeInv'
  BY StudyMoves, JudgeStep
<1> DEFINE Holds == [\A k \in VariedFields :
              /\ Judge!Lost(k) /\ Judge!Worsened(k)
              /\ k = "fresh" => f.hint >= 0
              /\ k = "macro" => f.macro >= 0
              /\ k = "place" => f.place >= 40
              /\ k # "prob"
              => Judge!Rank[Judge!Decision]' <= Judge!Rank[Judge!Decision]]_f
<1>4. JudgeInv /\ JudgeInv' /\ [StudyNext]_studyVars => Holds
  <2> SUFFICES ASSUME JudgeInv, JudgeInv', [StudyNext]_studyVars PROVE Holds
    OBVIOUS
  <2>1. CASE Judge!Next
    BY <2>1, WorseStep, LossStep
  <2>2. CASE UNCHANGED f
    BY <2>2
  <2> QED
    BY StudyMoves, <2>1, <2>2 DEF judgeVars
<1> HIDE DEF Holds
<1>5. StudySpec => [][Holds]_f
  BY <1>1, <1>3, <1>4, PTL DEF StudySpec
<1> QED
  BY <1>5, PTL DEF MissingNeverHelps, Judge!MissingNeverHelps, Holds

-----------------------------------------------------------------------------
(* The lessons.                                                            *)

\* A bar of integers, whose tips hold its open and its close.
SoundBar(b) ==
    /\ b.o \in Int /\ b.c \in Int /\ b.h \in Int /\ b.l \in Int
    /\ b.l <= b.o /\ b.o <= b.h /\ b.l <= b.c /\ b.c <= b.h

\* What is known of the bars: each is sound.
TapeInv ==
    /\ \E S : tape \in Seq(S)
    /\ Len(tape) \in Nat
    /\ \A i \in 1..Len(tape) : SoundBar(tape[i])

\* The samples have their labels from the bars, and are in the order of their bars.
SamplesInv ==
    /\ Len(samples) \in Nat /\ DOMAIN samples = 1..Len(samples)
    /\ \A i \in 1..Len(samples) : samples[i] \in Lessons!Labelled
    /\ \A i, j \in 1..Len(samples) : i < j => samples[i].t0 <= samples[j].t0

LessonInv == TapeInv /\ SamplesInv

\* An instance counts as the library does.
LEMMA LessonSame == \A S : Lessons!Cardinality(S) = Cardinality(S)
BY DEF Lessons!Cardinality, Cardinality

\* The smaller and the larger of two numbers.
LEMMA LessonExtremes ==
    ASSUME NEW a \in Int, NEW b \in Int
    PROVE  /\ Lessons!Min({a, b}) \in Int /\ Lessons!Min({a, b}) <= a /\ Lessons!Min({a, b}) <= b
           /\ Lessons!Max({a, b}) \in Int /\ a <= Lessons!Max({a, b}) /\ b <= Lessons!Max({a, b})
BY DEF Lessons!Min, Lessons!Max

\* A bar reaches from its low to its high and opens where it is said to.
LEMMA NewBarsAreSound ==
    ASSUME NEW o \in Int, NEW c \in Int, NEW w \in Nat \X Nat
    PROVE  SoundBar(Lessons!Bar(o, c, w)) /\ Lessons!Bar(o, c, w).o = o
<1>1. w[1] \in Nat /\ w[2] \in Nat
  OBVIOUS
<1>2. /\ Lessons!Bar(o, c, w).o = o /\ Lessons!Bar(o, c, w).c = c
      /\ Lessons!Bar(o, c, w).h = Lessons!Max({o, c}) + w[1]
      /\ Lessons!Bar(o, c, w).l = Lessons!Min({o, c}) - w[2]
  BY DEF Lessons!Bar
<1> DEFINE x == Lessons!Max({o, c})
           y == Lessons!Min({o, c})
<1>3. x \in Int /\ o <= x /\ c <= x /\ y \in Int /\ y <= o /\ y <= c
  BY LessonExtremes
<1> HIDE DEF x, y
<1>4. /\ x + w[1] \in Int /\ y - w[2] \in Int /\ o <= x + w[1] /\ c <= x + w[1]
      /\ y - w[2] <= o /\ y - w[2] <= c
  BY <1>1, <1>3
<1> QED
  BY <1>2, <1>4, Zenon DEF SoundBar, x, y

\* There is no bar at the start.
LEMMA LessonStart == ASSUME Lessons!LearningInit PROVE LessonInv
<1>1. tape = <<>> /\ samples = <<>>
  BY DEF Lessons!LearningInit
<1>2. tape \in Seq({}) /\ Len(tape) = 0 /\ Len(samples) = 0 /\ DOMAIN samples = {}
  BY <1>1
<1> QED
  BY <1>2 DEF LessonInv, TapeInv, SamplesInv

\* A candidate has one label at most: the bar that resolves it is the first that
\* holds a barrier, or the last of the horizon.
LEMMA ResolutionIs ==
    ASSUME LessonAssumption, TapeInv, NEW s \in Lessons!Candidates, NEW i \in Lessons!Resolution(s)
    PROVE  /\ i \in 1..Len(tape) /\ s.t0 <= i
           /\ Lessons!Resolution(s) = {i}
           /\ \A m \in s.t0 + 1..i - 1 : ~Lessons!Holds(m, Lessons!Stop(s))
<1> DEFINE hits == {k \in Lessons!Indices : k \in s.t0 + 1..s.t0 + LessonHorizon
                      /\ (Lessons!Holds(k, Lessons!Stop(s)) \/ Lessons!Holds(k, Lessons!Target(s)))}
<1>1. s.t0 \in 1..Len(tape) /\ Lessons!Indices = 1..Len(tape) /\ Len(tape) \in Nat /\ LessonHorizon \in Nat
  BY DEF Lessons!Candidates, Lessons!Indices, TapeInv, LessonAssumption
<1>2. Lessons!Resolution(s) = IF hits # {} THEN {Lessons!Min(hits)}
                              ELSE {s.t0 + LessonHorizon} \cap Lessons!Indices
  BY DEF Lessons!Resolution
<1>3. CASE hits # {}
  <2>1. hits \in SUBSET Nat /\ hits # {}
    BY <1>1, <1>3
  <2>2. PICK h \in hits : \A x \in hits : h <= x
    <3> HIDE DEF hits
    <3> QED
      BY <2>1, SmallestExists
  <2>3. Lessons!Min(hits) \in hits /\ \A x \in hits : Lessons!Min(hits) <= x
    <3> HIDE DEF hits
    <3> QED
      BY <2>2, Zenon DEF Lessons!Min
  <2>4. i = Lessons!Min(hits) /\ Lessons!Resolution(s) = {i}
    <3> HIDE DEF hits
    <3> QED
      BY <1>2, <1>3
  <2>5. i \in hits /\ \A x \in hits : i <= x
    <3> HIDE DEF hits
    <3> QED
      BY <2>3, <2>4
  <2>6. i \in 1..Len(tape) /\ i \in s.t0 + 1..s.t0 + LessonHorizon
    BY <1>1, <2>5
  <2>7. ASSUME NEW m \in s.t0 + 1..i - 1
        PROVE  ~Lessons!Holds(m, Lessons!Stop(s))
    <3>1. m \in 1..Len(tape) /\ m \in s.t0 + 1..s.t0 + LessonHorizon /\ ~(i <= m)
      BY <1>1, <2>6, SMTT(60)
    <3> QED
      BY <1>1, <2>5, <3>1
  <2> QED
    BY <1>1, <2>4, <2>6, <2>7
<1>4. CASE hits = {}
  <2>1. i = s.t0 + LessonHorizon /\ i \in 1..Len(tape) /\ Lessons!Resolution(s) = {i}
    <3> HIDE DEF hits
    <3> QED
      BY <1>1, <1>2, <1>4
  <2>2. ASSUME NEW m \in s.t0 + 1..i - 1
        PROVE  ~Lessons!Holds(m, Lessons!Stop(s))
    <3>1. m \in Lessons!Indices /\ m \in s.t0 + 1..s.t0 + LessonHorizon
      BY <1>1, <2>1, SMTT(60)
    <3> QED
      BY <1>4, <3>1
  <2> QED
    BY <1>1, <2>1, <2>2
<1> QED
  BY <1>3, <1>4

\* A labelled sample and its candidate.
LEMMA LabelIs ==
    ASSUME LessonAssumption, TapeInv, NEW x \in Lessons!Labelled
    PROVE  /\ x.t0 \in 1..Len(tape) /\ x.dir \in {1, -1} /\ x.t1 \in 1..Len(tape) /\ x.t0 <= x.t1
           /\ \A m \in x.t0 + 1..x.t1 - 1 : ~Lessons!Holds(m, Lessons!Stop(x))
           /\ x.win => ~Lessons!Holds(x.t1, Lessons!Stop(x))
           /\ \E s \in Lessons!Candidates : s.t0 = x.t0 /\ s.dir = x.dir
                /\ Lessons!Resolution(s) = {x.t1} /\ x = Lessons!Sample(s, x.t1)
<1>1. PICK s \in Lessons!Candidates : \E i \in Lessons!Resolution(s) : x = Lessons!Sample(s, i)
  BY Zenon DEF Lessons!Labelled
<1>2. PICK i \in Lessons!Resolution(s) : x = Lessons!Sample(s, i)
  BY <1>1
<1>3. s.t0 \in 1..Len(tape) /\ s.dir \in {1, -1}
  BY DEF Lessons!Candidates, Lessons!Indices, Lessons!Dirs
<1>4. /\ x.t0 = s.t0 /\ x.dir = s.dir /\ x.t1 = i
      /\ x.win = (\/ Lessons!Wins(s, i)
                  \/ /\ ~Lessons!Holds(i, Lessons!Stop(s)) /\ ~Lessons!Holds(i, Lessons!Target(s))
                     /\ s.dir * (tape[i].c - tape[s.t0].c) > 0)
  BY <1>2 DEF Lessons!Sample
<1>5. x.win => ~Lessons!Holds(i, Lessons!Stop(s))
  BY <1>4, Zenon DEF Lessons!Wins
<1>6. Lessons!Stop(x) = Lessons!Stop(s)
  BY <1>4 DEF Lessons!Stop
<1>7. /\ i \in 1..Len(tape) /\ s.t0 <= i /\ Lessons!Resolution(s) = {i}
      /\ \A m \in s.t0 + 1..i - 1 : ~Lessons!Holds(m, Lessons!Stop(s))
  BY ResolutionIs
<1> QED
  BY <1>2, <1>3, <1>4, <1>5, <1>6, <1>7

\* Samples of one candidate are one, and there are finitely many.
LEMMA LabelsAreOne ==
    ASSUME LessonAssumption, TapeInv, NEW x \in Lessons!Labelled, NEW y \in Lessons!Labelled,
           x.t0 = y.t0, x.dir = y.dir
    PROVE  x = y
<1>1. PICK s \in Lessons!Candidates : s.t0 = x.t0 /\ s.dir = x.dir
                /\ Lessons!Resolution(s) = {x.t1} /\ x = Lessons!Sample(s, x.t1)
  BY LabelIs
<1>2. PICK u \in Lessons!Candidates : u.t0 = y.t0 /\ u.dir = y.dir
                /\ Lessons!Resolution(u) = {y.t1} /\ y = Lessons!Sample(u, y.t1)
  BY LabelIs
<1>3. s = u
  BY <1>1, <1>2 DEF Lessons!Candidates
<1>4. x.t1 = y.t1
  BY <1>1, <1>2, <1>3, Zenon
<1> QED
  BY <1>1, <1>2, <1>3, <1>4, Zenon

\* As many candidates as bars can be labelled.
LEMMA LabelsAreFinite ==
    ASSUME LessonAssumption, TapeInv
    PROVE  IsFiniteSet(Lessons!Labelled)
<1> DEFINE order == [x \in Lessons!Labelled |-> IF x.dir = 1 THEN 2 * x.t0 ELSE 2 * x.t0 + 1]
           m == 2 * Len(tape) + 1
<1>1. Len(tape) \in Nat
  BY DEF TapeInv
<1>2. ASSUME NEW x \in Lessons!Labelled
      PROVE  order[x] \in 0..m /\ x.t0 \in Nat /\ x.dir \in {1, -1}
  <2>1. x.t0 \in 1..Len(tape) /\ x.dir \in {1, -1}
    BY LabelIs
  <2>2. order[x] = IF x.dir = 1 THEN 2 * x.t0 ELSE 2 * x.t0 + 1
    OBVIOUS
  <2> HIDE DEF order
  <2> QED
    BY <1>1, <2>1, <2>2, SMTT(60)
<1>3. ASSUME NEW x \in Lessons!Labelled, NEW y \in Lessons!Labelled, order[x] = order[y]
      PROVE  x = y
  <2>1. x.t0 \in Nat /\ x.dir \in {1, -1} /\ y.t0 \in Nat /\ y.dir \in {1, -1}
    BY <1>2
  <2>2. (IF x.dir = 1 THEN 2 * x.t0 ELSE 2 * x.t0 + 1) = (IF y.dir = 1 THEN 2 * y.t0 ELSE 2 * y.t0 + 1)
    BY <1>3
  <2>3. x.t0 = y.t0 /\ x.dir = y.dir
    BY <2>1, <2>2
  <2> QED
    BY <2>3, LabelsAreOne
<1>4. order \in Injection(Lessons!Labelled, 0..m)
  <2>1. order \in [Lessons!Labelled -> 0..m]
    BY <1>2
  <2> HIDE DEF order
  <2>2. \A x, y \in Lessons!Labelled : order[x] = order[y] => x = y
    BY <1>3
  <2> QED
    BY <2>1, <2>2 DEF Injection, IsInjective
<1>5. IsFiniteSet(0..m)
  <2>1. 0 \in Int /\ m \in Int
    BY <1>1
  <2> QED
    BY <2>1, FS_Interval
<1> QED
  BY <1>4, <1>5, FS_Injection

\* A function over the first naturals is a sequence of that length.
LEMMA FunctionsAreSequences ==
    ASSUME NEW n \in Nat, NEW T, NEW q \in [1..n -> T]
    PROVE  DOMAIN q = 1..n /\ Len(q) = n
OBVIOUS

\* What is chosen from the labels is sorted by them.
LEMMA ChosenAreSorted ==
    ASSUME LessonAssumption, TapeInv, NEW chosen \in SUBSET Lessons!Labelled,
           NEW seq, seq = [k \in 1..Lessons!Cardinality(chosen) |->
                 CHOOSE s \in chosen : Lessons!Cardinality({u \in chosen : Lessons!Sooner(u, s)}) = k - 1]
    PROVE  /\ Len(seq) \in Nat /\ DOMAIN seq = 1..Len(seq)
           /\ \A i \in 1..Len(seq) : seq[i] \in chosen
           /\ \A i, j \in 1..Len(seq) : i < j => seq[i].t0 <= seq[j].t0
<1> DEFINE R == {p \in chosen \X chosen : Lessons!Sooner(p[1], p[2])}
           n == Cardinality(chosen)
<1>1. IsFiniteSet(chosen) /\ n \in Nat
  BY LabelsAreFinite, FS_Subset, FS_CardinalityType
<1>2. \A x \in chosen : x.t0 \in Nat /\ x.dir \in {1, -1}
  <2> SUFFICES ASSUME NEW x \in chosen PROVE x.t0 \in Nat /\ x.dir \in {1, -1}
    OBVIOUS
  <2>1. x.t0 \in 1..Len(tape) /\ x.dir \in {1, -1}
    BY LabelIs
  <2>2. Len(tape) \in Nat
    BY DEF TapeInv
  <2> QED
    BY <2>1, <2>2
<1>3. \A x, y \in chosen : <<x, y>> \in R <=> Lessons!Sooner(x, y)
  OBVIOUS
<1>4. Ordered(R, chosen)
  <2> HIDE DEF R
  <2>1. \A x \in chosen : ~Lessons!Sooner(x, x)
    BY <1>2 DEF Lessons!Sooner
  <2>2. \A x, y, z \in chosen : Lessons!Sooner(x, y) /\ Lessons!Sooner(y, z) => Lessons!Sooner(x, z)
    BY <1>2 DEF Lessons!Sooner
  <2>3. \A x, y \in chosen : x = y \/ Lessons!Sooner(x, y) \/ Lessons!Sooner(y, x)
    <3> SUFFICES ASSUME NEW x \in chosen, NEW y \in chosen, ~Lessons!Sooner(x, y), ~Lessons!Sooner(y, x)
                 PROVE  x = y
      OBVIOUS
    <3>1. x.t0 = y.t0 /\ x.dir = y.dir
      BY <1>2 DEF Lessons!Sooner
    <3> QED
      BY <3>1, LabelsAreOne
  <2> QED
    BY <1>3, <2>1, <2>2, <2>3, Zenon DEF Ordered
<1>5. \A s \in chosen : Below(R, chosen, s) = {u \in chosen : Lessons!Sooner(u, s)}
  <2> HIDE DEF R
  <2> QED
    BY <1>3 DEF Below
<1> HIDE DEF R
<1>6. /\ \A k \in 0..n - 1 : \E s \in chosen : Cardinality(Below(R, chosen, s)) = k
      /\ \A s, u \in chosen : Cardinality(Below(R, chosen, s)) < Cardinality(Below(R, chosen, u)) => <<s, u>> \in R
  BY <1>1, <1>4, Ranking
<1>7. n = Lessons!Cardinality(chosen)
  BY LessonSame, Zenon
<1>8. ASSUME NEW k \in 1..n
      PROVE  seq[k] \in chosen /\ Cardinality(Below(R, chosen, seq[k])) = k - 1
  <2>1. seq[k] = CHOOSE s \in chosen : Lessons!Cardinality({u \in chosen : Lessons!Sooner(u, s)}) = k - 1
    BY <1>7
  <2>2. k - 1 \in 0..n - 1
    <3> HIDE DEF n
    <3> QED
      BY <1>1
  <2>3. PICK s \in chosen : Cardinality(Below(R, chosen, s)) = k - 1
    BY <1>6, <2>2
  <2>4. Lessons!Cardinality({u \in chosen : Lessons!Sooner(u, s)}) = k - 1
    BY <1>5, <2>3, LessonSame, Zenon
  <2>5. seq[k] \in chosen /\ Lessons!Cardinality({u \in chosen : Lessons!Sooner(u, seq[k])}) = k - 1
    BY <2>1, <2>4, Zenon
  <2> QED
    BY <1>5, <2>5, LessonSame, Zenon
<1>9. ASSUME NEW i \in 1..n, NEW j \in 1..n, i < j
      PROVE  seq[i].t0 <= seq[j].t0
  <2>1. i - 1 < j - 1
    <3> HIDE DEF n
    <3> QED
      BY <1>1, <1>9
  <2>2. Cardinality(Below(R, chosen, seq[i])) < Cardinality(Below(R, chosen, seq[j]))
    BY <1>8, <2>1
  <2>3. Lessons!Sooner(seq[i], seq[j]) /\ seq[i] \in chosen /\ seq[j] \in chosen
    BY <1>3, <1>6, <1>8, <2>2
  <2> QED
    BY <1>2, <2>3 DEF Lessons!Sooner
<1>10. DOMAIN seq = 1..n /\ Len(seq) = n
  <2>1. seq \in [1..n -> chosen]
    <3>1. seq \in [1..Lessons!Cardinality(chosen) -> {seq[k] : k \in 1..Lessons!Cardinality(chosen)}]
      OBVIOUS
    <3>2. seq \in [1..n -> {seq[k] : k \in 1..n}]
      BY <1>7, <3>1
    <3> HIDE DEF n
    <3> QED
      BY <1>8, <3>2
  <2> HIDE DEF n
  <2> QED
    BY <1>1, <2>1, FunctionsAreSequences
<1> HIDE DEF n
<1> QED
  BY <1>1, <1>8, <1>9, <1>10

\* Labels are read off the bars alone.
LEMMA LabelsStay == tape' = tape => Lessons!Labelled' = Lessons!Labelled
<1> SUFFICES ASSUME tape' = tape PROVE Lessons!Labelled' = Lessons!Labelled
  OBVIOUS
<1>1. Lessons!Candidates' = Lessons!Candidates
  BY DEF Lessons!Candidates, Lessons!Indices
<1>2. \A s : Lessons!Resolution(s)' = Lessons!Resolution(s)
  BY DEF Lessons!Resolution, Lessons!Holds, Lessons!Stop, Lessons!Target, Lessons!Indices, Lessons!Min
<1>3. \A s, i : Lessons!Sample(s, i)' = Lessons!Sample(s, i)
  BY DEF Lessons!Sample, Lessons!Wins, Lessons!Holds, Lessons!Stop, Lessons!Target
<1> QED
  BY <1>1, <1>2, <1>3 DEF Lessons!Labelled

\* Bars are added at the end, and samples are taken in the order of their bars.
LEMMA LessonStep ==
    ASSUME ChartAssumption, LessonAssumption, LessonInv, [Lessons!LearningNext]_lessonVars
    PROVE  LessonInv'
<1>1. CASE Lessons!BarCloses
  <2>1. PICK o \in Lessons!Opens, c \in LessonPrices, w \in LessonWicks :
           tape' = Append(tape, Lessons!Bar(o, c, w))
    BY <1>1 DEF Lessons!BarCloses, Lessons!NewBar
  <2>2. samples = <<>> /\ samples' = samples
    BY <1>1 DEF Lessons!BarCloses
  <2> DEFINE b == Lessons!Bar(o, c, w)
             n == Len(tape)
  <2>3. PICK S : tape \in Seq(S)
    BY DEF LessonInv, TapeInv
  <2>4. n \in Nat /\ (\A i \in 1..n : SoundBar(tape[i])) /\ (n = 0 <=> tape = <<>>)
    BY <2>3 DEF LessonInv, TapeInv
  <2>5. o \in Int
    <3>1. CASE tape = <<>> \/ Gapped
      BY <3>1 DEF Lessons!Opens, LessonAssumption
    <3>2. CASE tape # <<>> /\ ~Gapped
      <4>1. o = tape[n].c /\ n \in 1..n
        BY <2>4, <3>2 DEF Lessons!Opens
      <4> QED
        BY <2>4, <4>1 DEF SoundBar
    <3> QED
      BY <3>1, <3>2
  <2>6. c \in Int /\ w \in Nat \X Nat
    BY DEF LessonAssumption
  <2>7. SoundBar(b) /\ b.o = o
    BY <2>5, <2>6, NewBarsAreSound
  <2> HIDE DEF b
  <2>8. tape \in Seq(S \cup {b}) /\ tape' \in Seq(S \cup {b}) /\ tape' = Append(tape, b)
    BY <2>1, <2>3 DEF b
  <2>9. Len(tape') = n + 1 /\ tape'[n + 1] = b /\ \A i \in 1..n : tape'[i] = tape[i]
    BY <2>8
  <2>10. \E T : tape' \in Seq(T)
    BY <2>8
  <2> HIDE DEF n
  <2>11. \A i \in 1..n + 1 : SoundBar(tape'[i])
    <3> SUFFICES ASSUME NEW i \in 1..n + 1 PROVE SoundBar(tape'[i])
      OBVIOUS
    <3>1. i \in 1..n \/ i = n + 1
      BY <2>4
    <3> QED
      BY <2>4, <2>7, <2>9, <3>1
  <2>13. TapeInv'
    <3>1. n + 1 \in Nat
      BY <2>4
    <3> QED
      BY <2>9, <2>10, <2>11, <3>1 DEF TapeInv, SoundBar
  <2>14. SamplesInv'
    <3>1. Len(samples') = 0 /\ DOMAIN samples' = {}
      BY <2>2
    <3> QED
      BY <3>1 DEF SamplesInv
  <2> QED
    BY <2>13, <2>14 DEF LessonInv
<1>2. CASE Lessons!Collect
  <2>1. PICK out \in {{}} \cup {{s} : s \in Lessons!Labelled} :
          samples' = [k \in 1..Lessons!Cardinality(Lessons!Labelled \ out) |->
                          CHOOSE s \in Lessons!Labelled \ out :
                             Lessons!Cardinality({u \in Lessons!Labelled \ out : Lessons!Sooner(u, s)}) = k - 1]
    BY <1>2, Zenon DEF Lessons!Collect
  <2> DEFINE chosen == Lessons!Labelled \ out
  <2>2. samples' = [k \in 1..Lessons!Cardinality(chosen) |->
                 CHOOSE s \in chosen : Lessons!Cardinality({u \in chosen : Lessons!Sooner(u, s)}) = k - 1]
    BY <2>1, Zenon
  <2>3. tape' = tape
    BY <1>2 DEF Lessons!Collect
  <2>4. TapeInv
    BY DEF LessonInv
  <2>5. chosen \in SUBSET Lessons!Labelled
    OBVIOUS
  <2> HIDE DEF chosen
  <2>6. /\ Len(samples') \in Nat /\ DOMAIN samples' = 1..Len(samples')
        /\ \A i \in 1..Len(samples') : samples'[i] \in chosen
        /\ \A i, j \in 1..Len(samples') : i < j => samples'[i].t0 <= samples'[j].t0
    BY <2>2, <2>4, <2>5, ChosenAreSorted
  <2>7. Lessons!Labelled' = Lessons!Labelled
    BY <2>3, LabelsStay
  <2>8. TapeInv'
    BY <2>3, <2>4 DEF TapeInv, SoundBar
  <2>9. SamplesInv'
    BY <2>5, <2>6, <2>7 DEF SamplesInv
  <2> QED
    BY <2>8, <2>9 DEF LessonInv
<1>3. CASE UNCHANGED lessonVars
  <2>1. tape' = tape /\ samples' = samples
    BY <1>3 DEF lessonVars
  <2>2. Lessons!Labelled' = Lessons!Labelled
    BY <2>1, LabelsStay
  <2> QED
    BY <2>1, <2>2 DEF LessonInv, TapeInv, SamplesInv, SoundBar
<1> QED
  BY <1>1, <1>2, <1>3 DEF Lessons!LearningNext

\* The bounds of the folds, one after the other, within the samples.
LEMMA FoldsAre ==
    ASSUME LessonAssumption, LessonInv, NEW k \in 0..Folds - 1
    PROVE  /\ Lessons!Bound(k) \in Nat /\ Lessons!Bound(k + 1) \in Nat
           /\ Lessons!Bound(k + 1) <= Len(samples)
<1> DEFINE n == Len(samples)
<1>1. n \in Nat /\ Folds \in Nat \ {0} /\ k \in Int /\ 0 <= k /\ k + 1 <= Folds
  BY DEF LessonInv, SamplesInv, LessonAssumption
<1> HIDE DEF n
<1>2. k * n \in Nat /\ (k + 1) * n \in Nat
  <2>1. k \in Nat /\ k + 1 \in Nat
    BY <1>1
  <2> QED
    BY <1>1, <2>1, StepsOf
<1>3. (k + 1) * n <= n * Folds
  <2>1. CASE n = 0
    BY <1>1, <2>1
  <2>2. CASE n # 0
    <3>1. n \in Nat \ {0} /\ k + 1 \in Int /\ Folds \in Int
      BY <1>1, <2>2
    <3>2. (k + 1) * n <= Folds * n
      BY <1>1, <3>1, Products
    <3>3. Folds * n = n * Folds
      BY <1>1
    <3> QED
      BY <3>2, <3>3
  <2> QED
    BY <2>1, <2>2
<1>4. ASSUME NEW a \in Nat, a <= n * Folds
      PROVE  a \div Folds \in Nat /\ a \div Folds <= n
  <2> DEFINE q == a \div Folds
  <2>1. q \in Int /\ q * Folds <= a /\ a < (q + 1) * Folds
    BY <1>1, Quotient
  <2> HIDE DEF q
  <2>2. q * Folds <= n * Folds /\ 0 * Folds < (q + 1) * Folds
    <3>1. q * Folds \in Int /\ n * Folds \in Int /\ (q + 1) * Folds \in Int /\ 0 * Folds = 0
      BY <1>1, <2>1
    <3> QED
      BY <1>4, <2>1, <3>1
  <2>3. q <= n /\ 0 < q + 1
    <3>1. q \in Int /\ n \in Int /\ 0 \in Int /\ q + 1 \in Int
      BY <1>1, <2>1
    <3> QED
      BY <1>1, <2>2, <3>1, Products
  <2>4. q \in Nat /\ q <= n
    BY <2>1, <2>3
  <2> QED
    BY <2>4 DEF q
<1>5. k * n <= n * Folds
  <2>1. (k + 1) * n = k * n + n
    <3>1. k \in Int /\ n \in Int
      BY <1>1
    <3> QED
      BY <3>1, StepsOf
  <2>2. n * Folds \in Int
    BY <1>1
  <2> QED
    BY <1>1, <1>2, <1>3, <2>1, <2>2
<1>6. Lessons!Bound(k) = (k * n) \div Folds /\ Lessons!Bound(k + 1) = ((k + 1) * n) \div Folds
  BY DEF Lessons!Bound, n
<1> QED
  BY <1>2, <1>3, <1>4, <1>5, <1>6 DEF n

\* The bars that labelled a sample which is trained on lie before those that label
\* any of the test, or after.
LEMMA NoLeak ==
    ASSUME LessonAssumption, LessonInv
    PROVE  Lessons!NothingLeaks
<1> SUFFICES ASSUME NEW k \in 0..Folds - 1, NEW i \in Lessons!Train(k), NEW j \in Lessons!Test(k)
             PROVE  Lessons!Seen(samples[i]) \cap Lessons!Seen(samples[j]) = {}
  BY DEF Lessons!NothingLeaks
<1> DEFINE a == Lessons!Bound(k)
           b == Lessons!Bound(k + 1)
           n == Len(samples)
           T == {samples[m].t1 : m \in Lessons!Test(k)}
           x == samples[i]
           y == samples[j]
           first == samples[a + 1]
<1>1. a \in Nat /\ b \in Nat /\ b <= n /\ n \in Nat /\ DOMAIN samples = 1..n
  BY FoldsAre DEF LessonInv, SamplesInv
<1>2. Lessons!Test(k) = a + 1..b
  BY DEF Lessons!Test
<1>3. j \in 1..n /\ a + 1 \in 1..n /\ a + 1 <= j
  <2> HIDE DEF a, b, n
  <2> QED
    BY <1>1, <1>2
<1>4. ASSUME NEW m \in 1..n
      PROVE  /\ samples[m].t0 \in Nat /\ samples[m].t1 \in Nat /\ samples[m].t0 <= samples[m].t1
             /\ samples[m].t1 <= Len(tape)
  <2>1. samples[m] \in Lessons!Labelled
    BY DEF LessonInv, SamplesInv
  <2>2. /\ samples[m].t0 \in 1..Len(tape) /\ samples[m].t1 \in 1..Len(tape) /\ samples[m].t0 <= samples[m].t1
    BY <2>1, LabelIs DEF LessonInv
  <2>3. Len(tape) \in Nat
    BY DEF LessonInv, TapeInv
  <2> QED
    BY <2>2, <2>3, SMTT(60)
<1>5. first.t0 <= y.t0
  <2>1. CASE a + 1 = j
    BY <1>3, <1>4, <2>1
  <2>2. CASE a + 1 # j
    <3>1. a + 1 < j
      <4> HIDE DEF a, b, n
      <4> QED
        BY <1>1, <1>3, <2>2
    <3> QED
      BY <1>3, <3>1 DEF LessonInv, SamplesInv
  <2> QED
    BY <2>1, <2>2
<1>6. y.t1 <= Lessons!TestEnd(k) /\ Lessons!TestEnd(k) \in Int
  <2>1. T \in SUBSET Int /\ T # {} /\ Len(tape) \in Int /\ \A t \in T : t <= Len(tape)
    <3>1. \A m \in Lessons!Test(k) : m \in 1..n
      <4> HIDE DEF a, b, n
      <4> QED
        BY <1>1, <1>2
    <3>2. y.t1 \in T
      OBVIOUS
    <3>3. Len(tape) \in Int
      BY DEF LessonInv, TapeInv
    <3>4. \A m \in Lessons!Test(k) : samples[m].t1 \in Int /\ samples[m].t1 <= Len(tape)
      BY <1>4, <3>1
    <3>5. T \in SUBSET Int /\ \A t \in T : t <= Len(tape)
      BY <3>4, Zenon
    <3> HIDE DEF T, y
    <3> QED
      BY <3>2, <3>3, <3>5
  <2>2. y.t1 \in T /\ Lessons!TestEnd(k) = Lessons!Max(T)
    BY DEF Lessons!TestEnd
  <2> HIDE DEF T
  <2>3. PICK m \in T : \A t \in T : t <= m
    BY <2>1, LargestExists
  <2>4. \A t \in T : m >= t
    BY <2>1, <2>3
  <2>5. Lessons!Max(T) \in T /\ \A t \in T : Lessons!Max(T) >= t
    BY <2>4, Zenon DEF Lessons!Max
  <2>6. Lessons!Max(T) \in Int /\ y.t1 \in Int
    BY <2>1, <2>2, <2>5
  <2> HIDE DEF y
  <2> QED
    BY <2>2, <2>5, <2>6
<1>7. i \in 1..n /\ ~(x.t1 >= first.t0 /\ x.t0 <= Lessons!TestEnd(k))
  BY <1>1 DEF Lessons!Train
<1>8. /\ x.t0 \in Nat /\ x.t1 \in Nat /\ y.t0 \in Nat /\ y.t1 \in Nat /\ first.t0 \in Nat
  BY <1>3, <1>4, <1>7
<1>9. Lessons!Seen(x) = x.t0 + 1..x.t1 /\ Lessons!Seen(y) = y.t0 + 1..y.t1
  BY DEF Lessons!Seen
<1> HIDE DEF x, y, first
<1>10. (x.t0 + 1..x.t1) \cap (y.t0 + 1..y.t1) = {}
  <2> DEFINE end == Lessons!TestEnd(k)
             x0 == x.t0
             x1 == x.t1
             y0 == y.t0
             y1 == y.t1
             f0 == first.t0
  <2>1. f0 <= y0 /\ y1 <= end /\ end \in Int /\ ~(x1 >= f0 /\ x0 <= end)
        /\ x0 \in Nat /\ x1 \in Nat /\ y0 \in Nat /\ y1 \in Nat /\ f0 \in Nat
    BY <1>5, <1>6, <1>7, <1>8
  <2> HIDE DEF end, x0, x1, y0, y1, f0
  <2> SUFFICES ASSUME NEW z \in x0 + 1..x1, z \in y0 + 1..y1 PROVE FALSE
    BY DEF x0, x1, y0, y1
  <2>2. z \in Int /\ x0 < z /\ z <= x1 /\ y0 < z /\ z <= y1
    BY <2>1
  <2> QED
    BY <2>1, <2>2
<1> QED
  BY <1>9, <1>10 DEF x, y

-----------------------------------------------------------------------------
(* The windows.                                                            *)

\* The windows follow one another by the length of a test, each within the
\* history; those that were run are among them.
WalkInv ==
    /\ asked.bars \in Nat /\ asked.isBars \in Nat /\ asked.oosBars \in Nat \ {0}
    /\ asked.anchored \in BOOLEAN
    /\ Len(windows) \in Nat /\ DOMAIN windows = 1..Len(windows)
    /\ start = Len(windows) * asked.oosBars
    /\ \A i \in 1..Len(windows) :
         /\ windows[i] = Walk!Window((i - 1) * asked.oosBars)
         /\ i * asked.oosBars + asked.isBars <= asked.bars
    /\ tried \in 0..Len(windows) /\ results \subseteq 1..tried
    /\ \E S : windows \in Seq(S)

\* No window was run at the start.
LEMMA WalkStart ==
    ASSUME WalkAssumption, Walk!WalkInit
    PROVE  WalkInv
<1>1. /\ asked.bars \in Nat /\ asked.isBars \in Nat /\ asked.oosBars \in Nat \ {0}
      /\ asked.anchored \in BOOLEAN /\ start = 0 /\ windows = <<>> /\ tried = 0 /\ results = {}
  BY DEF WalkAssumption, Walk!WalkInit
<1>2. windows \in Seq({}) /\ Len(windows) = 0
  BY <1>1
<1> QED
  BY <1>1, <1>2 DEF WalkInv

\* Each window begins one test after the one before.
LEMMA WalkStep ==
    ASSUME WalkAssumption, WalkInv, [Walk!WalkNext]_walkVars
    PROVE  WalkInv'
<1>1. CASE Walk!Cut
  <2> DEFINE n == Len(windows)
             a == asked
  <2>1. /\ start + a.isBars + a.oosBars <= a.bars
        /\ windows' = Append(windows, Walk!Window(start)) /\ start' = start + a.oosBars
        /\ asked' = asked /\ tried' = tried /\ results' = results
    BY <1>1 DEF Walk!Cut, Walk!More
  <2>2. PICK S : windows \in Seq(S)
    BY DEF WalkInv
  <2>3. windows \in Seq(S \cup {Walk!Window(start)}) /\ windows' \in Seq(S \cup {Walk!Window(start)})
    BY <2>1, <2>2
  <2>4. /\ Len(windows') = n + 1 /\ n \in Nat /\ DOMAIN windows' = 1..n + 1
        /\ windows'[n + 1] = Walk!Window(start) /\ \A i \in 1..n : windows'[i] = windows[i]
    BY <2>1, <2>3
  <2>5. /\ start = n * a.oosBars /\ a.oosBars \in Nat /\ a.isBars \in Nat
    BY DEF WalkInv
  <2>6. start' = (n + 1) * a.oosBars /\ start = ((n + 1) - 1) * a.oosBars
    <3>1. (n + 1) * a.oosBars = n * a.oosBars + a.oosBars /\ (n + 1) - 1 = n
      <4>1. n \in Int /\ a.oosBars \in Int
        BY <2>4, <2>5
      <4> QED
        BY <4>1, StepsOf
    <3> QED
      BY <2>1, <2>5, <3>1
  <2>7. \A at : Walk!Window(at)' = Walk!Window(at)
    BY <2>1 DEF Walk!Window, Walk!Ending
  <2>8. ASSUME NEW i \in 1..n + 1
        PROVE  windows'[i] = Walk!Window((i - 1) * a.oosBars) /\ i * a.oosBars + a.isBars <= a.bars
    <3>1. CASE i \in 1..n
      BY <2>4, <3>1 DEF WalkInv
    <3>2. CASE i = n + 1
      <4>1. (n + 1) * a.oosBars + a.isBars = start + a.isBars + a.oosBars
        BY <2>1, <2>5, <2>6
      <4> QED
        BY <2>1, <2>4, <2>6, <3>2, <4>1
    <3> QED
      BY <2>4, <3>1, <3>2
  <2>9. \A i \in 1..n + 1 : windows'[i] = Walk!Window((i - 1) * a.oosBars)'
    BY <2>1, <2>8 DEF Walk!Window, Walk!Ending
  <2>10. tried \in 0..n + 1
    BY <2>4 DEF WalkInv
  <2>11. \E T : windows' \in Seq(T)
    BY <2>3
  <2>12. Len(windows') \in Nat /\ DOMAIN windows' = 1..Len(windows') /\ start' = Len(windows') * a.oosBars
    BY <2>4, <2>6
  <2>13. /\ a.bars \in Nat /\ a.isBars \in Nat /\ a.oosBars \in Nat \ {0} /\ a.anchored \in BOOLEAN
         /\ results \subseteq 1..tried
    BY DEF WalkInv
  <2>14. \A i \in 1..Len(windows') :
           /\ windows'[i] = Walk!Window((i - 1) * a.oosBars)'
           /\ i * a.oosBars + a.isBars <= a.bars
    BY <2>4, <2>8, <2>9
  <2>15. tried \in 0..Len(windows')
    BY <2>4, <2>10
  <2> HIDE DEF n
  <2> QED
    BY <2>1, <2>11, <2>12, <2>13, <2>14, <2>15, Zenon DEF WalkInv
<1>2. CASE Walk!Run
  <2>1. /\ tried < Len(windows) /\ tried' = tried + 1
        /\ results' \in {results, results \cup {tried + 1}}
        /\ asked' = asked /\ start' = start /\ windows' = windows
    BY <1>2 DEF Walk!Run
  <2>2. tried' \in 0..Len(windows) /\ results' \subseteq 1..tried'
    BY <2>1 DEF WalkInv
  <2> QED
    BY <2>1, <2>2 DEF WalkInv, Walk!Window, Walk!Ending
<1>3. CASE UNCHANGED walkVars
  BY <1>3 DEF walkVars, WalkInv, Walk!Window, Walk!Ending
<1> QED
  BY <1>1, <1>2, <1>3 DEF Walk!WalkNext

\* A window: where it begins to be judged, and where it ends.
LEMMA WindowIs ==
    ASSUME WalkAssumption, WalkInv, NEW i \in 1..Len(windows)
    PROVE  /\ i \in Nat /\ (i - 1) * asked.oosBars \in Nat /\ i * asked.oosBars \in Nat
           /\ i * asked.oosBars = (i - 1) * asked.oosBars + asked.oosBars
           /\ windows[i].mid = (i - 1) * asked.oosBars + asked.isBars
           /\ windows[i].end = IF i * asked.oosBars + asked.isBars < asked.bars
                               THEN i * asked.oosBars + asked.isBars ELSE asked.bars - 1
           /\ i * asked.oosBars + asked.isBars <= asked.bars
           /\ windows[i].mid \in Nat /\ windows[i].end \in Nat /\ windows[i].mid <= windows[i].end
<1> DEFINE a == asked
           at == (i - 1) * a.oosBars
<1>1. /\ a.bars \in Nat /\ a.isBars \in Nat /\ a.oosBars \in Nat \ {0} /\ i \in Nat /\ i >= 1
      /\ windows[i] = Walk!Window(at) /\ i * a.oosBars + a.isBars <= a.bars
  BY DEF WalkInv
<1>2. at \in Nat /\ i * a.oosBars = at + a.oosBars
  <2> DEFINE o == a.oosBars
             p == i * o
             q == (i - 1) * o
  <2>1. i \in Int /\ o \in Int /\ i - 1 \in Nat /\ o \in Nat
    BY <1>1
  <2> HIDE DEF o
  <2>2. p \in Int /\ q = p - o
    BY <2>1, StepsOf
  <2>3. q \in Nat
    BY <2>1, StepsOf
  <2> HIDE DEF p, q
  <2>4. q \in Nat /\ p = q + o
    BY <2>1, <2>2, <2>3
  <2> QED
    BY <2>4 DEF p, q, o
<1>3. windows[i].mid = at + a.isBars /\ windows[i].end = Walk!Ending(at + a.isBars + a.oosBars)
  BY <1>1 DEF Walk!Window
<1> HIDE DEF at
<1>4. at + a.isBars + a.oosBars = i * a.oosBars + a.isBars
  BY <1>1, <1>2
<1>5. windows[i].end = IF i * a.oosBars + a.isBars < a.bars THEN i * a.oosBars + a.isBars ELSE a.bars - 1
  BY <1>3, <1>4 DEF Walk!Ending
<1>6. i * a.oosBars \in Nat
  BY <1>1, <1>2
<1>7. windows[i].mid \in Nat /\ windows[i].end \in Nat /\ windows[i].mid <= windows[i].end
  <2> DEFINE p == i * a.oosBars
             k == a.isBars
             b == a.bars
             o == a.oosBars
  <2>1. /\ p = at + o /\ at \in Nat /\ o \in Nat \ {0} /\ k \in Nat /\ b \in Nat /\ p + k <= b
        /\ windows[i].mid = at + k /\ windows[i].end = IF p + k < b THEN p + k ELSE b - 1
    BY <1>1, <1>2, <1>3, <1>5
  <2> HIDE DEF p, k, b, o, a
  <2> QED
    BY <2>1
<1> QED
  BY <1>1, <1>2, <1>3, <1>5, <1>6, <1>7 DEF at

\* No window ends before another of which it is the earlier begins to be judged.
LEMMA WindowsFollow ==
    ASSUME WalkAssumption, WalkInv, NEW i \in 1..Len(windows), NEW j \in 1..Len(windows), i < j
    PROVE  windows[i].end <= windows[j].mid /\ windows[i].end = i * asked.oosBars + asked.isBars
<1> DEFINE a == asked
           p == i * a.oosBars
           q == (j - 1) * a.oosBars
           r == j * a.oosBars
<1>1. a.bars \in Nat /\ a.isBars \in Nat /\ a.oosBars \in Nat \ {0}
  BY DEF WalkInv
<1>2. i \in Nat /\ j \in Nat /\ i <= j - 1
  BY DEF WalkInv
<1>3. p \in Nat /\ q \in Nat /\ p <= q
  <2>1. i \in Int /\ j - 1 \in Int /\ j - 1 \in Nat
    BY <1>2
  <2>2. p <= q
    BY <1>1, <1>2, <2>1, Products
  <2>3. p \in Nat /\ q \in Nat
    BY <1>1, <1>2, <2>1, StepsOf
  <2> QED
    BY <2>2, <2>3
<1>4. /\ windows[j].mid = q + a.isBars /\ r = q + a.oosBars /\ r + a.isBars <= a.bars
  BY WindowIs
<1>5. windows[i].end = IF p + a.isBars < a.bars THEN p + a.isBars ELSE a.bars - 1
  BY WindowIs
<1> HIDE DEF p, q, r
<1>6. p + a.isBars < a.bars
  BY <1>1, <1>3, <1>4, SMTT(60)
<1> QED
  BY <1>1, <1>3, <1>4, <1>5, <1>6 DEF p

\* Two tests share no more than the bar at their boundary, and leave none between them.
LEMMA BarsAreJudgedOnce ==
    ASSUME WalkAssumption, WalkInv
    PROVE  Walk!JudgedOnce
<1> DEFINE n == Len(windows)
           a == asked
<1>1. /\ n \in Nat /\ DOMAIN windows = 1..n /\ results \subseteq 1..n
      /\ a.bars \in Nat /\ a.isBars \in Nat /\ a.oosBars \in Nat \ {0}
  BY DEF WalkInv
<1>2. ASSUME results = DOMAIN windows, windows # <<>>
      PROVE  UNION {windows[i].mid..windows[i].end : i \in results} = a.isBars..windows[n].end
  <2>1. n >= 1
    <3>1. \E S : windows \in Seq(S)
      BY DEF WalkInv
    <3> QED
      BY <1>1, <1>2, <3>1
  <2>2. ASSUME NEW i \in 1..n
        PROVE  windows[i].mid \in Nat /\ windows[i].end \in Nat
               /\ a.isBars <= windows[i].mid /\ windows[i].end <= windows[n].end
    <3>1. windows[i].mid \in Nat /\ windows[i].end \in Nat /\ windows[n].mid <= windows[n].end
          /\ windows[n].mid \in Nat /\ windows[n].end \in Nat
      <4>1. n \in 1..Len(windows) /\ i \in 1..Len(windows)
        BY <1>1, <2>1
      <4> HIDE DEF n
      <4>2. windows[i].mid \in Nat /\ windows[i].end \in Nat
        BY <4>1, WindowIs
      <4>3. windows[n].mid <= windows[n].end /\ windows[n].mid \in Nat /\ windows[n].end \in Nat
        BY <4>1, WindowIs
      <4> QED
        BY <4>2, <4>3
    <3>2. a.isBars <= windows[i].mid
      <4> DEFINE p == (i - 1) * a.oosBars
      <4>1. windows[i].mid = p + a.isBars /\ p \in Nat
        <5> HIDE DEF n
        <5>1. i \in 1..Len(windows)
          BY DEF n
        <5> QED
          BY <5>1, WindowIs
      <4> HIDE DEF p
      <4> QED
        BY <1>1, <4>1
    <3>3. CASE i = n
      BY <3>1, <3>2, <3>3
    <3>4. CASE i < n
      <4>1. windows[i].end <= windows[n].mid
        BY <1>1, <2>1, <3>4, WindowsFollow
      <4> QED
        BY <3>1, <3>2, <4>1
    <3>5. i = n \/ i < n
      <4> HIDE DEF n
      <4> QED
        BY <1>1
    <3> QED
      BY <3>3, <3>4, <3>5
  <2>3. ASSUME NEW t \in a.isBars..windows[n].end
        PROVE  \E i \in 1..n : t \in windows[i].mid..windows[i].end
    <3> DEFINE q == (t - a.isBars) \div a.oosBars
    <3>0. t \in Int /\ a.isBars <= t /\ t <= windows[n].end
      BY <1>1, <2>1, <2>2
    <3>1. q \in Int /\ q * a.oosBars <= t - a.isBars /\ t - a.isBars < (q + 1) * a.oosBars
      <4>1. t - a.isBars \in Int
        BY <1>1, <3>0
      <4> QED
        BY <1>1, <4>1, Quotient
    <3> HIDE DEF q
    <3>2. q >= 0
      <4>0. (q + 1) * a.oosBars \in Int
        BY <1>1, <3>1
      <4>1. 0 * a.oosBars < (q + 1) * a.oosBars
        BY <1>1, <3>0, <3>1, <4>0, SMTT(60)
      <4>2. 0 < q + 1
        BY <1>1, <3>1, <4>1, Products
      <4> QED
        BY <3>1, <4>2
    <3>3. CASE q + 1 < n
      <4>1. q + 1 \in 1..n /\ n \in 1..n
        BY <1>1, <2>1, <3>1, <3>2, <3>3
      <4>2. windows[q + 1].mid = ((q + 1) - 1) * a.oosBars + a.isBars
            /\ windows[q + 1].end = (q + 1) * a.oosBars + a.isBars
        BY <3>3, <4>1, WindowIs, WindowsFollow
      <4>3. ((q + 1) - 1) * a.oosBars = q * a.oosBars
        BY <3>1
      <4>4. q * a.oosBars \in Int /\ (q + 1) * a.oosBars \in Int
        BY <1>1, <3>1
      <4>5. windows[q + 1].mid <= t /\ t <= windows[q + 1].end
        BY <1>1, <3>0, <3>1, <4>2, <4>3, <4>4, SMTT(60)
      <4> QED
        BY <2>2, <3>0, <4>1, <4>5
    <3>4. CASE q + 1 >= n
      <4>1. (n - 1) * a.oosBars <= q * a.oosBars
        BY <1>1, <2>1, <3>1, <3>4, Products
      <4>2. windows[n].mid = (n - 1) * a.oosBars + a.isBars /\ (n - 1) * a.oosBars \in Int
        BY <1>1, <2>1, WindowIs
      <4>3. q * a.oosBars \in Int
        BY <1>1, <3>1
      <4>4. windows[n].mid <= t
        BY <1>1, <3>0, <3>1, <4>1, <4>2, <4>3
      <4> QED
        BY <1>1, <2>1, <2>2, <3>0, <4>4
    <3> QED
      BY <1>1, <3>1, <3>3, <3>4
  <2> QED
    BY <1>1, <1>2, <2>1, <2>2, <2>3, SMTT(60)
<1>3. ASSUME NEW i \in results, NEW j \in results, i # j
      PROVE  Cardinality(Walk!BaseBars(windows[i].mid, windows[i].end)
                           \cap Walk!BaseBars(windows[j].mid, windows[j].end)) <= 1
  <2>1. ASSUME NEW k \in 1..n, NEW l \in 1..n, k < l
        PROVE  Cardinality(Walk!BaseBars(windows[k].mid, windows[k].end)
                             \cap Walk!BaseBars(windows[l].mid, windows[l].end)) <= 1
    <3> DEFINE both == Walk!BaseBars(windows[k].mid, windows[k].end)
                         \cap Walk!BaseBars(windows[l].mid, windows[l].end)
               e == windows[k].end
    <3>1. windows[k].end <= windows[l].mid /\ windows[k].end \in Nat /\ windows[l].mid \in Nat
      BY <2>1, WindowIs, WindowsFollow
    <3>2. both \subseteq {e}
      BY <3>1 DEF Walk!BaseBars
    <3>3. IsFiniteSet({e}) /\ Cardinality({e}) = 1
      BY FS_Singleton
    <3> HIDE DEF both, e
    <3>4. Cardinality(both) <= 1
      BY <3>2, <3>3, FS_Subset
    <3> QED
      BY <3>4 DEF both
  <2>2. i \in 1..n /\ j \in 1..n /\ (i < j \/ j < i)
    BY <1>1, <1>3
  <2>3. CASE i < j
    BY <2>1, <2>2, <2>3
  <2>4. CASE j < i
    <3>1. Walk!BaseBars(windows[i].mid, windows[i].end) \cap Walk!BaseBars(windows[j].mid, windows[j].end)
          = Walk!BaseBars(windows[j].mid, windows[j].end) \cap Walk!BaseBars(windows[i].mid, windows[i].end)
      OBVIOUS
    <3> QED
      BY <2>1, <2>2, <2>4, <3>1
  <2> QED
    BY <2>2, <2>3, <2>4
<1>4. \A S : Walk!Cardinality(S) = Cardinality(S)
  BY DEF Walk!Cardinality, Cardinality
<1> QED
  BY <1>2, <1>3, <1>4 DEF Walk!JudgedOnce

-----------------------------------------------------------------------------
(* The chart.                                                              *)

\* A bar of the chart is never changed, only followed.
ChartBarsInv ==
    /\ \E T : bars \in Seq(T)
    /\ Len(bars) \in Nat
    /\ \A i \in 1..Len(bars) : SoundBar(bars[i])

\* The walk of the events is one: from its start, step by step.
IsWalk(g, swings, atr, n) ==
    \A k \in 0..n : g[k] = IF k = 0 THEN Chart!WalkStart ELSE Chart!WalkStep(g[k - 1], swings, atr, k)

\* There is a walk of the events over any number of bars.
LEMMA WalksExist ==
    ASSUME NEW swings, NEW atr, NEW n \in Nat
    PROVE  \E g : IsWalk(g, swings, atr, n)
<1> DEFINE Fails == {m \in Nat : ~\E g : IsWalk(g, swings, atr, m)}
<1> SUFFICES ASSUME Fails # {} PROVE FALSE
  OBVIOUS
<1>1. PICK m \in Fails : \A x \in Fails : m <= x
  <2>1. Fails \in SUBSET Nat
    OBVIOUS
  <2> HIDE DEF Fails
  <2> QED
    BY <2>1, SmallestExists
<1>2. m \in Nat /\ ~\E g : IsWalk(g, swings, atr, m)
  OBVIOUS
<1>3. CASE m = 0
  <2> DEFINE g == [k \in 0..0 |-> Chart!WalkStart]
  <2>1. IsWalk(g, swings, atr, 0)
    BY DEF IsWalk
  <2> QED
    BY <1>2, <1>3, <2>1
<1>4. CASE m # 0
  <2>1. m - 1 \in Nat /\ ~(m <= m - 1)
    BY <1>2, <1>4
  <2>2. m - 1 \notin Fails
    <3> HIDE DEF Fails
    <3> QED
      BY <1>1, <2>1
  <2>3. PICK g : IsWalk(g, swings, atr, m - 1)
    BY <2>1, <2>2
  <2> DEFINE h == [k \in 0..m |-> IF k = m THEN Chart!WalkStep(g[m - 1], swings, atr, m) ELSE g[k]]
  <2>4. ASSUME NEW k \in 0..m
        PROVE  h[k] = IF k = 0 THEN Chart!WalkStart ELSE Chart!WalkStep(h[k - 1], swings, atr, k)
    <3>1. CASE k = m
      <4>1. m - 1 \in 0..m /\ m - 1 # m /\ k # 0
        BY <1>2, <1>4, <3>1
      <4>2. h[m - 1] = g[m - 1] /\ h[m] = Chart!WalkStep(g[m - 1], swings, atr, m)
        BY <1>2, <4>1
      <4> HIDE DEF h
      <4> QED
        BY <3>1, <4>1, <4>2
    <3>2. CASE k # m
      <4>1. k \in 0..m - 1 /\ h[k] = g[k]
        BY <1>2, <3>2
      <4>2. g[k] = IF k = 0 THEN Chart!WalkStart ELSE Chart!WalkStep(g[k - 1], swings, atr, k)
        BY <2>3, <4>1 DEF IsWalk
      <4>3. k # 0 => h[k - 1] = g[k - 1]
        BY <1>2, <3>2
      <4> HIDE DEF h
      <4> QED
        BY <4>1, <4>2, <4>3
    <3> QED
      BY <3>1, <3>2
  <2>5. IsWalk(h, swings, atr, m)
    <3> HIDE DEF h
    <3> QED
      BY <2>4 DEF IsWalk
  <2> QED
    BY <1>2, <2>5
<1> QED
  BY <1>3, <1>4

\* The events of an analysis are those of such a walk.
LEMMA EventsAreWalked ==
    ASSUME NEW swings, NEW atr, Len(bars) \in Nat
    PROVE  \E g : IsWalk(g, swings, atr, Len(bars)) /\ Chart!Events(swings, atr) = g[Len(bars)].events
<1> DEFINE n == Len(bars)
           Is(g) == g = [k \in 0..n |->
                       IF k = 0 THEN Chart!WalkStart ELSE Chart!WalkStep(g[k - 1], swings, atr, k)]
           walk == CHOOSE g : Is(g)
<1>1. PICK g : IsWalk(g, swings, atr, n)
  BY WalksExist
<1> DEFINE h == [k \in 0..n |-> g[k]]
<1>2. Is(h)
  <2>1. \A k \in 0..n : h[k] = IF k = 0 THEN Chart!WalkStart ELSE Chart!WalkStep(h[k - 1], swings, atr, k)
    <3> SUFFICES ASSUME NEW k \in 0..n
                 PROVE  h[k] = IF k = 0 THEN Chart!WalkStart ELSE Chart!WalkStep(h[k - 1], swings, atr, k)
      OBVIOUS
    <3>1. h[k] = g[k] /\ (k # 0 => h[k - 1] = g[k - 1])
      OBVIOUS
    <3> HIDE DEF h
    <3> QED
      BY <1>1, <3>1 DEF IsWalk
  <2>2. h = [k \in 0..n |-> h[k]]
    OBVIOUS
  <2> HIDE DEF h
  <2> QED
    BY <2>1, <2>2
<1>3. Is(walk)
  <2> HIDE DEF Is, h
  <2> QED
    BY <1>2
<1>4. IsWalk(walk, swings, atr, n)
  <2> HIDE DEF walk
  <2> QED
    BY <1>3 DEF IsWalk
<1>5. Chart!Events(swings, atr) = walk[n].events
  BY DEF Chart!Events
<1> QED
  BY <1>4, <1>5

ChartEvents == [at : Int, kind : {"BOS", "MSS", "CHOCH"}, dir : {1, -1}, ref : Int, wide : BOOLEAN]

\* A swing j that a break like e may take: it was not known when e happened, or e
\* did not close beyond it.
Left(e, j) == j + ChartLookback > e.at \/ Chart!Tip(e.dir, j) > Chart!Close(e.dir, e.at)

\* Events within the first n bars that turn in two steps and do not cascade.
EventsSound(ev, n) ==
    /\ ev \in Seq(ChartEvents)
    /\ \A m \in 1..Len(ev) : ev[m].at \in 1..n /\ ev[m].ref \in 1..n
    /\ \A m \in 1..Len(ev) : ev[m].kind # "BOS" =>
         m > 1 /\ ev[m - 1].kind = "BOS" /\ ev[m - 1].dir = -ev[m].dir
    /\ \A m \in 2..Len(ev) : ev[m].dir = ev[m - 1].dir => Left(ev[m - 1], ev[m].ref)

Walks == [bias : {0, 1, -1}, active : [{1, -1} -> SUBSET Int], events : Seq(ChartEvents)]

\* The bias is that of the last event, and behind every swing that it left unbroken
\* lies one that a break the same way may take.
WalkSound(w, k) ==
    /\ w \in Walks
    /\ EventsSound(w.events, k)
    /\ \A d \in {1, -1} : \A i \in w.active[d] : i \in 1..k /\ i + ChartLookback <= k
    /\ w.events = <<>> => w.bias = 0
    /\ w.events # <<>> =>
         LET e == w.events[Len(w.events)]
         IN  /\ w.bias = IF e.kind = "BOS" THEN e.dir ELSE 0
             /\ \A i \in w.active[e.dir] : \E j \in w.active[e.dir] : j >= i /\ Left(e, j)

\* Bounded integers have a greatest.
LEMMA GreatestOf ==
    ASSUME NEW A \in SUBSET Int, A # {}, NEW n \in Int, \A x \in A : x <= n
    PROVE  Chart!Max(A) \in A /\ \A x \in A : x <= Chart!Max(A)
<1>1. PICK m \in A : \A x \in A : x <= m
  BY LargestExists
<1>2. \A x \in A : m >= x
  BY <1>1
<1>3. Chart!Max(A) \in A /\ \A x \in A : Chart!Max(A) >= x
  BY <1>2, Zenon DEF Chart!Max
<1> QED
  BY <1>3

\* A break appends an event that the bias calls for, and leaves in front of it what
\* it did not close beyond.
LEMMA BreaksAreSound ==
    ASSUME ChartAssumption, NEW k \in Nat \ {0}, NEW w, NEW active, NEW atr, NEW d \in {1, -1},
           WalkSound([w EXCEPT !.active = active], k), w \in Walks, active \in [{1, -1} -> SUBSET Int],
           active[d] # {}
    PROVE  WalkSound(Chart!Broken(w, active, atr, d, k), k)
<1> DEFINE ref == Chart!Max(active[d])
           disp == Chart!Close(d, k) - Chart!Tip(d, ref)
           kind == Chart!KindOfBreak(w.bias, disp, atr, d)
           event == [at |-> k, kind |-> kind, dir |-> d, ref |-> ref, wide |-> disp >= LeastBlock * atr]
           ev == w.events
           n == Len(ev)
           new == Append(ev, event)
           left == Chart!Unbroken(active, d, k)
           after == [active EXCEPT ![d] = left]
           v == [w EXCEPT !.active = active]
<1>1. Chart!Broken(w, active, atr, d, k) = [bias |-> Chart!BiasAfter(kind, d), active |-> after, events |-> new]
  BY DEF Chart!Broken
<1>2. v.events = ev /\ v.bias = w.bias /\ v.active = active /\ ev \in Seq(ChartEvents) /\ w.bias \in {0, 1, -1}
  BY DEF Walks
<1>3. EventsSound(ev, k) /\ n \in Nat
  BY <1>2 DEF WalkSound
<1>4. \A c \in {1, -1} : \A i \in active[c] : i \in 1..k /\ i + ChartLookback <= k
  BY <1>2 DEF WalkSound
<1>5. /\ ev = <<>> => w.bias = 0
      /\ n > 0 => /\ w.bias = IF ev[n].kind = "BOS" THEN ev[n].dir ELSE 0
                  /\ \A i \in active[ev[n].dir] : \E j \in active[ev[n].dir] : j >= i /\ Left(ev[n], j)
  <2>1. n > 0 => ev # <<>>
    BY <1>2
  <2> HIDE DEF v, ev, n
  <2>2. v.events # <<>> => /\ v.bias = IF v.events[Len(v.events)].kind = "BOS" THEN v.events[Len(v.events)].dir ELSE 0
                          /\ \A i \in v.active[v.events[Len(v.events)].dir] :
                               \E j \in v.active[v.events[Len(v.events)].dir] :
                                  j >= i /\ Left(v.events[Len(v.events)], j)
    BY Zenon DEF WalkSound, v
  <2>3. v.events = <<>> => v.bias = 0
    BY Zenon DEF WalkSound, v
  <2>4. n = Len(v.events)
    BY <1>2 DEF n
  <2> QED
    BY <1>2, <2>1, <2>2, <2>3, <2>4, Zenon
<1>6. ref \in active[d] /\ (\A i \in active[d] : i <= ref) /\ ref \in 1..k
  <2>1. active[d] \in SUBSET Int /\ k \in Int /\ \A i \in active[d] : i <= k
    BY <1>4
  <2> QED
    BY <1>4, <2>1, GreatestOf
<1>7. kind \in {"BOS", "MSS", "CHOCH"} /\ (kind # "BOS" => w.bias = -d)
  BY DEF Chart!KindOfBreak
<1> HIDE DEF ref, disp, kind, v
<1>8. event \in ChartEvents /\ event.at = k /\ event.kind = kind /\ event.dir = d /\ event.ref = ref
  BY <1>6, <1>7 DEF ChartEvents
<1> HIDE DEF event, ev
<1>9. new \in Seq(ChartEvents) /\ Len(new) = n + 1 /\ new[n + 1] = event /\ \A m \in 1..n : new[m] = ev[m]
  BY <1>2, <1>8
<1>10. n > 0 => n \in 1..n /\ ev[n] \in ChartEvents /\ ev[n].dir \in {1, -1}
  <2> HIDE DEF n
  <2>1. n > 0 => n \in 1..n
    BY <1>3
  <2>2. n = Len(ev)
    BY DEF n
  <2>3. n > 0 => ev[n] \in ChartEvents
    BY <1>2, <2>1, <2>2
  <2>4. \A e \in ChartEvents : e.dir \in {1, -1}
    BY DEF ChartEvents
  <2> QED
    BY <2>1, <2>3, <2>4
<1>11. n = 0 => ev = <<>>
  BY <1>2
<1> HIDE DEF n, new
<1>12. ASSUME NEW m \in 1..n + 1, new[m].kind # "BOS"
       PROVE  m > 1 /\ new[m - 1].kind = "BOS" /\ new[m - 1].dir = -new[m].dir
  <2>1. CASE m \in 1..n
    <3>1. m > 1 /\ ev[m - 1].kind = "BOS" /\ ev[m - 1].dir = -ev[m].dir
      BY <1>3, <1>9, <1>12, <2>1 DEF EventsSound, n
    <3>2. m - 1 \in 1..n
      BY <1>3, <2>1, <3>1
    <3> QED
      BY <1>9, <2>1, <3>1, <3>2
  <2>2. CASE m = n + 1
    <3>1. kind # "BOS" /\ w.bias = -d
      BY <1>7, <1>8, <1>9, <1>12, <2>2
    <3>2. n > 0
      <4>1. w.bias # 0
        BY <3>1
      <4> QED
        BY <1>3, <1>5, <1>11, <4>1
    <3>3. ev[n].kind = "BOS" /\ ev[n].dir = -d /\ n \in 1..n
      BY <1>5, <1>10, <3>1, <3>2
    <3>4. m - 1 = n /\ m > 1
      BY <1>3, <2>2, <3>2
    <3> QED
      BY <1>8, <1>9, <2>2, <3>3, <3>4
  <2>3. m \in 1..n \/ m = n + 1
    BY <1>3
  <2> QED
    BY <2>1, <2>2, <2>3
<1>13. ASSUME NEW m \in 2..n + 1, new[m].dir = new[m - 1].dir
       PROVE  Left(new[m - 1], new[m].ref)
  <2>1. CASE m \in 2..n
    <3>1. m \in 1..n /\ m - 1 \in 1..n
      BY <1>3, <2>1
    <3>2. Left(ev[m - 1], ev[m].ref)
      BY <1>3, <1>9, <1>13, <2>1, <3>1 DEF EventsSound, n
    <3> QED
      BY <1>9, <3>1, <3>2
  <2>2. CASE m = n + 1
    <3>1. n > 0 /\ m - 1 = n /\ n \in 1..n
      BY <1>3, <2>2
    <3>2. ev[n].dir = d
      BY <1>8, <1>9, <1>13, <2>2, <3>1
    <3>3. PICK j \in active[d] : j >= ref /\ Left(ev[n], j)
      BY <1>5, <1>6, <3>1, <3>2
    <3>4. j = ref
      <4>1. j \in Int /\ ref \in Int /\ j <= ref
        BY <1>4, <1>6, <3>3
      <4> QED
        BY <3>3, <4>1
    <3> QED
      BY <1>8, <1>9, <2>2, <3>1, <3>3, <3>4
  <2>3. m \in 2..n \/ m = n + 1
    BY <1>3
  <2> QED
    BY <2>1, <2>2, <2>3
<1>14. EventsSound(new, k)
  <2>1. ASSUME NEW m \in 1..n + 1
        PROVE  new[m].at \in 1..k /\ new[m].ref \in 1..k
    <3>1. CASE m \in 1..n
      BY <1>3, <1>9, <3>1 DEF EventsSound, n
    <3>2. CASE m = n + 1
      BY <1>6, <1>8, <1>9, <3>2
    <3>3. m \in 1..n \/ m = n + 1
      BY <1>3
    <3> QED
      BY <3>1, <3>2, <3>3
  <2> QED
    BY <1>9, <1>12, <1>13, <2>1 DEF EventsSound
<1>15. left \subseteq active[d]
       /\ \A i \in left : \E j \in left : j >= i /\ Chart!Tip(d, j) > Chart!Close(d, k)
  <2>1. left \subseteq active[d]
    BY DEF Chart!Unbroken
  <2>2. ASSUME NEW i \in left
        PROVE  \E j \in left : j >= i /\ Chart!Tip(d, j) > Chart!Close(d, k)
    <3>1. PICK j \in active[d] : j >= i /\ Chart!Tip(d, j) > Chart!Close(d, k)
      BY DEF Chart!Unbroken
    <3>2. j >= j
      BY <1>4
    <3>3. j \in left
      BY <3>1, <3>2 DEF Chart!Unbroken
    <3> QED
      BY <3>1, <3>3
  <2> QED
    BY <2>1, <2>2
<1> HIDE DEF left
<1>16. after \in [{1, -1} -> SUBSET Int] /\ after[d] = left /\ \A c \in {1, -1} : c # d => after[c] = active[c]
  BY <1>15
<1> HIDE DEF after
<1>17. \A c \in {1, -1} : \A i \in after[c] : i \in 1..k /\ i + ChartLookback <= k
  BY <1>4, <1>15, <1>16
<1> DEFINE r == [bias |-> Chart!BiasAfter(kind, d), active |-> after, events |-> new]
<1>18. Chart!BiasAfter(kind, d) \in {0, 1, -1} /\ Chart!BiasAfter(kind, d) = IF kind = "BOS" THEN d ELSE 0
  BY DEF Chart!BiasAfter
<1>19. r \in Walks
  BY <1>9, <1>16, <1>18 DEF Walks
<1>20. r.events = new /\ r.active = after /\ r.bias = IF kind = "BOS" THEN d ELSE 0
  BY <1>18
<1> HIDE DEF r
<1>21. new # <<>> /\ Len(new) = n + 1 /\ new[n + 1] = event
  BY <1>3, <1>9
<1>22. \A i \in after[d] : \E j \in after[d] : j >= i /\ Left(event, j)
  BY <1>8, <1>15, <1>16, Zenon DEF Left
<1>23. WalkSound(r, k)
  BY <1>8, <1>14, <1>17, <1>19, <1>20, <1>21, <1>22, Zenon DEF WalkSound
<1> QED
  BY <1>1, <1>23 DEF r

\* One more bar: a break the other way is a change of character, and takes a swing that was left.
LEMMA StepsAreSound ==
    ASSUME ChartAssumption, NEW k \in Nat \ {0}, NEW w, WalkSound(w, k - 1), NEW atr,
           NEW swings, \A s \in swings : s.at \in Int /\ s.at >= 1
    PROVE  WalkSound(Chart!WalkStep(w, swings, atr, k), k)
<1> DEFINE active == [d \in {1, -1} |-> w.active[d] \cup Chart!Confirmed(swings, d, k)]
           v == [w EXCEPT !.active = active]
           ev == w.events
           n == Len(ev)
<1>1. w \in Walks /\ w.active \in [{1, -1} -> SUBSET Int] /\ ev \in Seq(ChartEvents) /\ n \in Nat
  BY DEF WalkSound, Walks
<1>2. \A d : \A i \in Chart!Confirmed(swings, d, k) : i \in Int /\ i >= 1 /\ i + ChartLookback = k
  BY DEF Chart!Confirmed
<1>3. active \in [{1, -1} -> SUBSET Int] /\ \A d \in {1, -1} : active[d] = w.active[d] \cup Chart!Confirmed(swings, d, k)
  BY <1>1, <1>2
<1> HIDE DEF active
<1>4. v \in Walks /\ v.events = ev /\ v.bias = w.bias /\ v.active = active
  BY <1>1, <1>3 DEF Walks
<1>5. ChartLookback \in Nat
  BY DEF ChartAssumption
<1>6. ASSUME NEW d \in {1, -1}, NEW i \in active[d]
      PROVE  i \in 1..k /\ i + ChartLookback <= k
  <2>1. CASE i \in w.active[d]
    <3>1. i \in 1..k - 1 /\ i + ChartLookback <= k - 1
      BY <2>1 DEF WalkSound
    <3> QED
      BY <1>5, <3>1
  <2>2. CASE i \in Chart!Confirmed(swings, d, k)
    <3>1. i \in Int /\ i >= 1 /\ i + ChartLookback = k
      BY <1>2, <2>2
    <3> QED
      BY <1>5, <3>1
  <2> QED
    BY <1>3, <2>1, <2>2
<1>7. EventsSound(ev, k)
  <2>1. EventsSound(ev, k - 1)
    BY DEF WalkSound
  <2>2. \A m \in 1..Len(ev) : ev[m].at \in 1..k /\ ev[m].ref \in 1..k
    <3>1. \A x \in 1..k - 1 : x \in 1..k
      OBVIOUS
    <3> HIDE DEF ev
    <3> QED
      BY <2>1, <3>1 DEF EventsSound
  <2> HIDE DEF ev
  <2> QED
    BY <2>1, <2>2, Zenon DEF EventsSound
<1>8. ASSUME ev # <<>>
      PROVE  /\ v.bias = IF ev[n].kind = "BOS" THEN ev[n].dir ELSE 0
             /\ \A i \in active[ev[n].dir] : \E j \in active[ev[n].dir] : j >= i /\ Left(ev[n], j)
  <2> DEFINE e == ev[n]
  <2>1. /\ w.bias = IF e.kind = "BOS" THEN e.dir ELSE 0
        /\ \A i \in w.active[e.dir] : \E j \in w.active[e.dir] : j >= i /\ Left(e, j)
    BY <1>8, Zenon DEF WalkSound
  <2>2. n \in 1..n
    BY <1>1, <1>8
  <2>3. e \in ChartEvents /\ e.at \in 1..k - 1
    <3>1. EventsSound(ev, k - 1)
      BY DEF WalkSound
    <3> QED
      BY <1>1, <2>2, <3>1 DEF EventsSound
  <2>4. e.dir \in {1, -1} /\ e.at \in Int /\ e.at < k
    BY <2>3 DEF ChartEvents
  <2> HIDE DEF e
  <2>5. ASSUME NEW i \in active[e.dir]
        PROVE  \E j \in active[e.dir] : j >= i /\ Left(e, j)
    <3>1. CASE i \in w.active[e.dir]
      BY <1>3, <2>1, <2>4, <3>1
    <3>2. CASE i \in Chart!Confirmed(swings, e.dir, k)
      <4>1. i \in Int /\ i + ChartLookback = k
        BY <1>2, <3>2
      <4>2. i >= i /\ Left(e, i)
        BY <2>4, <4>1 DEF Left
      <4> QED
        BY <4>2
    <3> QED
      BY <1>3, <2>4, <3>1, <3>2
  <2> QED
    BY <1>4, <2>1, <2>5 DEF e
<1>9. WalkSound(v, k)
  <2>1. ev = <<>> => v.bias = 0
    BY <1>4, Zenon DEF WalkSound
  <2> HIDE DEF v, ev
  <2>2. ev = v.events /\ n = Len(v.events) /\ active = v.active
    BY <1>4
  <2>3. \A d \in {1, -1} : \A i \in v.active[d] : i \in 1..k /\ i + ChartLookback <= k
    BY <1>6, <2>2, Zenon
  <2>4. v.events # <<>> =>
         /\ v.bias = IF v.events[Len(v.events)].kind = "BOS" THEN v.events[Len(v.events)].dir ELSE 0
         /\ \A i \in v.active[v.events[Len(v.events)].dir] :
               \E j \in v.active[v.events[Len(v.events)].dir] : j >= i /\ Left(v.events[Len(v.events)], j)
    BY <1>8, <2>2, Zenon
  <2>5. v \in Walks /\ EventsSound(v.events, k) /\ (v.events = <<>> => v.bias = 0)
    BY <1>4, <1>7, <2>1, <2>2, Zenon
  <2> QED
    BY <2>3, <2>4, <2>5, Zenon DEF WalkSound
<1>10. Chart!WalkStep(w, swings, atr, k) =
         IF ~Chart!Solid(k) THEN v
         ELSE IF Chart!Breaks(active, atr, 1, k) THEN Chart!Broken(w, active, atr, 1, k)
         ELSE IF Chart!Breaks(active, atr, -1, k) THEN Chart!Broken(w, active, atr, -1, k)
         ELSE v
  BY DEF Chart!WalkStep, Chart!Dirs, active
<1>11. ASSUME NEW d \in {1, -1}, Chart!Breaks(active, atr, d, k)
       PROVE  WalkSound(Chart!Broken(w, active, atr, d, k), k)
  <2>1. active[d] # {}
    BY <1>11 DEF Chart!Breaks
  <2> QED
    BY <1>1, <1>3, <1>9, <2>1, BreaksAreSound
<1> HIDE DEF v
<1> QED
  BY <1>9, <1>10, <1>11

\* The events that an analysis finds are sound.
LEMMA EventsAreSound ==
    ASSUME ChartAssumption, ChartBarsInv, NEW atr
    PROVE  EventsSound(Chart!Events(Chart!Structural(atr), atr), Len(bars))
<1> DEFINE swings == Chart!Structural(atr)
           n == Len(bars)
<1>1. n \in Nat
  BY DEF ChartBarsInv
<1>2. \A s \in swings : s.at \in Int /\ s.at >= 1
  <2>1. \A s \in Chart!Structural(atr) : s \in Chart!Swings
    BY DEF Chart!Structural
  <2>2. \A s \in Chart!Swings : s.at \in Chart!Highs \cup Chart!Lows
    BY DEF Chart!Swings
  <2>3. Chart!Highs \cup Chart!Lows \subseteq 1..n
    BY DEF Chart!Highs, Chart!Lows, Chart!Indices
  <2> QED
    BY <1>1, <2>1, <2>2, <2>3
<1> HIDE DEF swings, n
<1>3. PICK g : IsWalk(g, swings, atr, n) /\ Chart!Events(swings, atr) = g[n].events
  BY <1>1, EventsAreWalked DEF n
<1> DEFINE Fails == {k \in 0..n : ~WalkSound(g[k], k)}
<1>4. Fails = {}
  <2> SUFFICES ASSUME Fails # {} PROVE FALSE
    OBVIOUS
  <2>1. PICK k \in Fails : \A x \in Fails : k <= x
    <3>1. Fails \in SUBSET Nat
      BY <1>1
    <3> HIDE DEF Fails
    <3> QED
      BY <3>1, SmallestExists
  <2>2. k \in 0..n /\ ~WalkSound(g[k], k) /\ k \in Nat
    BY <1>1
  <2>3. CASE k = 0
    <3>1. g[0] = Chart!WalkStart
      BY <1>1, <1>3 DEF IsWalk
    <3>2. Chart!WalkStart = [bias |-> 0, active |-> [d \in {1, -1} |-> {}], events |-> <<>>]
      BY DEF Chart!WalkStart, Chart!Dirs
    <3>3. Chart!WalkStart \in Walks /\ Chart!WalkStart.events = <<>> /\ Chart!WalkStart.bias = 0
          /\ \A d \in {1, -1} : Chart!WalkStart.active[d] = {}
      BY <3>2 DEF Walks
    <3>4. EventsSound(<<>>, 0)
      <4>1. <<>> \in Seq(ChartEvents) /\ Len(<<>>) = 0
        OBVIOUS
      <4> QED
        BY <4>1 DEF EventsSound
    <3> QED
      BY <2>2, <2>3, <3>1, <3>3, <3>4 DEF WalkSound
  <2>4. CASE k # 0
    <3>1. k \in Nat \ {0} /\ k - 1 \in 0..n /\ ~(k <= k - 1)
      BY <1>1, <2>2, <2>4
    <3>2. k - 1 \notin Fails
      <4> HIDE DEF Fails
      <4> QED
        BY <2>1, <3>1
    <3>3. WalkSound(g[k - 1], k - 1)
      BY <3>1, <3>2
    <3>4. g[k] = Chart!WalkStep(g[k - 1], swings, atr, k)
      BY <1>3, <2>2, <2>4 DEF IsWalk
    <3> QED
      BY <1>2, <2>2, <3>1, <3>3, <3>4, StepsAreSound
  <2> QED
    BY <2>3, <2>4
<1>5. WalkSound(g[n], n)
  BY <1>1, <1>4
<1> QED
  BY <1>3, <1>5 DEF WalkSound, swings, n

-----------------------------------------------------------------------------
\* A gap that is used up: it has no width, or a bar in it closed beyond it or filled
\* half of it.
DeadGap(g) ==
    \/ g.near - g.far <= 0
    \/ \E j \in Chart!Touching(g) :
         \/ Chart!Close(g.dir, j) < g.far
         \/ 2 * (g.near - (-Chart!Tip(-g.dir, j))) >= g.near - g.far

\* A block that is used up: a bar closed beyond it, or too many tested it.
DeadBlock(b) ==
    \/ Chart!Failed(b)
    \/ Chart!Tests(b) # {} /\ Cardinality(Chart!Tests(b)) > BlockTests

ChartInv ==
    /\ ChartBarsInv
    /\ EventsSound(chart.events, Len(bars))
    /\ \A z \in DOMAIN chart.gaps :
         /\ z.at \in 1..Len(bars)
         /\ chart.gaps[z] \notin Chart!TradableStates => DeadGap(z)
    /\ \A z \in DOMAIN chart.blocks :
         /\ z.at \in 1..Len(bars)
         /\ chart.blocks[z] \notin Chart!TradableStates => DeadBlock(z)

\* An instance counts as the library does.
LEMMA ChartSame == \A S : Chart!Cardinality(S) = Cardinality(S)
BY DEF Chart!Cardinality, Cardinality

\* The greater of two numbers.
LEMMA ChartGreater ==
    ASSUME NEW a \in Int, NEW b \in Int
    PROVE  Chart!Max({a, b}) \in {a, b} /\ a <= Chart!Max({a, b}) /\ b <= Chart!Max({a, b})
BY DEF Chart!Max

\* The extremes and closes of the bars, seen from either side, are numbers.
LEMMA TipsAre ==
    ASSUME ChartBarsInv, NEW d \in {1, -1}, NEW i \in 1..Len(bars)
    PROVE  Chart!Tip(d, i) \in Int /\ Chart!Close(d, i) \in Int
<1>1. bars[i].h \in Int /\ bars[i].l \in Int /\ bars[i].c \in Int
  BY DEF ChartBarsInv, SoundBar
<1> QED
  BY <1>1 DEF Chart!Tip, Chart!Extreme, Chart!Close

\* A gap can be traded as long as it is not used up.
LEMMA GapsAreDead ==
    ASSUME ChartBarsInv, NEW g, g.at \in 1..Len(bars), g.dir \in {1, -1}, g.near \in Int, g.far \in Int,
           g.far <= g.near
    PROVE  Chart!GapState(g) \in Chart!TradableStates <=> ~DeadGap(g)
<1> DEFINE T == Chart!Touching(g)
           near == g.near
           far == g.far
           a(j) == -Chart!Tip(-g.dir, j)
           fill(j) == near - Chart!Max({a(j), far})
           fills == {0} \cup {fill(j) : j \in T}
           F == Chart!Fill(g, T)
           turned == \E j \in T : Chart!Close(g.dir, j) < far
<1>1. near \in Int /\ far \in Int /\ far <= near
  OBVIOUS
<1>2. \A j \in T : a(j) \in Int /\ Chart!Close(g.dir, j) \in Int
  <2>1. \A j \in T : j \in 1..Len(bars)
    BY DEF Chart!Touching, ChartBarsInv
  <2>2. -g.dir \in {1, -1}
    OBVIOUS
  <2> QED
    BY <2>1, <2>2, TipsAre, SMTT(60)
<1>3. F = Chart!Max(fills)
  BY DEF Chart!Fill
<1>4. Chart!GapState(g) = IF turned THEN "INVERTED" ELSE IF F = near - far THEN "INVALIDATED"
          ELSE IF 2 * F >= near - far THEN "MITIGATED" ELSE IF F > 0 THEN "PARTIAL" ELSE "UNMITIGATED"
  BY DEF Chart!GapState
<1>5. DeadGap(g) <=> (near - far <= 0 \/ \E j \in T : Chart!Close(g.dir, j) < far \/ 2 * (near - a(j)) >= near - far)
  BY DEF DeadGap
<1> HIDE DEF T, near, far, a
<1>6. \A j \in T : /\ fill(j) \in Int /\ fill(j) <= near - far /\ fill(j) <= near - a(j)
                   /\ (fill(j) = near - a(j) \/ fill(j) = near - far)
  <2> SUFFICES ASSUME NEW j \in T
               PROVE  /\ fill(j) \in Int /\ fill(j) <= near - far /\ fill(j) <= near - a(j)
                      /\ (fill(j) = near - a(j) \/ fill(j) = near - far)
    OBVIOUS
  <2> DEFINE x == a(j)
             m == Chart!Max({x, far})
  <2>1. x \in Int
    BY <1>2
  <2> HIDE DEF x
  <2>2. m \in {x, far} /\ x <= m /\ far <= m
    BY <1>1, <2>1, ChartGreater
  <2> HIDE DEF m
  <2>3. /\ near - m \in Int /\ near - m <= near - far /\ near - m <= near - x
        /\ (near - m = near - x \/ near - m = near - far)
    BY <1>1, <2>1, <2>2
  <2> QED
    BY <2>3 DEF m, x
<1> HIDE DEF fill
<1>7. fills \in SUBSET Int /\ fills # {} /\ near - far \in Int /\ \A x \in fills : x <= near - far
  BY <1>1, <1>6
<1> HIDE DEF fills
<1>8. F \in fills /\ \A x \in fills : x <= F
  BY <1>3, <1>7, GreatestOf
<1>9. F \in Int /\ 0 <= F /\ (F = 0 \/ \E j \in T : F = fill(j)) /\ \A j \in T : fill(j) <= F
  BY <1>7, <1>8 DEF fills
<1> HIDE DEF F
<1>10. ~DeadGap(g) <=> ~turned /\ F # near - far /\ ~(2 * F >= near - far)
  <2>1. ASSUME ~DeadGap(g)
        PROVE  ~turned /\ F # near - far /\ ~(2 * F >= near - far)
    <3>1. near - far > 0 /\ \A j \in T : ~(Chart!Close(g.dir, j) < far) /\ 2 * (near - a(j)) < near - far
      BY <1>1, <1>2, <1>5, <2>1
    <3>2. 2 * F < near - far
      <4>1. CASE F = 0
        BY <1>1, <3>1, <4>1
      <4>2. CASE \E j \in T : F = fill(j)
        <5>1. PICK j \in T : F = fill(j)
          BY <4>2
        <5>2. F <= near - a(j) /\ a(j) \in Int /\ 2 * (near - a(j)) < near - far
          BY <1>2, <1>6, <3>1, <5>1
        <5> QED
          BY <1>1, <1>9, <5>2
      <4> QED
        BY <1>9, <4>1, <4>2
    <3> QED
      BY <1>1, <1>9, <3>1, <3>2
  <2>2. ASSUME ~turned, ~(2 * F >= near - far)
        PROVE  ~DeadGap(g)
    <3>1. near - far > 0
      BY <1>1, <1>9, <2>2
    <3>2. ASSUME NEW j \in T PROVE ~(2 * (near - a(j)) >= near - far)
      <4>1. fill(j) \in Int /\ fill(j) <= F /\ a(j) \in Int /\ (fill(j) = near - a(j) \/ fill(j) = near - far)
        BY <1>2, <1>6, <1>9
      <4> QED
        BY <1>1, <1>9, <2>2, <3>1, <4>1
    <3>3. ~(near - far <= 0)
      BY <1>1, <3>1
    <3> QED
      BY <1>5, <2>2, <3>2, <3>3
  <2> QED
    BY <2>1, <2>2
<1> HIDE DEF turned
<1> QED
  BY <1>4, <1>10 DEF Chart!TradableStates

\* A block that cannot be traded is one that some bar used up.
LEMMA BlocksAreDead ==
    ASSUME ChartAssumption, NEW b
    PROVE  Chart!BlockState(b) \in Chart!TradableStates <=> ~DeadBlock(b)
BY ChartSame DEF Chart!BlockState, Chart!TradableStates, DeadBlock

\* There is no bar at the start.
LEMMA ChartStart == ASSUME Chart!Init PROVE ChartInv
<1>1. bars = <<>> /\ chart = [bias |-> 0, events |-> <<>>, gaps |-> <<>>, blocks |-> <<>>]
  BY DEF Chart!Init
<1>2. chart.events = <<>> /\ DOMAIN chart.gaps = {} /\ DOMAIN chart.blocks = {}
  BY <1>1
<1>3. bars \in Seq({}) /\ Len(bars) = 0 /\ <<>> \in Seq(ChartEvents) /\ Len(<<>>) = 0
  BY <1>1
<1>4. EventsSound(<<>>, 0)
  BY <1>3 DEF EventsSound
<1> QED
  BY <1>2, <1>3, <1>4 DEF ChartInv, ChartBarsInv

\* A further bar leaves those before it as they are.
LEMMA ChartGrows ==
    ASSUME ChartAssumption, ChartBarsInv, Chart!NewBar
    PROVE  /\ ChartBarsInv' /\ Len(bars') = Len(bars) + 1
           /\ \A i \in 1..Len(bars) : bars'[i] = bars[i]
<1>1. PICK o \in Chart!Opens, c \in ChartPrices, w \in ChartWicks :
           bars' = Append(bars, Chart!Bar(o, c, w))
  BY DEF Chart!NewBar
<1> DEFINE b == Chart!Bar(o, c, w)
           n == Len(bars)
<1>2. PICK S : bars \in Seq(S)
  BY DEF ChartBarsInv
<1>3. n \in Nat /\ (\A i \in 1..n : SoundBar(bars[i])) /\ (n = 0 <=> bars = <<>>)
  BY <1>2 DEF ChartBarsInv
<1>4. o \in Int
  <2>1. CASE bars = <<>> \/ Gapped
    <3>1. o \in ChartPrices
      BY <2>1 DEF Chart!Opens
    <3> QED
      BY <3>1 DEF ChartAssumption
  <2>2. CASE bars # <<>> /\ ~Gapped
    <3>1. o = bars[n].c /\ n \in 1..n
      BY <1>3, <2>2 DEF Chart!Opens
    <3>2. bars[n].c \in Int
      BY <1>3, <3>1 DEF SoundBar
    <3> QED
      BY <3>1, <3>2
  <2> QED
    BY <2>1, <2>2
<1>5. c \in Int /\ w \in Nat \X Nat
  BY DEF ChartAssumption
<1>6. SoundBar(b)
  <2>1. b = Lessons!Bar(o, c, w)
    BY DEF Chart!Bar, Lessons!Bar, Chart!Max, Chart!Min, Lessons!Max, Lessons!Min
  <2> QED
    BY <1>4, <1>5, <2>1, NewBarsAreSound
<1> HIDE DEF b
<1>7. bars \in Seq(S \cup {b}) /\ bars' \in Seq(S \cup {b}) /\ bars' = Append(bars, b)
  BY <1>1, <1>2 DEF b
<1>8. Len(bars') = n + 1 /\ bars'[n + 1] = b /\ \A i \in 1..n : bars'[i] = bars[i]
  BY <1>7
<1>9. \E T : bars' \in Seq(T)
  BY <1>7
<1> HIDE DEF n
<1>10. \A i \in 1..n + 1 : SoundBar(bars'[i])
  <2> SUFFICES ASSUME NEW i \in 1..n + 1 PROVE SoundBar(bars'[i])
    OBVIOUS
  <2>1. i \in 1..n \/ i = n + 1
    BY <1>3
  <2> QED
    BY <1>3, <1>6, <1>8, <2>1
<1>11. n + 1 \in Nat
  BY <1>3
<1>12. ChartBarsInv'
  BY <1>8, <1>9, <1>10, <1>11 DEF ChartBarsInv, SoundBar
<1> QED
  BY <1>8, <1>12 DEF n

\* What was used up by the bars so far stays so when one follows.
LEMMA DeadStays ==
    ASSUME ChartAssumption, ChartBarsInv, Chart!NewBar, NEW z, z.at \in 1..Len(bars)
    PROVE  /\ z.at \in 1..Len(bars')
           /\ DeadGap(z) => DeadGap(z)'
           /\ DeadBlock(z) => DeadBlock(z)'
<1> DEFINE n == Len(bars)
<1>1. n \in Nat /\ Len(bars') = n + 1 /\ \A i \in 1..n : bars'[i] = bars[i]
  BY ChartGrows DEF ChartBarsInv
<1>2. z.at \in 1..n
  OBVIOUS
<1> HIDE DEF n
<1>3. z.at \in 1..n + 1 /\ \A i \in 1..n : i \in 1..n + 1
  BY <1>1, <1>2
<1>4. \A d : \A i \in 1..n : Chart!Tip(d, i)' = Chart!Tip(d, i) /\ Chart!Close(d, i)' = Chart!Close(d, i)
  BY <1>1 DEF Chart!Tip, Chart!Extreme, Chart!Close
<1>5. ASSUME DeadGap(z) PROVE DeadGap(z)'
  <2>1. CASE z.near - z.far <= 0
    BY <2>1 DEF DeadGap
  <2>2. CASE \E j \in Chart!Touching(z) :
               \/ Chart!Close(z.dir, j) < z.far
               \/ 2 * (z.near - (-Chart!Tip(-z.dir, j))) >= z.near - z.far
    <3>1. PICK j \in Chart!Touching(z) :
               \/ Chart!Close(z.dir, j) < z.far
               \/ 2 * (z.near - (-Chart!Tip(-z.dir, j))) >= z.near - z.far
      BY <2>2
    <3>2. j \in z.at + 2..n /\ Chart!Touches(z, j)
      BY DEF Chart!Touching, n
    <3>3. j \in 1..n /\ j \in z.at + 2..n + 1
      BY <1>1, <1>2, <3>2
    <3>4. Chart!Tip(-z.dir, j)' = Chart!Tip(-z.dir, j) /\ Chart!Close(z.dir, j)' = Chart!Close(z.dir, j)
          /\ Chart!Tip(z.dir, j)' = Chart!Tip(z.dir, j)
      BY <1>4, <3>3
    <3>5. Chart!Touches(z, j)'
      BY <3>2, <3>4 DEF Chart!Touches
    <3>6. j \in Chart!Touching(z)'
      BY <1>1, <3>3, <3>5 DEF Chart!Touching
    <3>7. \/ Chart!Close(z.dir, j)' < z.far
          \/ 2 * (z.near - (-Chart!Tip(-z.dir, j)')) >= z.near - z.far
      BY <3>1, <3>4
    <3> QED
      BY <3>6, <3>7 DEF DeadGap
  <2> QED
    BY <1>5, <2>1, <2>2 DEF DeadGap
<1>6. ASSUME Chart!Failed(z) PROVE Chart!Failed(z)'
  <2>1. PICK j \in z.at + 1..n : IF z.dir = 1 THEN bars[j].c < z.bottom ELSE bars[j].c > z.top
    BY <1>6 DEF Chart!Failed, n
  <2>2. j \in 1..n /\ j \in z.at + 1..n + 1
    BY <1>1, <1>2
  <2>3. bars'[j] = bars[j]
    BY <1>1, <2>2
  <2> QED
    BY <1>1, <2>1, <2>2, <2>3 DEF Chart!Failed
<1>7. Chart!Tests(z) \in SUBSET Chart!Tests(z)'
  <2> SUFFICES ASSUME NEW j \in Chart!Tests(z) PROVE j \in Chart!Tests(z)'
    OBVIOUS
  <2>1. j \in z.at + 1..n /\ bars[j].h >= z.bottom /\ bars[j].l <= z.top
    BY DEF Chart!Tests, n
  <2>2. j \in 1..n /\ j \in z.at + 1..n + 1
    BY <1>1, <1>2, <2>1
  <2>3. bars'[j] = bars[j]
    BY <1>1, <2>2
  <2> QED
    BY <1>1, <2>1, <2>2, <2>3 DEF Chart!Tests
<1>8. ASSUME Chart!Tests(z) # {}, Cardinality(Chart!Tests(z)) > BlockTests
      PROVE  Chart!Tests(z)' # {} /\ Cardinality(Chart!Tests(z)') > BlockTests
  <2> DEFINE S == Chart!Tests(z)
             T == Chart!Tests(z)'
  <2>1. IsFiniteSet(T)
    <3>1. IsFiniteSet(1..n + 1)
      <4>1. 1 \in Int /\ n + 1 \in Int
        BY <1>1
      <4> QED
        BY <4>1, FS_Interval
    <3>2. T \in SUBSET (1..n + 1)
      BY <1>1, <1>2 DEF Chart!Tests
    <3> QED
      BY <3>1, <3>2, FS_Subset
  <2> HIDE DEF S, T
  <2>2. S \in SUBSET T /\ S # {} /\ Cardinality(S) > BlockTests
    BY <1>7, <1>8 DEF S, T
  <2>3. Cardinality(S) <= Cardinality(T) /\ IsFiniteSet(S)
    BY <2>1, <2>2, FS_Subset
  <2>4. Cardinality(S) \in Nat /\ Cardinality(T) \in Nat /\ BlockTests \in Nat
    BY <2>1, <2>3, FS_CardinalityType DEF ChartAssumption
  <2>5. T # {} /\ Cardinality(T) > BlockTests
    BY <2>2, <2>3, <2>4
  <2> QED
    BY <2>5 DEF T
<1>9. DeadBlock(z) => DeadBlock(z)'
  BY <1>6, <1>8 DEF DeadBlock
<1> QED
  BY <1>1, <1>3, <1>5, <1>9

\* A new bar does not change what was analysed.
LEMMA EventsStay ==
    ASSUME ChartAssumption, ChartBarsInv, Chart!NewBar, chart' = chart, EventsSound(chart.events, Len(bars))
    PROVE  EventsSound(chart.events, Len(bars))'
<1> DEFINE n == Len(bars)
           ev == chart.events
<1>1. n \in Nat /\ Len(bars') = n + 1 /\ \A i \in 1..n : bars'[i] = bars[i]
  BY ChartGrows DEF ChartBarsInv
<1>2. /\ ev \in Seq(ChartEvents)
      /\ \A m \in 1..Len(ev) : ev[m].at \in 1..n /\ ev[m].ref \in 1..n
      /\ \A m \in 1..Len(ev) : ev[m].kind # "BOS" =>
           m > 1 /\ ev[m - 1].kind = "BOS" /\ ev[m - 1].dir = -ev[m].dir
      /\ \A m \in 2..Len(ev) : ev[m].dir = ev[m - 1].dir => Left(ev[m - 1], ev[m].ref)
  BY DEF EventsSound
<1>3. ev' = ev
  OBVIOUS
<1> HIDE DEF n, ev
<1>4. \A i \in 1..n : i \in 1..n + 1
  BY <1>1
<1>5. \A d : \A i \in 1..n : Chart!Tip(d, i)' = Chart!Tip(d, i) /\ Chart!Close(d, i)' = Chart!Close(d, i)
  BY <1>1 DEF Chart!Tip, Chart!Extreme, Chart!Close
<1>6. \A m \in 1..Len(ev) : ev[m].at \in 1..n + 1 /\ ev[m].ref \in 1..n + 1
  BY <1>2, <1>4
<1>7. ASSUME NEW m \in 2..Len(ev), ev[m].dir = ev[m - 1].dir
      PROVE  Left(ev[m - 1], ev[m].ref)'
  <2> DEFINE e == ev[m - 1]
             r == ev[m].ref
  <2>1. m \in 1..Len(ev) /\ m - 1 \in 1..Len(ev)
    BY <1>2
  <2>2. e.at \in 1..n /\ r \in 1..n /\ Left(e, r)
    BY <1>2, <1>7, <2>1
  <2>3. e' = e /\ r' = r
    BY <1>3
  <2> HIDE DEF e, r
  <2>4. Chart!Tip(e.dir, r)' = Chart!Tip(e.dir, r) /\ Chart!Close(e.dir, e.at)' = Chart!Close(e.dir, e.at)
    BY <1>1, <2>2, <2>3 DEF Chart!Tip, Chart!Extreme, Chart!Close
  <2>5. Left(e, r)'
    BY <2>2, <2>3, <2>4 DEF Left
  <2> QED
    BY <2>5 DEF e, r
<1> QED
  BY <1>1, <1>2, <1>3, <1>6, <1>7 DEF EventsSound, ChartEvents, n, ev

\* An analysis is sound, and finds no zone alive that was used up.
LEMMA ChartMove ==
    ASSUME ChartAssumption, ChartInv, [Chart!Next]_chartVars
    PROVE  /\ ChartInv'
           /\ Chart!Decays(chart.gaps, chart'.gaps)
           /\ Chart!Decays(chart.blocks, chart'.blocks)
<1>0. \A zones : Chart!Decays(zones, zones)
  BY DEF Chart!Decays
<1>1. CASE Chart!BarCloses
  <2>1. Chart!NewBar /\ chart' = chart
    BY <1>1 DEF Chart!BarCloses
  <2>2. ChartBarsInv' /\ EventsSound(chart.events, Len(bars))'
    BY <2>1, ChartGrows, EventsStay DEF ChartInv
  <2>3. ASSUME NEW z \in DOMAIN chart.gaps
        PROVE  z.at \in 1..Len(bars') /\ (chart.gaps[z] \notin Chart!TradableStates => DeadGap(z)')
    BY <2>1, DeadStays DEF ChartInv
  <2>4. ASSUME NEW z \in DOMAIN chart.blocks
        PROVE  z.at \in 1..Len(bars') /\ (chart.blocks[z] \notin Chart!TradableStates => DeadBlock(z)')
    BY <2>1, DeadStays DEF ChartInv
  <2>5. Chart!TradableStates' = Chart!TradableStates
    BY DEF Chart!TradableStates
  <2> QED
    BY <1>0, <2>1, <2>2, <2>3, <2>4, <2>5 DEF ChartInv
<1>2. CASE Chart!Analyse
  <2>1. PICK atr \in ChartAtrs :
          LET swings == Chart!Structural(atr)
              events == Chart!Events(swings, atr)
          IN chart' = [bias |-> Chart!Bias(swings, events), events |-> events,
                       gaps |-> [g \in Chart!Gaps(atr) |-> Chart!GapState(g)],
                       blocks |-> [b \in Chart!Blocks(events) |-> Chart!BlockState(b)]]
    BY <1>2 DEF Chart!Analyse
  <2> DEFINE events == Chart!Events(Chart!Structural(atr), atr)
             gaps == [g \in Chart!Gaps(atr) |-> Chart!GapState(g)]
             blocks == [b \in Chart!Blocks(events) |-> Chart!BlockState(b)]
             n == Len(bars)
  <2>2. chart'.events = events /\ chart'.gaps = gaps /\ chart'.blocks = blocks /\ bars' = bars
    BY <1>2, <2>1 DEF Chart!Analyse
  <2>3. ChartBarsInv /\ n \in Nat /\ atr \in Nat /\ LeastGap \in Nat
    BY DEF ChartInv, ChartBarsInv, ChartAssumption
  <2>4. EventsSound(events, n)
    BY <2>3, EventsAreSound
  <2>5. ASSUME NEW g \in Chart!Gaps(atr)
        PROVE  g.at \in 1..n /\ (Chart!GapState(g) \in Chart!TradableStates <=> ~DeadGap(g))
    <3>1. PICK d \in {1, -1} : \E i \in Chart!Indices : Chart!IsGap(d, atr, i) /\ g = Chart!GapAt(d, i)
      BY DEF Chart!Gaps, Chart!Dirs
    <3>2. PICK i \in Chart!Indices : Chart!IsGap(d, atr, i) /\ g = Chart!GapAt(d, i)
      BY <3>1
    <3>3. i \in 1..n /\ i - 1 \in 1..n /\ i + 1 \in 1..n /\ g.near - g.far >= LeastGap * atr
      BY <3>2 DEF Chart!IsGap, Chart!Indices
    <3>4. g.at = i /\ g.dir = d /\ g.far = Chart!Tip(d, i - 1) /\ g.near = -Chart!Tip(-d, i + 1)
      BY <3>2 DEF Chart!GapAt
    <3>5. -d \in {1, -1}
      OBVIOUS
    <3> HIDE DEF n
    <3>6. Chart!Tip(d, i - 1) \in Int /\ Chart!Tip(-d, i + 1) \in Int
      BY <2>3, <3>3, <3>5, TipsAre DEF n
    <3>7. g.far \in Int /\ g.near \in Int
      BY <3>4, <3>6
    <3>8. LeastGap * atr \in Nat
      BY <2>3
    <3>9. g.far <= g.near
      BY <3>3, <3>7, <3>8
    <3> QED
      BY <2>3, <3>3, <3>4, <3>7, <3>9, GapsAreDead DEF n
  <2>6. ASSUME NEW b \in Chart!Blocks(events)
        PROVE  b.at \in 1..n
    <3>1. PICK e \in {events[m] : m \in 1..Len(events)} :
             Chart!Opposing(e.dir, e.at) # {} /\ b = Chart!Block(e.dir, Chart!Max(Chart!Opposing(e.dir, e.at)))
      BY DEF Chart!Blocks
    <3> DEFINE A == Chart!Opposing(e.dir, e.at)
    <3>2. A \in SUBSET (1..n) /\ A # {}
      BY <3>1 DEF Chart!Opposing, Chart!Indices
    <3>3. A \in SUBSET Int /\ n \in Int /\ \A x \in A : x <= n
      BY <2>3, <3>2
    <3> HIDE DEF A, n
    <3>4. Chart!Max(A) \in A
      BY <3>2, <3>3, GreatestOf
    <3>5. b.at = Chart!Max(A)
      BY <3>1 DEF Chart!Block, A
    <3> QED
      BY <3>2, <3>4, <3>5
  <2>7. \A z \in DOMAIN gaps : z.at \in 1..n /\ (gaps[z] \in Chart!TradableStates <=> ~DeadGap(z))
    BY <2>5
  <2>8. \A z \in DOMAIN blocks : z.at \in 1..n /\ (blocks[z] \in Chart!TradableStates <=> ~DeadBlock(z))
    BY <2>6, BlocksAreDead
  <2> HIDE DEF events, gaps, blocks, n
  <2>9. Chart!Decays(chart.gaps, gaps)
    BY <2>7 DEF ChartInv, Chart!Decays
  <2>10. Chart!Decays(chart.blocks, blocks)
    BY <2>8 DEF ChartInv, Chart!Decays
  <2>11. \A z : DeadGap(z)' = DeadGap(z) /\ DeadBlock(z)' = DeadBlock(z)
    BY <2>2 DEF DeadGap, DeadBlock, Chart!Touching, Chart!Touches, Chart!Tip, Chart!Extreme, Chart!Close,
             Chart!Failed, Chart!Tests
  <2>12. ChartBarsInv' /\ EventsSound(chart.events, Len(bars))'
    BY <2>2, <2>3, <2>4 DEF ChartBarsInv, SoundBar, EventsSound, ChartEvents, Left, Chart!Tip, Chart!Extreme,
             Chart!Close, n
  <2>13. ChartInv'
    BY <2>2, <2>7, <2>8, <2>11, <2>12 DEF ChartInv, Chart!TradableStates, n
  <2> QED
    BY <2>2, <2>9, <2>10, <2>13
<1>3. CASE UNCHANGED chartVars
  <2>1. bars' = bars /\ chart' = chart
    BY <1>3 DEF chartVars
  <2>2. \A z : DeadGap(z)' = DeadGap(z) /\ DeadBlock(z)' = DeadBlock(z)
    BY <2>1 DEF DeadGap, DeadBlock, Chart!Touching, Chart!Touches, Chart!Tip, Chart!Extreme, Chart!Close,
             Chart!Failed, Chart!Tests
  <2>3. ChartBarsInv' /\ EventsSound(chart.events, Len(bars))'
    BY <2>1 DEF ChartInv, ChartBarsInv, SoundBar, EventsSound, ChartEvents, Left, Chart!Tip, Chart!Extreme,
             Chart!Close
  <2>4. ChartInv'
    BY <2>1, <2>2, <2>3 DEF ChartInv, Chart!TradableStates
  <2> QED
    BY <1>0, <2>1, <2>4
<1> QED
  BY <1>1, <1>2, <1>3 DEF Chart!Next

\* Sound events are those that the property asks for.
LEMMA ChartsAreSound == ChartInv => Chart!TurnsInTwoSteps /\ Chart!NoCascade
<1> SUFFICES ASSUME ChartInv PROVE Chart!TurnsInTwoSteps /\ Chart!NoCascade
  OBVIOUS
<1> DEFINE ev == chart.events
<1>1. EventsSound(ev, Len(bars))
  BY DEF ChartInv
<1>2. Chart!TurnsInTwoSteps
  BY <1>1 DEF EventsSound, Chart!TurnsInTwoSteps
<1>3. Chart!NoCascade
  BY <1>1 DEF EventsSound, Chart!NoCascade, Left
<1> QED
  BY <1>2, <1>3

-----------------------------------------------------------------------------
(* What holds of them.                                                     *)

-----------------------------------------------------------------------------
(* The pools.                                                              *)

\* The bars that the pools are found in are sound, and only followed.
PoolBarsInv ==
    /\ \E T : lbars \in Seq(T)
    /\ Len(lbars) \in Nat
    /\ \A i \in 1..Len(lbars) : SoundBar(lbars[i])

\* How far the bars after a sweep moved away, or not at all.
Moves(p, i) == {0} \cup {Pools!Tip(-p.side, j) - Pools!Close(-p.side, i) : j \in i + 1..Pools!Min({i + 5, Len(lbars)})}

\* A sweep as the analysis of n bars with the ATR a finds it: the first that qualifies
\* of the bars that were scanned.
IsSweep(s, n, a) ==
    /\ s.pool.side \in {1, -1}
    /\ s.at \in 1..n /\ s.back \in 1..n /\ s.at > n - ScannedBars /\ n >= FewestBars
    /\ s.pen = Pools!Penetration(s.pool, s.at)
    /\ Pools!Qualifies(s.pool, s.at, a)
    /\ \A i \in 1..s.at - 1 : i > n - ScannedBars => ~Pools!Qualifies(s.pool, i, a)
    /\ s.back \in Pools!ClosesBack(s.pool, s.at)
    /\ \A j \in Pools!ClosesBack(s.pool, s.at) : s.back <= j
    /\ s.after \in Moves(s.pool, s.at)

PoolsInv ==
    /\ PoolBarsInv
    /\ ldue \in BOOLEAN
    /\ ldue => Len(lbars) > 0
    /\ \A s \in sweeps : IsSweep(s, IF ldue THEN Len(lbars) - 1 ELSE Len(lbars), scale)
    /\ \A s, t \in sweeps : t.pool = s.pool => t = s

\* A pool is on one side.
LEMMA PoolSides ==
    ASSUME NEW atr, NEW p \in Pools!Pools(atr)
    PROVE  p.side \in {1, -1}
<1>1. p \in Pools!EqualLevels(atr) \cup Pools!SwingPools(atr) \cup Pools!PeriodPools
  BY DEF Pools!Pools, Pools!Distinct
<1>2. CASE p \in Pools!EqualLevels(atr)
  <2> DEFINE Level(d, v) ==
               Pools!Pool("equal", d * v, d, Pools!Min(Pools!Members(d, v, atr)),
                          Pools!Min({100, 35 + 15 * Pools!Cardinality(Pools!Members(d, v, atr))}),
                          Pools!Cardinality(Pools!Members(d, v, atr)))
             Shared(d) == {u \in Pools!Heads(d, atr) : Pools!Cardinality(Pools!Members(d, u, atr)) > 1}
  <2>1. Pools!EqualLevels(atr) = UNION {{Level(d, v) : v \in Shared(d)} : d \in Pools!Dirs}
    BY DEF Pools!EqualLevels
  <2>2. \A d \in Pools!Dirs : \A v : Level(d, v).side = d
    BY DEF Pools!Pool
  <2> HIDE DEF Level, Shared
  <2>3. PICK d \in Pools!Dirs : p \in {Level(d, v) : v \in Shared(d)}
    BY <1>2, <2>1
  <2>4. p.side = d
    BY <2>2, <2>3
  <2> QED
    BY <2>3, <2>4 DEF Pools!Dirs
<1>3. CASE p \in Pools!SwingPools(atr)
  <2>1. PICK s \in Pools!Structural(atr) : p.side = s.dir
    BY <1>3 DEF Pools!SwingPools, Pools!Pool
  <2>2. s \in Pools!Swings
    BY DEF Pools!Structural
  <2>3. s.dir \in {1, -1}
    BY <2>2 DEF Pools!Swings, Pools!Kind
  <2> QED
    BY <2>1, <2>3
<1>4. CASE p \in Pools!PeriodPools
  BY <1>4 DEF Pools!PeriodPools, Pools!Pool
<1> QED
  BY <1>1, <1>2, <1>3, <1>4

\* The smaller of two numbers.
LEMMA PoolsLesser ==
    ASSUME NEW a \in Int, NEW b \in Int
    PROVE  Pools!Min({a, b}) \in Int /\ Pools!Min({a, b}) <= a /\ Pools!Min({a, b}) <= b
           /\ Pools!Min({a, b}) \in {a, b}
BY DEF Pools!Min

\* The extremes and closes of the bars, seen from either side, are numbers.
LEMMA PoolTips ==
    ASSUME PoolBarsInv, NEW d \in {1, -1}, NEW i \in 1..Len(lbars)
    PROVE  Pools!Tip(d, i) \in Int /\ Pools!Close(d, i) \in Int
<1>1. lbars[i].h \in Int /\ lbars[i].l \in Int /\ lbars[i].c \in Int
  BY DEF PoolBarsInv, SoundBar
<1> QED
  BY <1>1 DEF Pools!Tip, Pools!Extreme, Pools!Close

\* The move after a bar is the greatest of its moves.
LEMMA DisplacementIs ==
    ASSUME PoolBarsInv, NEW p, p.side \in {1, -1}, NEW i \in 1..Len(lbars)
    PROVE  /\ Moves(p, i) \subseteq Int
           /\ Pools!Displacement(p, i) \in Moves(p, i)
           /\ \A x \in Moves(p, i) : x <= Pools!Displacement(p, i)
<1> DEFINE d == -p.side
           n == Len(lbars)
           v == [j \in 1..n |-> Pools!Tip(d, j) - Pools!Close(d, i)]
<1>1. d \in {1, -1} /\ n \in Nat
  BY DEF PoolBarsInv
<1>2. Pools!Close(d, i) \in Int /\ \A j \in 1..n : Pools!Tip(d, j) \in Int
  BY <1>1, PoolTips
<1>3. \A j \in 1..n : v[j] \in Int
  BY <1>2
<1> HIDE DEF v
<1>4. PICK b \in Int : \A j \in 1..n : v[j] <= b
  BY <1>1, <1>3, BoundedImages
<1> USE DEF v
<1>5. Pools!Min({i + 5, n}) <= n /\ Pools!Min({i + 5, n}) \in Int
  <2>1. n \in Int /\ i + 5 \in Int
    BY <1>1
  <2> QED
    BY <2>1, PoolsLesser
<1>6. \A x \in Moves(p, i) : x = 0 \/ \E j \in 1..n : x = v[j]
  <2>1. ASSUME NEW j \in i + 1..Pools!Min({i + 5, n})
        PROVE  j \in 1..n
    BY <1>1, <1>5, <2>1
  <2> SUFFICES ASSUME NEW x \in Moves(p, i) PROVE x = 0 \/ \E j \in 1..n : x = v[j]
    OBVIOUS
  <2>2. x = 0 \/ \E j \in i + 1..Pools!Min({i + 5, n}) : x = Pools!Tip(d, j) - Pools!Close(d, i)
    BY Zenon DEF Moves
  <2> QED
    BY <2>1, <2>2
<1> HIDE DEF v, d, n
<1>7. Moves(p, i) \subseteq Int
  BY <1>3, <1>6
<1>8. PICK t \in Int : b <= t /\ 0 <= t
  OBVIOUS
<1>9. \A x \in Moves(p, i) : x <= t
  BY <1>3, <1>4, <1>6, <1>8
<1>10. 0 \in Moves(p, i)
  BY DEF Moves
<1>11. PICK m \in Moves(p, i) : \A x \in Moves(p, i) : x <= m
  BY <1>7, <1>9, <1>10, LargestExists
<1>12. \A x \in Moves(p, i) : m >= x
  BY <1>7, <1>11
<1>13. Pools!Max(Moves(p, i)) \in Moves(p, i) /\ \A x \in Moves(p, i) : Pools!Max(Moves(p, i)) >= x
  BY <1>12, Zenon DEF Pools!Max
<1>14. Pools!Displacement(p, i) = Pools!Max(Moves(p, i))
  BY DEF Pools!Displacement, Moves
<1> QED
  BY <1>7, <1>13, <1>14

\* What an analysis reports is a sweep.
LEMMA SweepsAreFound ==
    ASSUME PoolAssumption, PoolBarsInv,
           NEW atr, NEW s \in Pools!Sweeps(Pools!Pools(atr), atr)
    PROVE  /\ IsSweep(s, Len(lbars), atr) /\ s.after = Pools!Displacement(s.pool, s.at)
           /\ s = Pools!Sweep(s.pool, Pools!TheSweep({i \in Pools!Scanned : Pools!Qualifies(s.pool, i, atr)}))
<1> DEFINE Q(p) == {i \in Pools!Scanned : Pools!Qualifies(p, i, atr)}
<1>0. ~(Len(lbars) < FewestBars)
  BY DEF Pools!Sweeps
<1>1. PICK p \in Pools!Pools(atr) : Q(p) # {} /\ s = Pools!Sweep(p, Pools!TheSweep(Q(p)))
  BY <1>0, Zenon DEF Pools!Sweeps
<1> DEFINE i == Pools!TheSweep(Q(p))
           back == Pools!ClosesBack(p, i)
<1>2. p.side \in {1, -1} /\ Len(lbars) \in Nat
  BY PoolSides DEF PoolBarsInv
<1>3. Q(p) \in SUBSET Nat
  BY <1>2 DEF Pools!Scanned, Pools!Indices
<1>4. i \in Q(p) /\ \A x \in Q(p) : i <= x
  <2> HIDE DEF Q
  <2>1. PICK m \in Q(p) : \A x \in Q(p) : m <= x
    BY <1>1, <1>3, SmallestExists
  <2> QED
    BY <2>1, Zenon DEF Pools!TheSweep, Pools!Min
<1>5. /\ s.pool = p /\ s.at = i /\ s.back = Pools!Min(back) /\ s.after = Pools!Displacement(p, i)
      /\ s.pen = Pools!Penetration(p, i)
  BY <1>1 DEF Pools!Sweep
<1>15. s = Pools!Sweep(s.pool, Pools!TheSweep({k \in Pools!Scanned : Pools!Qualifies(s.pool, k, atr)}))
  BY <1>1, <1>5
<1> HIDE DEF i
<1>6. i \in 1..Len(lbars) /\ i > Len(lbars) - ScannedBars /\ Pools!Qualifies(p, i, atr)
  BY <1>4 DEF Pools!Scanned, Pools!Indices
<1>7. back \in SUBSET Nat /\ back # {} /\ back \in SUBSET (1..Len(lbars))
  <2>1. back # {}
    BY <1>6 DEF Pools!Qualifies
  <2> QED
    BY <1>2, <1>6, <2>1 DEF Pools!ClosesBack
<1>8. Pools!Min(back) \in back /\ \A x \in back : Pools!Min(back) <= x
  <2> HIDE DEF back
  <2>1. PICK m \in back : \A x \in back : m <= x
    BY <1>7, SmallestExists
  <2> QED
    BY <2>1, Zenon DEF Pools!Min
<1>9. \A k \in 1..i - 1 : k > Len(lbars) - ScannedBars => ~Pools!Qualifies(p, k, atr)
  <2> SUFFICES ASSUME NEW k \in 1..i - 1, k > Len(lbars) - ScannedBars
               PROVE  ~Pools!Qualifies(p, k, atr)
    OBVIOUS
  <2>1. k \in Pools!Scanned /\ ~(i <= k)
    BY <1>2, <1>6 DEF Pools!Scanned, Pools!Indices
  <2> QED
    BY <1>4, <2>1
<1>10. Len(lbars) >= FewestBars
  BY <1>0, <1>2 DEF PoolAssumption
<1>11. Pools!Displacement(p, i) \in Moves(p, i)
  BY <1>2, <1>6, DisplacementIs
<1> HIDE DEF back
<1>12. s.back \in 1..Len(lbars) /\ s.back \in back /\ \A x \in back : s.back <= x
  BY <1>5, <1>7, <1>8
<1>13. /\ Pools!Qualifies(s.pool, s.at, atr) /\ s.pen = Pools!Penetration(s.pool, s.at)
       /\ \A k \in 1..s.at - 1 : k > Len(lbars) - ScannedBars => ~Pools!Qualifies(s.pool, k, atr)
  BY <1>5, <1>6, <1>9, Zenon
<1>14. s.pool.side \in {1, -1} /\ s.at \in 1..Len(lbars) /\ s.after \in Moves(s.pool, s.at)
       /\ s.at > Len(lbars) - ScannedBars
  BY <1>2, <1>5, <1>6, <1>11, Zenon
<1> QED
  BY <1>5, <1>10, <1>12, <1>13, <1>14, <1>15, Zenon DEF IsSweep, back

\* A take that qualifies, or an earlier one, is reported.
LEMMA TakesAreFound ==
    ASSUME PoolBarsInv, NEW atr, NEW p \in Pools!Pools(atr), NEW i \in Pools!Scanned,
           Pools!Qualifies(p, i, atr), ~(Len(lbars) < FewestBars)
    PROVE  \E t \in Pools!Sweeps(Pools!Pools(atr), atr) : t.pool = p /\ t.at <= i
<1> DEFINE Q(q) == {k \in Pools!Scanned : Pools!Qualifies(q, k, atr)}
           t == Pools!Sweep(p, Pools!TheSweep(Q(p)))
<1>1. i \in Q(p) /\ Q(p) \in SUBSET Nat
  BY DEF PoolBarsInv, Pools!Scanned, Pools!Indices
<1>2. Pools!TheSweep(Q(p)) <= i
  <2> HIDE DEF Q
  <2>1. PICK m \in Q(p) : \A x \in Q(p) : m <= x
    BY <1>1, SmallestExists
  <2>2. Pools!Min(Q(p)) \in Q(p) /\ \A x \in Q(p) : Pools!Min(Q(p)) <= x
    BY <2>1, Zenon DEF Pools!Min
  <2> QED
    BY <1>1, <2>2 DEF Pools!TheSweep
<1>3. t.pool = p /\ t.at = Pools!TheSweep(Q(p))
  BY DEF Pools!Sweep
<1>4. t \in Pools!Sweeps(Pools!Pools(atr), atr)
  <2>1. Q(p) # {}
    BY <1>1
  <2> QED
    BY <2>1, Zenon DEF Pools!Sweeps
<1> QED
  BY <1>2, <1>3, <1>4

\* What qualifies by one ATR qualifies by each that its depth fits.
LEMMA DepthDecides ==
    ASSUME NEW p, NEW i, NEW a, NEW b, Pools!Qualifies(p, i, a),
           Pools!Fits(Pools!Penetration(p, i), b)
    PROVE  Pools!Qualifies(p, i, b)
BY DEF Pools!Qualifies

\* A further bar leaves those before it as they are.
LEMMA PoolsGrow ==
    ASSUME ChartAssumption, PoolAssumption, PoolBarsInv, Pools!NewBar
    PROVE  /\ PoolBarsInv' /\ Len(lbars') = Len(lbars) + 1
           /\ \A i \in 1..Len(lbars) : lbars'[i] = lbars[i]
<1>1. PICK o \in Pools!Opens, c \in PoolPrices, w \in PoolWicks :
           lbars' = Append(lbars, Pools!Bar(o, c, w))
  BY DEF Pools!NewBar
<1> DEFINE b == Pools!Bar(o, c, w)
           n == Len(lbars)
<1>2. PICK S : lbars \in Seq(S)
  BY DEF PoolBarsInv
<1>3. n \in Nat /\ (\A i \in 1..n : SoundBar(lbars[i])) /\ (n = 0 <=> lbars = <<>>)
  BY <1>2 DEF PoolBarsInv
<1>4. o \in Int
  <2>1. CASE lbars = <<>> \/ Gapped
    <3>1. o \in PoolPrices
      BY <2>1 DEF Pools!Opens
    <3> QED
      BY <3>1 DEF PoolAssumption
  <2>2. CASE lbars # <<>> /\ ~Gapped
    <3>1. o = lbars[n].c /\ n \in 1..n
      BY <1>3, <2>2 DEF Pools!Opens
    <3>2. lbars[n].c \in Int
      BY <1>3, <3>1 DEF SoundBar
    <3> QED
      BY <3>1, <3>2
  <2> QED
    BY <2>1, <2>2
<1>5. c \in Int /\ w \in Nat \X Nat
  BY DEF PoolAssumption
<1>6. SoundBar(b)
  <2>1. b = Lessons!Bar(o, c, w)
    BY DEF Pools!Bar, Lessons!Bar, Pools!Max, Pools!Min, Lessons!Max, Lessons!Min
  <2> QED
    BY <1>4, <1>5, <2>1, NewBarsAreSound
<1> HIDE DEF b
<1>7. lbars \in Seq(S \cup {b}) /\ lbars' \in Seq(S \cup {b}) /\ lbars' = Append(lbars, b)
  BY <1>1, <1>2 DEF b
<1>8. Len(lbars') = n + 1 /\ lbars'[n + 1] = b /\ \A i \in 1..n : lbars'[i] = lbars[i]
  BY <1>7
<1>9. \E T : lbars' \in Seq(T)
  BY <1>7
<1> HIDE DEF n
<1>10. \A i \in 1..n + 1 : SoundBar(lbars'[i])
  <2> SUFFICES ASSUME NEW i \in 1..n + 1 PROVE SoundBar(lbars'[i])
    OBVIOUS
  <2>1. i \in 1..n \/ i = n + 1
    BY <1>3
  <2> QED
    BY <1>3, <1>6, <1>8, <2>1
<1>11. n + 1 \in Nat
  BY <1>3
<1>12. PoolBarsInv'
  BY <1>8, <1>9, <1>10, <1>11 DEF PoolBarsInv, SoundBar
<1> QED
  BY <1>8, <1>12 DEF n

\* What is said of a bar is said of it when others follow; only its close may still
\* come back.
LEMMA BarsStay ==
    ASSUME NEW n \in Nat, Len(lbars) = n, Len(lbars') = n + 1, \A i \in 1..n : lbars'[i] = lbars[i],
           NEW p, NEW i \in 1..n, LatestReject \in Nat
    PROVE  /\ \A atr : Pools!Qualifies(p, i, atr) => Pools!Qualifies(p, i, atr)'
           /\ \A atr : Pools!Qualifies(p, i, atr)' =>
                         \/ Pools!Qualifies(p, i, atr)
                         \/ n + 1 <= i + LatestReject /\ Pools!ClosesBack(p, i) = {}
           /\ \A j \in i..n : j \in Pools!ClosesBack(p, i)' <=> j \in Pools!ClosesBack(p, i)
           /\ Pools!ClosesBack(p, i) \subseteq Pools!ClosesBack(p, i)'
<1>1. \A k \in 1..n : \A d : Pools!Tip(d, k)' = Pools!Tip(d, k) /\ Pools!Close(d, k)' = Pools!Close(d, k)
  BY DEF Pools!Tip, Pools!Extreme, Pools!Close
<1>2. \A k \in 1..n : Pools!Inside(p, k)' <=> Pools!Inside(p, k)
  BY <1>1 DEF Pools!Inside
<1>3. Pools!Rejects(p, i)' <=> Pools!Rejects(p, i)
  <2>1. lbars'[i] = lbars[i] /\ Pools!Tip(p.side, i)' = Pools!Tip(p.side, i)
    BY <1>1
  <2> DEFINE Rejected(b, tip) ==
               100 * (tip - (CHOOSE x \in {p.side * b.o, p.side * b.c} :
                               \A y \in {p.side * b.o, p.side * b.c} : x >= y)) >= LeastReject * (b.h - b.l)
  <2>2. Pools!Rejects(p, i) <=> Rejected(lbars[i], Pools!Tip(p.side, i))
    BY DEF Pools!Rejects, Pools!Max
  <2>3. Pools!Rejects(p, i)' <=> Rejected(lbars'[i], Pools!Tip(p.side, i)')
    BY DEF Pools!Rejects, Pools!Max
  <2> HIDE DEF Rejected
  <2> QED
    BY <2>1, <2>2, <2>3
<1>4. i \in Pools!Takes(p)' <=> i \in Pools!Takes(p)
  BY <1>1 DEF Pools!Takes, Pools!Indices
<1>5. Pools!Penetration(p, i)' = Pools!Penetration(p, i)
  BY <1>1 DEF Pools!Penetration
<1>6. \A j \in i..n : j \in Pools!ClosesBack(p, i)' <=> j \in Pools!ClosesBack(p, i)
  <2>1. \A j \in i..n : j \in 1..n /\ j \in i..n + 1
    OBVIOUS
  <2> QED
    BY <1>2, <2>1 DEF Pools!ClosesBack
<1>7. Pools!ClosesBack(p, i) \subseteq i..n /\ Pools!ClosesBack(p, i)' \subseteq i..n + 1
  BY DEF Pools!ClosesBack
<1>8. Pools!ClosesBack(p, i) \subseteq Pools!ClosesBack(p, i)'
  BY <1>6, <1>7
<1>9. Pools!ClosesBack(p, i)' # {} => Pools!ClosesBack(p, i) # {} \/ n + 1 <= i + LatestReject
  <2> SUFFICES ASSUME NEW j, j \in Pools!ClosesBack(p, i)', Pools!ClosesBack(p, i) = {}
               PROVE  n + 1 <= i + LatestReject
    OBVIOUS
  <2>1. j \in i..n + 1 /\ j <= i + LatestReject
    BY DEF Pools!ClosesBack
  <2>2. ~(j \in i..n)
    BY <1>6
  <2> QED
    BY <2>1, <2>2
<1>10. lbars'[i] = lbars[i]
  OBVIOUS
<1>11. ASSUME NEW atr, Pools!Qualifies(p, i, atr)
       PROVE  Pools!Qualifies(p, i, atr)'
  BY <1>2, <1>3, <1>4, <1>5, <1>8, <1>10, <1>11 DEF Pools!Qualifies
<1>12. ASSUME NEW atr, Pools!Qualifies(p, i, atr)', Pools!ClosesBack(p, i) # {}
       PROVE  Pools!Qualifies(p, i, atr)
  BY <1>2, <1>3, <1>4, <1>5, <1>10, <1>12 DEF Pools!Qualifies
<1>13. ASSUME NEW atr, Pools!Qualifies(p, i, atr)'
       PROVE  Pools!ClosesBack(p, i)' # {}
  BY <1>13 DEF Pools!Qualifies
<1> QED
  BY <1>6, <1>8, <1>9, <1>11, <1>12, <1>13

\* A bar that follows leaves a sweep what it is: an earlier bar that it lets close
\* back would have been inside with the close of the sweep.
LEMMA SweepsStand ==
    ASSUME PoolAssumption, PoolBarsInv, NEW n \in Nat, Len(lbars) = n, Len(lbars') = n + 1,
           \A i \in 1..n : lbars'[i] = lbars[i], NEW s, NEW a, IsSweep(s, n, a)
    PROVE  IsSweep(s, n, a)'
<1> DEFINE p == s.pool
<1>1. /\ p.side \in {1, -1} /\ s.at \in 1..n /\ s.back \in 1..n /\ s.at > n - ScannedBars
      /\ n >= FewestBars /\ s.pen = Pools!Penetration(p, s.at)
      /\ Pools!Qualifies(p, s.at, a)
      /\ \A i \in 1..s.at - 1 : i > n - ScannedBars => ~Pools!Qualifies(p, i, a)
      /\ s.back \in Pools!ClosesBack(p, s.at)
      /\ \A j \in Pools!ClosesBack(p, s.at) : s.back <= j
      /\ s.after \in Moves(p, s.at)
  BY DEF IsSweep
<1> HIDE DEF p
<1>2. LatestReject \in Nat
  BY DEF PoolAssumption
<1>3. s.back \in s.at..n /\ s.back <= s.at + LatestReject /\ Pools!Inside(p, s.back)
  BY <1>1 DEF Pools!ClosesBack
<1>4. Pools!Qualifies(p, s.at, a)'
  BY <1>1, <1>2, BarsStay
<1>5. ASSUME NEW i \in 1..s.at - 1, i > n - ScannedBars
      PROVE  ~Pools!Qualifies(p, i, a)'
  <2> SUFFICES ASSUME Pools!Qualifies(p, i, a)' PROVE FALSE
    OBVIOUS
  <2>1. i \in 1..n /\ i \in Int /\ i < s.at
    BY <1>1
  <2>2. ~Pools!Qualifies(p, i, a)
    BY <1>1, <1>5
  <2>3. n + 1 <= i + LatestReject /\ Pools!ClosesBack(p, i) = {}
    BY <1>2, <2>1, <2>2, BarsStay
  <2>4. s.back \in i..n /\ s.back <= i + LatestReject
    BY <1>1, <1>2, <1>3, <2>1, <2>3
  <2>5. s.back \in Pools!ClosesBack(p, i)
    BY <1>3, <2>4 DEF Pools!ClosesBack
  <2> QED
    BY <2>3, <2>5
<1>6. s.back \in Pools!ClosesBack(p, s.at)'
  BY <1>1, <1>2, BarsStay
<1>7. \A j \in Pools!ClosesBack(p, s.at)' : s.back <= j
  <2> SUFFICES ASSUME NEW j, j \in Pools!ClosesBack(p, s.at)' PROVE s.back <= j
    OBVIOUS
  <2>1. j \in s.at..n + 1
    BY DEF Pools!ClosesBack
  <2>2. CASE j \in s.at..n
    <3>1. j \in Pools!ClosesBack(p, s.at)
      BY <1>1, <1>2, <2>2, BarsStay
    <3> QED
      BY <1>1, <3>1
  <2>3. CASE ~(j \in s.at..n)
    BY <1>1, <2>1, <2>3
  <2> QED
    BY <2>2, <2>3
<1>8. s.after \in Moves(p, s.at)'
  <2> DEFINE m == Pools!Min({s.at + 5, n})
             m1 == Pools!Min({s.at + 5, n + 1})
  <2>1. m \in Int /\ m <= s.at + 5 /\ m <= n /\ m1 \in {s.at + 5, n + 1}
    <3>1. s.at + 5 \in Int /\ n \in Int /\ n + 1 \in Int
      BY <1>1
    <3> QED
      BY <3>1, PoolsLesser
  <2> HIDE DEF m, m1
  <2>2. \A j \in s.at + 1..m : j \in s.at + 1..m1 /\ j \in 1..n
    BY <1>1, <2>1
  <2>3. \A k \in 1..n : \A d : Pools!Tip(d, k)' = Pools!Tip(d, k) /\ Pools!Close(d, k)' = Pools!Close(d, k)
    BY DEF Pools!Tip, Pools!Extreme, Pools!Close
  <2>4. s.after = 0 \/ \E j \in s.at + 1..m : s.after = Pools!Tip(-p.side, j) - Pools!Close(-p.side, s.at)
    BY <1>1, Zenon DEF Moves, m
  <2>5. s.after = 0 \/ \E j \in s.at + 1..m1 : s.after = Pools!Tip(-p.side, j)' - Pools!Close(-p.side, s.at)'
    BY <1>1, <2>2, <2>3, <2>4
  <2>6. m1 = Pools!Min({s.at + 5, Len(lbars)})'
    BY DEF m1, Pools!Min
  <2> QED
    BY <2>5, <2>6 DEF Moves
<1> QED
  <2>1. s.pen = Pools!Penetration(p, s.at)'
    BY <1>1 DEF Pools!Penetration, Pools!Tip, Pools!Extreme
  <2> QED
    BY <1>1, <1>4, <1>5, <1>6, <1>7, <1>8, <2>1 DEF IsSweep, p

\* There is no bar at the start.
LEMMA PoolsStart == ASSUME Pools!LiquidityInit PROVE PoolsInv
<1>1. lbars = <<>> /\ ldue = FALSE /\ sweeps = {}
  BY DEF Pools!LiquidityInit
<1>2. (\E T : lbars \in Seq(T)) /\ Len(lbars) = 0
  <2>1. lbars \in Seq({}) /\ Len(lbars) = 0
    BY <1>1
  <2> QED
    BY <2>1
<1>3. PoolBarsInv
  BY <1>2 DEF PoolBarsInv
<1> QED
  BY <1>1, <1>3 DEF PoolsInv

\* What the bars say does not change while they do not.
LEMMA SweepsSame ==
    ASSUME lbars' = lbars, NEW s, NEW n, NEW a
    PROVE  IsSweep(s, n, a)' <=> IsSweep(s, n, a)
<1>1. \A d, i : Pools!Tip(d, i)' = Pools!Tip(d, i) /\ Pools!Close(d, i)' = Pools!Close(d, i)
  BY DEF Pools!Tip, Pools!Extreme, Pools!Close
<1>2. \A p, i : Pools!Inside(p, i)' <=> Pools!Inside(p, i)
  BY <1>1 DEF Pools!Inside
<1>6. \A p, i : Pools!ClosesBack(p, i)' = Pools!ClosesBack(p, i)
  BY <1>2 DEF Pools!ClosesBack
<1>7. \A p, i : Pools!Penetration(p, i)' = Pools!Penetration(p, i)
  BY <1>1 DEF Pools!Penetration
<1>8. \A p, i : (i \in Pools!Takes(p)') <=> i \in Pools!Takes(p)
  BY <1>1 DEF Pools!Takes, Pools!Indices
<1>3. \A p, i : Pools!Rejects(p, i)' <=> Pools!Rejects(p, i)
  BY <1>1 DEF Pools!Rejects, Pools!Max
<1>4. \A p, i, atr : Pools!Qualifies(p, i, atr)' <=> Pools!Qualifies(p, i, atr)
  BY <1>2, <1>3, <1>6, <1>7, <1>8 DEF Pools!Qualifies
<1>5. \A p, i : Moves(p, i)' = Moves(p, i)
  BY <1>1 DEF Moves, Pools!Min
<1> QED
  BY <1>4, <1>5, <1>6, <1>7 DEF IsSweep

\* What the next analysis may say of the pool of a sweep.
Again(s) == {t \in sweeps' : t.pool = s.pool}

StaysBy(s) ==
    IF s.at > Len(lbars) - ScannedBars
    THEN /\ Pools!Fits(s.pen, scale') /\ s.pool \in Pools!Pools(scale') => \E t \in Again(s) : t.at <= s.at
         /\ \A t \in Again(s) :
              /\ t.at > s.at => ~Pools!Fits(s.pen, scale')
              /\ t.at = s.at => t.back = s.back /\ t.after >= s.after
              /\ t.at < s.at => ~Pools!Fits(t.pen, scale)
    ELSE \A t \in Again(s) : t.at > s.at

\* Two sweeps of one pool that stand now are one, up to the move, unless the depth of
\* one does not fit the ATR of the other.
LEMMA SweepsAgree ==
    ASSUME NEW s, NEW t, NEW n \in Nat, NEW k \in Nat, NEW a, NEW b, IsSweep(s, n, a),
           IsSweep(t, k, b), t.pool = s.pool, n <= k, ScannedBars \in Nat
    PROVE  IF s.at > k - ScannedBars
           THEN /\ t.at > s.at => ~Pools!Fits(s.pen, b)
                /\ t.at = s.at => t.back = s.back
                /\ t.at < s.at => ~Pools!Fits(t.pen, a)
           ELSE t.at > s.at
<1>1. s.at \in Int /\ t.at \in Int /\ s.at >= 1 /\ t.at >= 1 /\ s.back \in Int /\ t.back \in Int
  BY DEF IsSweep
<1>2. t.at > k - ScannedBars /\ t.at > n - ScannedBars
  BY <1>1 DEF IsSweep
<1>3. CASE s.at > k - ScannedBars
  <2>1. ASSUME t.at > s.at, Pools!Fits(s.pen, b) PROVE FALSE
    <3>1. s.at \in 1..t.at - 1
      BY <1>1, <2>1
    <3>2. ~Pools!Qualifies(s.pool, s.at, b)
      BY <1>3, <3>1 DEF IsSweep
    <3>3. Pools!Qualifies(s.pool, s.at, a) /\ s.pen = Pools!Penetration(s.pool, s.at)
      BY DEF IsSweep
    <3> QED
      BY <2>1, <3>2, <3>3, DepthDecides
  <2>2. ASSUME t.at < s.at, Pools!Fits(t.pen, a) PROVE FALSE
    <3>1. t.at \in 1..s.at - 1
      BY <1>1, <2>2
    <3>2. ~Pools!Qualifies(s.pool, t.at, a)
      BY <1>2, <3>1 DEF IsSweep
    <3>3. Pools!Qualifies(s.pool, t.at, b) /\ t.pen = Pools!Penetration(s.pool, t.at)
      BY DEF IsSweep
    <3> QED
      BY <2>2, <3>2, <3>3, DepthDecides
  <2>3. ASSUME t.at = s.at PROVE t.back = s.back
    <3>1. s.back <= t.back /\ t.back <= s.back
      BY <2>3 DEF IsSweep
    <3> QED
      BY <1>1, <3>1
  <2> QED
    BY <1>3, <2>1, <2>2, <2>3
<1>4. CASE ~(s.at > k - ScannedBars)
  BY <1>1, <1>2, <1>4
<1> QED
  BY <1>3, <1>4

\* A bar or an analysis keeps what is known of the sweeps, and only its ATR moves one.
LEMMA PoolsStep ==
    ASSUME ChartAssumption, PoolAssumption, PoolsInv, [Pools!LiquidityNext]_poolsVars
    PROVE  PoolsInv' /\ [\A s \in sweeps : StaysBy(s)]_poolsVars
<1> DEFINE m == IF ldue THEN Len(lbars) - 1 ELSE Len(lbars)
           Stays == \A s \in sweeps : StaysBy(s)
<1>1. PoolBarsInv /\ Len(lbars) \in Nat /\ m \in Nat /\ m <= Len(lbars)
  BY DEF PoolsInv, PoolBarsInv
<1>2. \A s \in sweeps : IsSweep(s, m, scale)
  BY DEF PoolsInv
<1>3. ASSUME NEW s \in sweeps
      PROVE  s.pool.side \in {1, -1} /\ s.at \in 1..Len(lbars) /\ s.after \in Int
  <2>1. s.pool.side \in {1, -1} /\ s.at \in 1..m /\ s.after \in Moves(s.pool, s.at)
    BY <1>2 DEF IsSweep
  <2>2. s.at \in 1..Len(lbars)
    BY <1>1, <2>1
  <2>3. Moves(s.pool, s.at) \subseteq Int
    BY <1>1, <2>1, <2>2, DisplacementIs
  <2> QED
    BY <2>1, <2>2, <2>3
<1>5. CASE Pools!BarCloses
  <2>1. ldue = FALSE /\ ldue' = TRUE /\ Pools!NewBar /\ sweeps' = sweeps /\ scale' = scale
    BY <1>5 DEF Pools!BarCloses, PoolsInv
  <2>2. /\ PoolBarsInv' /\ Len(lbars') = Len(lbars) + 1
        /\ \A i \in 1..Len(lbars) : lbars'[i] = lbars[i]
    BY <1>1, <2>1, PoolsGrow
  <2> DEFINE n == Len(lbars)
  <2>3. PICK k \in Nat : k = n
    BY <1>1
  <2>10. PICK a : a = scale
    OBVIOUS
  <2>4. \A s \in sweeps : IsSweep(s, k, a)
    BY <1>2, <2>1, <2>3, <2>10
  <2>5. \A s \in sweeps' : IsSweep(s, k, a)'
    BY <1>1, <2>1, <2>2, <2>3, <2>4, SweepsStand
  <2>7. ldue' /\ Len(lbars') > 0 /\ Len(lbars') - 1 = k /\ scale' = a
    BY <2>1, <2>2, <2>3, <2>10
  <2>8. \A s, t \in sweeps' : t.pool = s.pool => t = s
    BY <2>1 DEF PoolsInv
  <2>9. PoolsInv'
    BY <2>2, <2>5, <2>7, <2>8 DEF PoolsInv
  <2>6. Stays
    <3> SUFFICES ASSUME NEW s \in sweeps PROVE StaysBy(s)
      OBVIOUS
    <3>1. s \in Again(s) /\ \A t \in Again(s) : t = s
      BY <2>1 DEF PoolsInv, Again
    <3>2. s.at > Len(lbars) - ScannedBars
      BY <1>2, <2>1 DEF IsSweep
    <3>3. s.at <= s.at /\ ~(s.at > s.at) /\ ~(s.at < s.at) /\ s.after >= s.after
      BY <1>1, <1>3
    <3> QED
      BY <3>1, <3>2, <3>3 DEF StaysBy
  <2> QED
    BY <2>9, <2>6
<1>6. CASE Pools!Analyse
  <2>1. ldue = TRUE /\ ldue' = FALSE /\ lbars' = lbars
    BY <1>6 DEF Pools!Analyse
  <2>2. PICK atr \in PoolAtrs : sweeps' = Pools!Sweeps(Pools!Pools(atr), atr) /\ scale' = atr
    BY <1>6 DEF Pools!Analyse
  <2>3. ASSUME NEW t \in sweeps'
        PROVE  /\ IsSweep(t, Len(lbars), atr) /\ t.after = Pools!Displacement(t.pool, t.at)
               /\ t = Pools!Sweep(t.pool, Pools!TheSweep({i \in Pools!Scanned : Pools!Qualifies(t.pool, i, atr)}))
    BY <1>1, <2>2, SweepsAreFound
  <2>4. \A t \in sweeps' : IsSweep(t, Len(lbars), scale)'
    <3> DEFINE n == Len(lbars)
    <3>1. PICK k : k = n
      OBVIOUS
    <3>2. n' = k
      BY <2>1, <3>1
    <3>3. \A t \in sweeps' : IsSweep(t, k, atr)
      BY <2>3, <3>1
    <3>4. \A t \in sweeps' : IsSweep(t, k, atr)'
      BY <2>1, <3>3, SweepsSame
    <3> QED
      BY <2>2, <3>2, <3>4
  <2>5. PoolBarsInv'
    BY <1>1, <2>1 DEF PoolBarsInv
  <2>6. \A s, t \in sweeps' : t.pool = s.pool => t = s
    BY <2>3, Zenon
  <2>7. PoolsInv'
    BY <2>1, <2>4, <2>5, <2>6 DEF PoolsInv
  <2>8. Stays
    <3> SUFFICES ASSUME NEW s \in sweeps PROVE StaysBy(s)
      OBVIOUS
    <3>1. PICK n \in Nat : n = m
      BY <1>1
    <3>2. PICK k \in Nat : k = Len(lbars)
      BY <1>1
    <3>3. PICK a : a = scale
      OBVIOUS
    <3>4. IsSweep(s, n, a) /\ n <= k
      BY <1>1, <1>2, <3>1, <3>2, <3>3
    <3>5. ASSUME NEW t \in Again(s)
          PROVE  /\ t \in sweeps' /\ t.pool = s.pool /\ IsSweep(t, k, atr)
                 /\ t.after = Pools!Displacement(t.pool, t.at)
      BY <2>3, <3>2 DEF Again
    <3>6. ScannedBars \in Nat /\ FewestBars \in Nat
      BY DEF PoolAssumption
    <3>7. ASSUME NEW t \in Again(s)
          PROVE  IF s.at > k - ScannedBars
                 THEN /\ t.at > s.at => ~Pools!Fits(s.pen, atr)
                      /\ t.at = s.at => t.back = s.back
                      /\ t.at < s.at => ~Pools!Fits(t.pen, a)
                 ELSE t.at > s.at
      BY <3>4, <3>5, <3>6, SweepsAgree
    <3>8. ASSUME NEW t \in Again(s), t.at = s.at
          PROVE  t.after >= s.after
      <4>1. s.after \in Moves(t.pool, t.at)
        BY <3>4, <3>5, <3>8 DEF IsSweep
      <4>2. t.pool.side \in {1, -1} /\ t.at \in 1..Len(lbars)
        BY <1>3, <3>5, <3>8
      <4>3. /\ s.after \in Int /\ Pools!Displacement(t.pool, t.at) \in Int
            /\ s.after <= Pools!Displacement(t.pool, t.at)
        BY <1>1, <1>3, <4>1, <4>2, DisplacementIs
      <4> QED
        BY <3>5, <4>3
    <3>9. ASSUME s.at > k - ScannedBars, Pools!Fits(s.pen, atr), s.pool \in Pools!Pools(atr)
          PROVE  \E t \in Again(s) : t.at <= s.at
      <4>1. Pools!Qualifies(s.pool, s.at, a) /\ s.pen = Pools!Penetration(s.pool, s.at)
        BY <3>4 DEF IsSweep
      <4>2. Pools!Qualifies(s.pool, s.at, atr)
        BY <3>9, <4>1, DepthDecides
      <4>3. s.at \in Pools!Scanned
        BY <1>3, <3>2, <3>9 DEF Pools!Scanned, Pools!Indices
      <4>4. n >= FewestBars
        BY <3>4 DEF IsSweep
      <4>5. ~(Len(lbars) < FewestBars)
        BY <3>2, <3>4, <3>6, <4>4
      <4>6. \E t \in Pools!Sweeps(Pools!Pools(atr), atr) : t.pool = s.pool /\ t.at <= s.at
        BY <1>1, <3>9, <4>2, <4>3, <4>5, TakesAreFound
      <4> QED
        BY <2>2, <4>6 DEF Again
    <3> QED
      BY <2>2, <3>2, <3>3, <3>7, <3>8, <3>9 DEF StaysBy
  <2> QED
    BY <2>7, <2>8
<1>7. CASE UNCHANGED poolsVars
  <2>1. lbars' = lbars /\ ldue' = ldue /\ sweeps' = sweeps /\ scale' = scale
    BY <1>7 DEF poolsVars
  <2>2. PoolsInv'
    <3> HIDE DEF Stays
    <3>1. PICK k : k = m
      OBVIOUS
    <3>5. PICK a : a = scale
      OBVIOUS
    <3>2. m' = k /\ scale' = a
      BY <2>1, <3>1, <3>5
    <3>3. \A s \in sweeps : IsSweep(s, k, a)
      BY <1>2, <3>1, <3>5
    <3>4. \A s \in sweeps' : IsSweep(s, k, a)'
      BY <2>1, <3>3, SweepsSame
    <3>7. \A s \in sweeps' : IsSweep(s, IF ldue THEN Len(lbars) - 1 ELSE Len(lbars), scale)'
      BY <3>2, <3>4
    <3>6. PoolBarsInv'
      BY <1>1, <2>1 DEF PoolBarsInv
    <3> QED
      BY <2>1, <3>6, <3>7 DEF PoolsInv
  <2> QED
    BY <1>7, <2>2
<1> HIDE DEF m
<1> QED
  BY <1>5, <1>6, <1>7 DEF Pools!LiquidityNext

\* The structure that an analysis finds turns in two steps, and one impulse makes
\* one break, whatever the bars and the thresholds are.
THEOREM StructureHolds == StudySpec => []StructureSound
<1>1. StudyInit => ChartInv
  BY ChartStart DEF StudyInit
<1>2. ChartInv /\ [StudyNext]_studyVars => ChartInv'
  BY ChartAssumption, StudyMoves, ChartMove
<1>3. ChartInv => StructureSound
  BY ChartsAreSound DEF StructureSound
<1> QED
  BY <1>1, <1>2, <1>3, PTL DEF StudySpec

\* A gap or a block that cannot be traded at one close cannot be traded at the next.
THEOREM ZonesDecay == StudySpec => ZonesOnlyDecay
<1>1. StudyInit => ChartInv
  BY ChartStart DEF StudyInit
<1>2. ChartInv /\ [StudyNext]_studyVars => ChartInv'
  BY ChartAssumption, StudyMoves, ChartMove
<1>3. ChartInv /\ [StudyNext]_studyVars =>
        [Chart!Decays(chart.gaps, chart'.gaps) /\ Chart!Decays(chart.blocks, chart'.blocks)]_(Chart!vars)
  BY ChartAssumption, StudyMoves, ChartMove
<1> QED
  BY <1>1, <1>2, <1>3, PTL DEF StudySpec, ZonesOnlyDecay, Chart!ZonesOnlyDecay

\* As long as the bar of a sweep is scanned, no analysis loses or moves it but by an ATR
\* that its depth, or that of an earlier take, does not fit; none finds it another
\* rejection or takes its move back; afterwards only a later take of the pool is reported.
THEOREM SweepsStay == StudySpec => SweepStays
<1>1. StudyInit => PoolsInv
  BY PoolsStart DEF StudyInit
<1>2. PoolsInv /\ [StudyNext]_studyVars => PoolsInv'
  BY ChartAssumption, PoolAssumption, StudyMoves, PoolsStep
<1>3. PoolsInv /\ [StudyNext]_studyVars =>
        [\A s \in sweeps :
           LET again == {t \in sweeps' : t.pool = s.pool} IN
           IF s.at > Len(lbars) - ScannedBars
           THEN /\ Pools!Fits(s.pen, scale') /\ s.pool \in Pools!Pools(scale') => \E t \in again : t.at <= s.at
                /\ \A t \in again :
                     /\ t.at > s.at => ~Pools!Fits(s.pen, scale')
                     /\ t.at = s.at => t.back = s.back /\ t.after >= s.after
                     /\ t.at < s.at => ~Pools!Fits(t.pen, scale)
           ELSE \A t \in again : t.at > s.at]_(Pools!vars)
  <2>1. PoolsInv /\ [StudyNext]_studyVars => [\A s \in sweeps : StaysBy(s)]_poolsVars
    BY ChartAssumption, PoolAssumption, StudyMoves, PoolsStep
  <2> QED
    BY <2>1, Zenon DEF StaysBy, Again, Pools!vars, poolsVars
<1> QED
  BY <1>1, <1>2, <1>3, PTL DEF StudySpec, SweepStays, Pools!SweepStays

\* No bar that labels a sample of the training labels one of the test; and if every
\* window could be run, every bar after the first sample was judged, and none twice
\* but at the boundary of two windows.
THEOREM LessonsAreSound == StudySpec => []LessonsSound
<1>1. StudyInit => LessonInv /\ WalkInv
  BY WalkAssumption, LessonStart, WalkStart DEF StudyInit
<1>2. LessonInv /\ WalkInv /\ [StudyNext]_studyVars => LessonInv' /\ WalkInv'
  BY ChartAssumption, LessonAssumption, WalkAssumption, StudyMoves, LessonStep, WalkStep
<1>3. LessonInv /\ WalkInv => LessonsSound
  BY LessonAssumption, WalkAssumption, NoLeak, BarsAreJudgedOnce DEF LessonsSound
<1> QED
  BY <1>1, <1>2, <1>3, PTL DEF StudySpec
=============================================================================
