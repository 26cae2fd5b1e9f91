------------------------------ MODULE RiskProofs ------------------------------
(***************************************************************************)
(* Theorems about Risk, for every set of periods, every limit, every cap   *)
(* and every account.                                                      *)
(***************************************************************************)
EXTENDS Risk, TLAPS

-----------------------------------------------------------------------------
(* Arithmetic of the limits.                                               *)

\* A day belongs to a period.
LEMMA PeriodFacts ==
  ASSUME NEW p \in Periods, NEW d \in Nat
  PROVE  PeriodOf(p, d) \in Nat
<1>1. DaysIn[p] \in Nat \ {0}
  BY PeriodAssumption
<1> QED BY <1>1 DEF PeriodOf

\* What has reached the limit of a peak has reached that of a higher one.
LEMMA BreachedBelowHigher ==
  ASSUME NEW p \in Periods, NEW top \in Nat, NEW higher \in Nat, NEW e \in Nat,
         top <= higher, Breached(p, top, e)
  PROVE  Breached(p, higher, e)
<1> DEFINE L == Limit[p]
<1>1. L \in Nat /\ Scale \in Nat /\ L <= Scale
  BY PeriodAssumption
<1>2. (top - e) * Scale >= L * top
  BY DEF Breached
<1> DEFINE d == higher - top
<1>3. d \in Nat /\ higher = top + d
  OBVIOUS
<1>4. L * d <= Scale * d
  <2> HIDE DEF L, d
  <2> QED BY <1>1, <1>3
<1>5. /\ (higher - e) * Scale = (top - e) * Scale + Scale * d
      /\ L * higher = L * top + L * d
  <2> HIDE DEF L, d
  <2> QED BY <1>1, <1>3
<1>6. (higher - e) * Scale >= L * higher
  <2>1. /\ (top - e) * Scale \in Int /\ Scale * d \in Int
        /\ L * top \in Int /\ L * d \in Int
    <3> HIDE DEF L, d
    <3> QED BY <1>1, <1>3
  <2> HIDE DEF L, d
  <2> QED BY <1>2, <1>4, <1>5, <2>1
<1> QED BY <1>6 DEF Breached

\* A share of the equity e that a period leaves of its limit under a peak is
\* covered by it in units of the peak as well.
LEMMA ShareIsCovered ==
  ASSUME NEW L \in Nat, NEW P \in Nat, NEW e \in Nat \ {0}, NEW m \in Nat \ {0},
         e <= P, m * (P * Scale) <= (L * P - (P - e) * Scale) * e
  PROVE  (P - (e - m)) * Scale <= L * P
<1> DEFINE R == L * P - (P - e) * Scale
<1> DEFINE W == m * Scale
<1>1. Scale \in Nat \ {0}
  BY PeriodAssumption
<1>2. R \in Int /\ W \in Nat
  BY <1>1
<1>3. W * P <= R * e
  <2>1. W * P = m * (P * Scale)
    BY <1>1
  <2> QED BY <2>1
<1>4. W >= 1
  BY <1>1
<1>5. R >= 1
  <2> HIDE DEF R, W
  <2>1. W * P >= 1
    BY <1>2, <1>4
  <2>2. ASSUME R <= 0 PROVE R * e <= 0
    BY <1>2, <2>2
  <2>3. R * e \in Int /\ W * P \in Int
    BY <1>2
  <2> QED BY <1>2, <1>3, <2>1, <2>2, <2>3
<1>6. W <= R
  <2> HIDE DEF R, W
  <2>1. R * e <= R * P
    BY <1>2, <1>5
  <2>2. W * P <= R * P
    BY <1>2, <1>3, <2>1
  <2>3. SUFFICES ASSUME R < W PROVE FALSE
    BY <1>2
  <2>4. R * P < W * P
    BY <1>2, <2>3
  <2> QED BY <1>2, <2>2, <2>4
<1>7. (P - (e - m)) * Scale = (P - e) * Scale + W
  BY <1>1
<1>8. (P - e) * Scale \in Int /\ L * P \in Int
  BY <1>1
<1> QED BY <1>2, <1>6, <1>7, <1>8

-----------------------------------------------------------------------------
(* Type correctness.                                                       *)

\* A cycle under way works with an equity the account has had.
Looked == \A th \in Deciders : turns[th] > 0 => acct[th] \in 1..MaxEquity

\* An update keeps the guard's types.
LEMMA UpdateTypes ==
  ASSUME RiskTypeOK, NEW d \in Nat, NEW e \in 1..MaxEquity, Update(d, e)
  PROVE  /\ start' \in [Periods -> Nat]
         /\ peak' \in [Periods -> 1..MaxEquity]
         /\ locked' \subseteq Periods /\ byHand' \subseteq locked'
<1>1. start' \in [Periods -> Nat]
  BY PeriodFacts DEF Update
<1>2. peak' \in [Periods -> 1..MaxEquity]
  BY PeriodAssumption DEF RiskTypeOK, Update, NewPeak, Larger
<1>3. locked' \subseteq Periods /\ byHand' \subseteq locked'
  BY Zenon DEF Update
<1> QED BY <1>1, <1>2, <1>3

\* The history counts.
LEMMA PastTypes ==
  ASSUME RiskTypeOK, NEW given \in BOOLEAN, Past(given)
  PROVE  past' \in [Periods -> Nat]
  BY DEF RiskTypeOK, Past

\* Every variable keeps its type, and a state needs a human only while locked.
LEMMA TypesHold == RiskSpec => [](RiskTypeOK /\ Looked)
<1>1. RiskInit => RiskTypeOK /\ Looked
  BY PeriodAssumption DEF RiskInit, RiskTypeOK, Looked, Deciders
<1>2. ASSUME RiskTypeOK, Looked, [RiskNext]_riskVars PROVE (RiskTypeOK /\ Looked)'
  <2> USE <1>2
  <2>1. ASSUME NEW th \in Deciders, Read(th) PROVE (RiskTypeOK /\ Looked)'
    <3>1. equity \in 1..MaxEquity /\ Turns(th) \in 0..2
      BY PeriodAssumption DEF RiskTypeOK, Turns
    <3>2. /\ turns' \in [Deciders -> 0..2] /\ asOf' \in [Deciders -> Nat]
          /\ acct' \in [Deciders -> 0..MaxEquity]
      BY <2>1, <3>1 DEF Read, RiskTypeOK
    <3>3. Looked'
      BY <2>1, <3>1 DEF Read, RiskTypeOK, Looked
    <3> QED BY <2>1, <3>2, <3>3 DEF Read, RiskTypeOK, guardVars
  <2>2. ASSUME NEW th \in Deciders, Grant(th) PROVE (RiskTypeOK /\ Looked)'
    <3>1. /\ start' \in [Periods -> Nat] /\ peak' \in [Periods -> 1..MaxEquity]
          /\ locked' \subseteq Periods /\ byHand' \subseteq locked'
      BY <2>2, UpdateTypes DEF Grant, RiskTypeOK, Looked
    <3>2. past' \in [Periods -> Nat]
      BY <2>2, PastTypes DEF Grant
    <3>3. granted' \in [Deciders -> 0..MaxEquity]
      BY <2>2 DEF Grant, RiskTypeOK
    <3> QED BY <2>2, <3>1, <3>2, <3>3 DEF Grant, RiskTypeOK, Looked
  <2>3. ASSUME NEW th \in Deciders, Refuse(th) PROVE (RiskTypeOK /\ Looked)'
    <3>1. /\ start' \in [Periods -> Nat] /\ peak' \in [Periods -> 1..MaxEquity]
          /\ locked' \subseteq Periods /\ byHand' \subseteq locked'
      BY <2>3, UpdateTypes DEF Refuse, RiskTypeOK, Looked
    <3>2. past' \in [Periods -> Nat]
      BY <2>3, PastTypes DEF Refuse
    <3> QED BY <2>3, <3>1, <3>2 DEF Refuse, cycleVars, RiskTypeOK, Looked
  <2>4. ASSUME NEW th \in Deciders, EndTurn(th) PROVE (RiskTypeOK /\ Looked)'
    <3> USE <2>4 DEF EndTurn
    <3>1. PICK left \in {turns[th] - 1, 0} :
            /\ turns' = [turns EXCEPT ![th] = left]
            /\ IF left = 0
               THEN asOf' = [asOf EXCEPT ![th] = 0] /\ acct' = [acct EXCEPT ![th] = 0]
               ELSE UNCHANGED <<asOf, acct>>
      OBVIOUS
    <3>2. turns[th] \in 1..2 /\ left \in 0..1
      BY DEF RiskTypeOK
    <3>3. turns' \in [Deciders -> 0..2]
      BY <3>1, <3>2 DEF RiskTypeOK
    <3>4. MaxEquity \in Nat
      BY PeriodAssumption
    <3>5. /\ asOf' \in [Deciders -> Nat] /\ acct' \in [Deciders -> 0..MaxEquity]
          /\ granted' \in [Deciders -> 0..MaxEquity]
      <4>1. CASE left = 0
        BY <3>1, <3>4, <4>1 DEF RiskTypeOK
      <4>2. CASE left # 0
        BY <3>1, <3>4, <4>2 DEF RiskTypeOK
      <4> QED BY <4>1, <4>2
    <3>6. Looked'
      <4>1. CASE left = 0
        BY <3>1, <4>1 DEF RiskTypeOK, Looked
      <4>2. CASE left # 0
        BY <3>1, <3>2, <4>2 DEF RiskTypeOK, Looked
      <4> QED BY <4>1, <4>2
    <3> QED BY <3>3, <3>5, <3>6 DEF RiskTypeOK, guardVars
  <2>5. CASE Tick \/ HumanLifts \/ \E r \in KillReasons : Trip(r) \/ ClearReason(r)
    <3>1. tripped' \subseteq KillReasons
      BY <2>5, Zenon DEF Tick, HumanLifts, Trip, ClearReason, RiskTypeOK, KillReasons
    <3>2. UNCHANGED <<day, equity, guardVars, cycleVars, past>>
      BY <2>5, Zenon DEF Tick, HumanLifts, Trip, ClearReason
    <3> QED BY <3>1, <3>2 DEF RiskTypeOK, Looked, guardVars, cycleVars
  <2>6. ASSUME NEW p \in Periods, HumanClears(p) PROVE (RiskTypeOK /\ Looked)'
    BY <2>6 DEF HumanClears, Unlock, cycleVars, RiskTypeOK, Looked
  <2>7. CASE Market \/ Midnight
    <3>1. past' \in [Periods -> Nat]
      BY <2>7, PastTypes DEF Market, Midnight
    <3>2. equity' \in MinEquity..MaxEquity /\ day' \in Nat
      <4>1. day \in Nat /\ equity \in MinEquity..MaxEquity
        BY DEF RiskTypeOK
      <4>2. CASE Market
        BY <4>1, <4>2 DEF Market
      <4>3. CASE Midnight
        BY <4>1, <4>3 DEF Midnight
      <4> QED BY <2>7, <4>2, <4>3
    <3> QED BY <2>7, <3>1, <3>2 DEF Market, Midnight, guardVars, cycleVars, RiskTypeOK, Looked
  <2>8. CASE GuardRestarts
    <3>1. start' \in [Periods -> Nat] /\ peak' \in [Periods -> 1..MaxEquity]
      BY <2>8, PeriodFacts, PeriodAssumption DEF GuardRestarts, RiskTypeOK
    <3>2. /\ turns' \in [Deciders -> 0..2] /\ asOf' \in [Deciders -> Nat]
          /\ acct' \in [Deciders -> 0..MaxEquity] /\ granted' \in [Deciders -> 0..MaxEquity]
          /\ past' \in [Periods -> Nat]
      BY <2>8, PeriodAssumption DEF GuardRestarts
    <3>3. Looked'
      BY <2>8 DEF GuardRestarts, Looked
    <3> QED BY <2>8, <3>1, <3>2, <3>3 DEF GuardRestarts, RiskTypeOK
  <2>9. CASE UNCHANGED riskVars
    BY <2>9 DEF riskVars, guardVars, cycleVars, RiskTypeOK, Looked
  <2> QED BY <2>1, <2>2, <2>3, <2>4, <2>5, <2>6, <2>7, <2>8, <2>9 DEF RiskNext
<1> QED BY <1>1, <1>2, PTL DEF RiskSpec

\* Every variable of the gate, the guard and the kill switch keeps its type.
THEOREM TypeCorrect == RiskSpec => []RiskTypeOK
  BY TypesHold, PTL

-----------------------------------------------------------------------------
(* Lockouts and halts.                                                     *)

\* A lockout that a human must clear is marked as one.
Marked == locked \cap Manual \subseteq byHand

\* An update keeps every mark, and lifts only what is not marked and rolls.
LEMMA UpdateKeepsManual ==
  ASSUME RiskTypeOK, Marked, NEW d \in Nat, NEW e \in Nat, Update(d, e)
  PROVE  /\ Marked'
         /\ \A p \in locked \ locked' : p \notin Manual /\ start'[p] # start[p]
<1>1. ASSUME NEW p \in locked, p \in Manual PROVE p \in locked' /\ p \in byHand'
  BY <1>1, Zenon DEF Update, StaysLocked, Carried, RiskTypeOK, Marked
<1>2. ASSUME NEW p \in locked', p \notin locked, p \in Manual PROVE p \in byHand'
  BY <1>2, Zenon DEF Update, StaysLocked, Carried, RiskTypeOK
<1>3. ASSUME NEW p \in locked, p \notin locked' PROVE start'[p] # start[p]
  <2>1. p \in Periods
    BY <1>3 DEF RiskTypeOK
  <2>2. Rolls(p, d)
    BY <1>3, <2>1, Zenon DEF Update, StaysLocked
  <2>3. start'[p] = PeriodOf(p, d)
    BY <2>1 DEF Update
  <2> QED BY <2>2, <2>3 DEF Rolls
<1> QED BY <1>1, <1>2, <1>3 DEF Marked

\* Every lockout that needs a human is marked so for as long as it lasts.
LEMMA MarksHold == RiskSpec => []Marked
<1>1. RiskInit => Marked
  BY DEF RiskInit, Marked
<1>2. ASSUME RiskTypeOK, Looked, Marked, [RiskNext]_riskVars PROVE Marked'
  <2> USE <1>2
  <2>1. ASSUME NEW th \in Deciders, Read(th) \/ EndTurn(th) PROVE Marked'
    BY <2>1 DEF Read, EndTurn, guardVars, Marked
  <2>2. ASSUME NEW th \in Deciders, Grant(th) \/ Refuse(th) PROVE Marked'
    <3>1. turns[th] > 0 /\ Update(asOf[th], acct[th])
      BY <2>2 DEF Grant, Refuse
    <3>2. asOf[th] \in Nat /\ acct[th] \in Nat
      BY PeriodAssumption DEF RiskTypeOK
    <3> QED BY <3>1, <3>2, UpdateKeepsManual
  <2>3. CASE Tick \/ HumanLifts \/ Market \/ Midnight \/ \E r \in KillReasons : Trip(r) \/ ClearReason(r)
    BY <2>3, Zenon DEF Tick, HumanLifts, Market, Midnight, Trip, ClearReason, guardVars, Marked
  <2>4. ASSUME NEW p \in Periods, HumanClears(p) PROVE Marked'
    BY <2>4, Zenon DEF HumanClears, Unlock, Marked
  <2>5. CASE GuardRestarts
    BY <2>5 DEF GuardRestarts, Marked
  <2>6. CASE UNCHANGED riskVars
    BY <2>6 DEF riskVars, guardVars, Marked
  <2> QED BY <2>1, <2>2, <2>3, <2>4, <2>5, <2>6 DEF RiskNext
<1> QED BY <1>1, <1>2, TypesHold, PTL DEF RiskSpec

\* While the process lives, no lockout that needs a human ends without one, no
\* other before its period rolls, and no halt that is not auto_clearable unless
\* a human forces it.
THEOREM LockoutsLast == RiskSpec => LocksLast
<1>1. ASSUME RiskTypeOK, Looked, Marked, [RiskNext]_riskVars PROVE [LiftedRightly \/ GuardRestarts]_riskVars
  <2> USE <1>1
  <2>1. ASSUME locked' = locked, tripped' = tripped PROVE LiftedRightly
    BY <2>1, Zenon DEF LiftedRightly
  <2>2. ASSUME NEW th \in Deciders, Read(th) \/ EndTurn(th) PROVE LiftedRightly
    BY <2>1, <2>2 DEF Read, EndTurn, guardVars
  <2>3. ASSUME NEW th \in Deciders, Grant(th) \/ Refuse(th) PROVE LiftedRightly
    <3>1. Update(asOf[th], acct[th]) /\ tripped' = tripped
      BY <2>3 DEF Grant, Refuse
    <3>2. asOf[th] \in Nat /\ acct[th] \in Nat
      BY PeriodAssumption DEF RiskTypeOK
    <3>3. \A p \in locked \ locked' : p \notin Manual /\ start'[p] # start[p]
      BY <3>1, <3>2, UpdateKeepsManual
    <3> QED BY <3>1, <3>3, Zenon DEF LiftedRightly
  <2>4. CASE HumanLifts
    BY <2>4, Zenon DEF HumanLifts, LiftedRightly, guardVars
  <2>5. CASE Tick
    BY <2>5 DEF Tick, LiftedRightly, guardVars
  <2>6. ASSUME NEW r \in KillReasons, Trip(r) \/ ClearReason(r) PROVE LiftedRightly
    BY <2>6, PeriodAssumption DEF Trip, ClearReason, LiftedRightly, guardVars
  <2>7. CASE Market \/ Midnight
    BY <2>1, <2>7 DEF Market, Midnight, guardVars
  <2>8. ASSUME NEW p \in Periods, HumanClears(p) PROVE LiftedRightly
    <3>1. tripped' = tripped /\ locked \ locked' \subseteq {p}
      BY <2>8 DEF HumanClears, Unlock
    <3> QED BY <2>8, <3>1, Zenon DEF LiftedRightly
  <2> QED BY <2>2, <2>3, <2>4, <2>5, <2>6, <2>7, <2>8, Zenon DEF RiskNext
<1> QED BY <1>1, TypesHold, MarksHold, PTL DEF RiskSpec, LocksLast

-----------------------------------------------------------------------------
(* Budgets.                                                                *)

\* What an update does to the state of one period.
LEMMA UpdateOfPeriod ==
  ASSUME RiskTypeOK, NEW d \in Nat, NEW e \in 1..MaxEquity, Update(d, e), NEW p \in Periods
  PROVE  /\ e <= peak'[p] /\ start'[p] = PeriodOf(p, d)
         /\ start[p] = PeriodOf(p, d) => peak[p] <= peak'[p]
         /\ start[p] = PeriodOf(p, d) /\ p \notin locked' => ~Breached(p, peak'[p], e)
<1>1. start'[p] = PeriodOf(p, d) /\ peak'[p] = NewPeak(p, d, e)
  BY DEF Update
<1>2. peak[p] \in Nat /\ e \in Nat
  BY PeriodAssumption DEF RiskTypeOK
<1>3. e <= NewPeak(p, d, e) /\ (~Rolls(p, d) => peak[p] <= NewPeak(p, d, e))
  BY <1>2 DEF NewPeak, Larger
<1>4. ASSUME ~Rolls(p, d), p \notin locked' PROVE ~Breached(p, NewPeak(p, d, e), e)
  BY <1>4, Zenon DEF Update, StaysLocked, Trips
<1> QED BY <1>1, <1>3, <1>4 DEF Rolls

\* The stop of an approved trade takes no period past its limit, as far as the
\* guard knows the peak and the gate the equity.
THEOREM ApprovalsAreCovered == RiskSpec => BudgetCoversStop
<1>1. ASSUME RiskTypeOK, Looked, [RiskNext]_riskVars PROVE [StopCovered]_riskVars
  <2> USE <1>1
  <2> SUFFICES ASSUME ~UNCHANGED riskVars, NEW th \in Deciders, NEW p \in Periods,
                      granted[th] = 0, granted'[th] > 0
               PROVE  (peak'[p] - (acct[th] - granted'[th])) * Scale <= Limit[p] * peak'[p]
    BY DEF StopCovered
  <2>1. ASSUME granted'[th] = granted[th] PROVE FALSE
    BY <2>1
  <2>2. ASSUME NEW other \in Deciders, Read(other) \/ Refuse(other) \/ EndTurn(other) PROVE FALSE
    <3>1. granted'[th] \in {0, granted[th]}
      BY <2>2 DEF Read, Refuse, EndTurn, cycleVars, RiskTypeOK
    <3> QED BY <3>1
  <2>3. ASSUME NEW other \in Deciders, Grant(other)
        PROVE  (peak'[p] - (acct[th] - granted'[th])) * Scale <= Limit[p] * peak'[p]
    <3>1. PICK m \in 1..MaxEquity : Affordable(m, acct[other]) /\ granted' = [granted EXCEPT ![other] = m]
      BY <2>3 DEF Grant
    <3>2. th = other /\ granted'[th] = m
      BY <2>1, <3>1 DEF RiskTypeOK
    <3>3. acct[th] \in 1..MaxEquity /\ Update(asOf[th], acct[th]) /\ asOf[th] \in Nat
      BY <2>3, <3>2 DEF Grant, Looked, RiskTypeOK
    <3>4. peak'[p] \in 1..MaxEquity /\ acct[th] <= peak'[p]
      BY <3>3, UpdateTypes, UpdateOfPeriod
    <3>5. m * (peak'[p] * Scale) <= (Limit[p] * peak'[p] - (peak'[p] - acct[th]) * Scale) * acct[th]
      BY <3>1, <3>2, Zenon DEF Affordable
    <3>6. /\ Limit[p] \in Nat /\ peak'[p] \in Nat
          /\ acct[th] \in Nat \ {0} /\ m \in Nat \ {0}
      BY <3>3, <3>4, PeriodAssumption
    <3>7. (peak'[p] - (acct[th] - m)) * Scale <= Limit[p] * peak'[p]
      BY <3>4, <3>5, <3>6, ShareIsCovered
    <3> QED BY <3>2, <3>7
  <2>4. CASE GuardRestarts
    BY <2>4 DEF GuardRestarts
  <2>5. CASE \/ Tick \/ HumanLifts \/ Market \/ Midnight
             \/ \E r \in KillReasons : Trip(r) \/ ClearReason(r)
             \/ \E q \in Periods : HumanClears(q)
    <3>1. granted' = granted
      BY <2>5, Zenon DEF Tick, HumanLifts, Market, Midnight, Trip, ClearReason, HumanClears, cycleVars
    <3> QED BY <2>1, <3>1
  <2> QED BY <2>2, <2>3, <2>4, <2>5, Zenon DEF RiskNext
<1> QED BY <1>1, TypesHold, PTL DEF RiskSpec, BudgetCoversStop

-----------------------------------------------------------------------------
(* Approvals past a limit.  A cycle can approve past the limit of a period  *)
(* only while what it has read is clean: of another period, or above the    *)
(* limit.  The turns of the clean cycles are what is left to be granted.    *)

Spell(p) == start[p] = PeriodOf(p, day) /\ Breached(p, peak[p], equity)

Clean(th, p) == PeriodOf(p, asOf[th]) # start[p] \/ ~Breached(p, peak[p], acct[th])

\* The turns of a cycle in which nothing has been granted yet.
Ungranted(th) == turns[th] - (IF granted[th] > 0 THEN 1 ELSE 0)

Left(th, p) == IF Clean(th, p) THEN Ungranted(th) ELSE 0

TurnsInv ==
    \A th \in Deciders : turns[th] <= Turns(th) /\ (granted[th] > 0 => turns[th] > 0)

PastInv ==
    \A p \in Periods :
       /\ ~Spell(p) => past[p] = 0
       /\ past[p] + Left("m5", p) + Left("loop", p) <= 3

\* A cycle has at most its engines' turns, and grants in one of them.
LEMMA TurnsHold == RiskSpec => []TurnsInv
<1>1. RiskInit => TurnsInv
  BY DEF RiskInit, TurnsInv, Turns, Deciders
<1>2. ASSUME RiskTypeOK, TurnsInv, [RiskNext]_riskVars PROVE TurnsInv'
  <2> USE <1>2
  <2>1. ASSUME NEW th \in Deciders, Read(th) PROVE TurnsInv'
    BY <2>1 DEF Read, TurnsInv, Turns, RiskTypeOK
  <2>2. ASSUME NEW th \in Deciders, Grant(th) PROVE TurnsInv'
    BY <2>2 DEF Grant, TurnsInv, Turns, RiskTypeOK
  <2>3. ASSUME NEW th \in Deciders, EndTurn(th) PROVE TurnsInv'
    <3>1. PICK left \in {turns[th] - 1, 0} : turns' = [turns EXCEPT ![th] = left]
      BY <2>3 DEF EndTurn
    <3>2. granted' = [granted EXCEPT ![th] = 0] /\ turns[th] > 0
      BY <2>3 DEF EndTurn
    <3> QED BY <3>1, <3>2 DEF TurnsInv, Turns, RiskTypeOK
  <2>4. ASSUME UNCHANGED <<turns, granted>> PROVE TurnsInv'
    BY <2>4 DEF TurnsInv
  <2>5. ASSUME NEW th \in Deciders, Refuse(th) PROVE TurnsInv'
    BY <2>4, <2>5 DEF Refuse, cycleVars
  <2>6. CASE \/ Tick \/ HumanLifts \/ Market \/ Midnight
             \/ \E r \in KillReasons : Trip(r) \/ ClearReason(r)
             \/ \E q \in Periods : HumanClears(q)
    <3>1. UNCHANGED <<turns, granted>>
      BY <2>6, Zenon DEF Tick, HumanLifts, Market, Midnight, Trip, ClearReason, HumanClears, cycleVars
    <3> QED BY <2>4, <3>1
  <2>7. CASE GuardRestarts
    BY <2>7 DEF GuardRestarts, TurnsInv, Turns, Deciders
  <2>8. CASE UNCHANGED riskVars
    BY <2>4, <2>8 DEF riskVars, cycleVars
  <2> QED BY <2>1, <2>2, <2>3, <2>5, <2>6, <2>7, <2>8, Zenon DEF RiskNext
<1> QED BY <1>1, <1>2, TypesHold, PTL DEF RiskSpec

\* What is left to a cycle is at most its turns.
LeftInv ==
    /\ \A th \in Deciders : Ungranted(th) \in 0..Turns(th)
    /\ \A p \in Periods : Left("m5", p) \in 0..2 /\ Left("loop", p) \in 0..1

\* Of the turns that are still ungranted no thread has more than it may take.
LEMMA LeftBounded == RiskSpec => []LeftInv
<1>1. ASSUME RiskTypeOK, TurnsInv PROVE LeftInv
  <2> USE <1>1
  <2>1. "m5" \in Deciders /\ "loop" \in Deciders
    BY DEF Deciders
  <2>2. ASSUME NEW th \in Deciders
        PROVE  Ungranted(th) \in 0..Turns(th)
    BY DEF Ungranted, TurnsInv, RiskTypeOK, Turns
  <2>3. ASSUME NEW th \in Deciders, NEW p \in Periods PROVE Left(th, p) \in {0, Ungranted(th)}
    BY DEF Left
  <2>4. Turns("m5") = 2 /\ Turns("loop") = 1
    BY DEF Turns
  <2> QED BY <2>1, <2>2, <2>3, <2>4 DEF LeftInv
<1> QED BY <1>1, TypesHold, TurnsHold, PTL

\* An update of the guard that does not roll a period cleans no cycle.
LEMMA UpdateCleansNone ==
  ASSUME RiskTypeOK, NEW d \in Nat, NEW e \in 1..MaxEquity, Update(d, e),
         UNCHANGED <<asOf, acct>>,
         NEW p \in Periods, start[p] = PeriodOf(p, d),
         NEW th \in Deciders, Clean(th, p)'
  PROVE  Clean(th, p)
<1>1. start'[p] = start[p] /\ peak[p] <= peak'[p]
  BY UpdateOfPeriod
<1>2. peak[p] \in Nat /\ peak'[p] \in Nat /\ acct[th] \in Nat
  BY UpdateTypes, PeriodAssumption DEF RiskTypeOK
<1>3. Breached(p, peak[p], acct[th]) => Breached(p, peak'[p], acct[th])
  BY <1>1, <1>2, BreachedBelowHigher
<1> QED BY <1>1, <1>3 DEF Clean

\* An update that rolls a period opens a new spell or closes the old one.
LEMMA RollEndsSpell ==
  ASSUME RiskTypeOK, PastInv, NEW d \in Nat, NEW e \in 1..MaxEquity, Update(d, e), day' = day,
         NEW p \in Periods, start[p] # PeriodOf(p, d), Spell(p)'
  PROVE  past[p] = 0
<1>1. start'[p] = PeriodOf(p, d) /\ start'[p] = PeriodOf(p, day)
  BY UpdateOfPeriod DEF Spell
<1>2. ~Spell(p)
  BY <1>1 DEF Spell
<1> QED BY <1>2 DEF PastInv

\* After the limit of a period has been reached, no more approvals come than
\* there are engines, before the equity recovers or the period ends.
THEOREM FewApprovalsPastLimit == RiskSpec => []PastLimitBounded
<1>1. RiskInit => PastInv
  <2> SUFFICES ASSUME RiskInit, NEW p \in Periods
               PROVE /\ ~Spell(p) => past[p] = 0
                     /\ past[p] + Left("m5", p) + Left("loop", p) <= 3
    BY DEF PastInv
  <2>1. past[p] = 0
    BY DEF RiskInit
  <2>2. Ungranted("m5") = 0 /\ Ungranted("loop") = 0
    BY DEF RiskInit, Ungranted, Deciders
  <2> QED BY <2>1, <2>2 DEF Left
<1>2. ASSUME RiskTypeOK, RiskTypeOK', Looked, TurnsInv, LeftInv, LeftInv', PastInv, [RiskNext]_riskVars
      PROVE  PastInv'
  <2> USE <1>2
  <2> DEFINE Kept(p) == /\ ~Spell(p)' => past'[p] = 0
                        /\ past'[p] + Left("m5", p)' + Left("loop", p)' <= 3
  <2> SUFFICES ASSUME NEW p \in Periods PROVE Kept(p)
    BY DEF PastInv
  <2>0. /\ past[p] \in Nat /\ past'[p] \in Nat
        /\ Left("m5", p) \in 0..2 /\ Left("loop", p) \in 0..1
        /\ Left("m5", p)' \in 0..2 /\ Left("loop", p)' \in 0..1
    BY DEF RiskTypeOK, LeftInv
  <2>1. (~Spell(p) => past[p] = 0) /\ past[p] + Left("m5", p) + Left("loop", p) <= 3
    BY DEF PastInv
  \* A step in which no cycle gains a turn to grant.
  <2>2. ASSUME \A th \in Deciders : Left(th, p)' <= Left(th, p),
               past'[p] \in {0, past[p]}, ~Spell(p)' => past'[p] = 0
        PROVE  Kept(p)
    <3>1. Left("m5", p)' <= Left("m5", p) /\ Left("loop", p)' <= Left("loop", p)
      BY <2>2 DEF Deciders
    <3> HIDE DEF Kept
    <3>2. past'[p] <= past[p]
      BY <2>0, <2>2
    <3>3. past'[p] + Left("m5", p)' + Left("loop", p)' <= 3
      BY <2>0, <2>1, <3>1, <3>2
    <3> QED BY <2>2, <3>3 DEF Kept
  \* A step that leaves the guard and the cycles as they are.
  <2>3. ASSUME UNCHANGED <<start, peak, cycleVars>> PROVE \A th \in Deciders : Left(th, p)' = Left(th, p)
    BY <2>3 DEF Left, Clean, Ungranted, cycleVars
  <2>4. ASSUME UNCHANGED <<start, peak, day, equity>> PROVE Spell(p)' = Spell(p)
    BY <2>4 DEF Spell
  <2>5. CASE \/ Tick \/ HumanLifts \/ UNCHANGED riskVars
             \/ \E r \in KillReasons : Trip(r) \/ ClearReason(r)
             \/ \E q \in Periods : HumanClears(q)
    <3>1. UNCHANGED <<start, peak, day, equity, cycleVars, past>>
      BY <2>5, Zenon DEF Tick, HumanLifts, Trip, ClearReason, HumanClears, guardVars, riskVars
    <3>2. Spell(p)' = Spell(p) /\ past'[p] = past[p]
      BY <2>4, <3>1
    <3>3. \A th \in Deciders : Left(th, p)' = Left(th, p)
      BY <2>3, <3>1
    <3> HIDE DEF Kept
    <3> QED BY <2>0, <2>1, <3>2, <3>3 DEF Kept, Deciders
  <2>6. CASE Market \/ Midnight
    <3>1. UNCHANGED <<start, peak, cycleVars>> /\ Past(FALSE)
      BY <2>6 DEF Market, Midnight, guardVars
    <3>2. past'[p] \in {0, past[p]} /\ (~Spell(p)' => past'[p] = 0)
      BY <2>0, <3>1 DEF Past, Spell
    <3>3. \A th \in Deciders : Left(th, p)' = Left(th, p)
      BY <2>3, <3>1
    <3> HIDE DEF Kept
    <3> QED BY <2>0, <2>1, <3>2, <3>3 DEF Kept, Deciders
  \* What a cycle reads during a spell is not clean; before one, nothing is past.
  <2>7. ASSUME NEW th \in Deciders, Read(th) PROVE Kept(p)
    <3>1. UNCHANGED <<start, peak, day, equity, past>>
      BY <2>7 DEF Read, guardVars
    <3>2. Spell(p)' = Spell(p) /\ past'[p] = past[p]
      BY <2>4, <3>1
    <3>3. asOf'[th] = day /\ acct'[th] = equity
      BY <2>7 DEF Read, RiskTypeOK
    <3>4. ASSUME Spell(p) PROVE ~Clean(th, p)'
      BY <3>1, <3>3, <3>4 DEF Spell, Clean
    <3>5. ASSUME NEW other \in Deciders, other # th PROVE Left(other, p)' = Left(other, p)
      <4>1. /\ turns'[other] = turns[other] /\ asOf'[other] = asOf[other]
            /\ acct'[other] = acct[other] /\ granted'[other] = granted[other]
        BY <2>7, <3>5 DEF Read, RiskTypeOK
      <4> QED BY <3>1, <4>1 DEF Left, Clean, Ungranted
    <3>6. CASE Spell(p)
      <4>1. Left(th, p)' = 0
        BY <3>4, <3>6 DEF Left
      <4>2. \A other \in Deciders : Left(other, p)' <= Left(other, p)
        BY <2>0, <3>5, <4>1 DEF Deciders
      <4> QED BY <2>2, <3>2, <3>6, <4>2
    <3>7. CASE ~Spell(p)
      <4> HIDE DEF Kept
      <4> QED BY <2>0, <2>1, <3>2, <3>7 DEF Kept
    <3> QED BY <3>6, <3>7
  <2>8. ASSUME NEW th \in Deciders, EndTurn(th) PROVE Kept(p)
    <3>1. UNCHANGED <<start, peak, day, equity, past>>
      BY <2>8 DEF EndTurn, guardVars
    <3>2. Spell(p)' = Spell(p) /\ past'[p] = past[p]
      BY <2>4, <3>1
    <3>3. PICK left \in {turns[th] - 1, 0} :
            /\ turns' = [turns EXCEPT ![th] = left]
            /\ IF left = 0
               THEN asOf' = [asOf EXCEPT ![th] = 0] /\ acct' = [acct EXCEPT ![th] = 0]
               ELSE UNCHANGED <<asOf, acct>>
      BY <2>8 DEF EndTurn
    <3>4. turns[th] \in 1..2 /\ granted' = [granted EXCEPT ![th] = 0]
      BY <2>8 DEF EndTurn, RiskTypeOK
    <3>5. Left(th, p)' <= Left(th, p)
      <4>1. Ungranted(th)' = left
        BY <3>3, <3>4 DEF Ungranted, RiskTypeOK
      <4>2. CASE left = 0
        <5>1. Left(th, p)' = 0
          BY <4>1, <4>2 DEF Left
        <5> QED BY <2>0, <5>1 DEF Deciders
      <4>3. CASE left # 0
        <5>1. left = turns[th] - 1 /\ UNCHANGED <<asOf, acct>>
          BY <3>3, <4>3
        <5>2. left <= Ungranted(th) /\ Clean(th, p)' = Clean(th, p)
          BY <3>1, <3>4, <5>1 DEF Ungranted, Clean, RiskTypeOK
        <5> QED BY <3>4, <4>1, <5>1, <5>2 DEF Left
      <4> QED BY <4>2, <4>3
    <3>6. ASSUME NEW other \in Deciders, other # th PROVE Left(other, p)' = Left(other, p)
      <4>1. /\ turns'[other] = turns[other] /\ granted'[other] = granted[other]
            /\ asOf'[other] = asOf[other] /\ acct'[other] = acct[other]
        BY <3>3, <3>4, <3>6 DEF RiskTypeOK
      <4> QED BY <3>1, <4>1 DEF Left, Clean, Ungranted
    <3>7. \A other \in Deciders : Left(other, p)' <= Left(other, p)
      BY <2>0, <3>5, <3>6 DEF Deciders
    <3> QED BY <2>0, <2>1, <2>2, <3>2, <3>7
  <2>9. ASSUME NEW th \in Deciders, Refuse(th) PROVE Kept(p)
    <3>1. /\ asOf[th] \in Nat /\ acct[th] \in 1..MaxEquity /\ Update(asOf[th], acct[th])
          /\ Past(FALSE) /\ UNCHANGED <<day, equity, turns, asOf, acct, granted>>
      BY <2>9 DEF Refuse, cycleVars, Looked, RiskTypeOK
    <3>2. past'[p] \in {0, past[p]} /\ (~Spell(p)' => past'[p] = 0)
      BY <2>0, <3>1 DEF Past, Spell
    <3>3. CASE start[p] = PeriodOf(p, asOf[th])
      <4>1. ASSUME NEW other \in Deciders PROVE Left(other, p)' <= Left(other, p)
        <5>1. Clean(other, p)' => Clean(other, p)
          BY <3>1, <3>3, UpdateCleansNone
        <5>2. Ungranted(other)' = Ungranted(other) /\ Ungranted(other) \in Nat
          BY <3>1 DEF Ungranted, LeftInv, Turns
        <5> QED BY <5>1, <5>2 DEF Left
      <4> QED BY <2>2, <3>2, <4>1
    <3>4. CASE start[p] # PeriodOf(p, asOf[th])
      <4>1. past'[p] = 0
        BY <3>1, <3>2, <3>4, RollEndsSpell
      <4> HIDE DEF Kept
      <4> QED BY <2>0, <4>1 DEF Kept
    <3> QED BY <3>3, <3>4
  \* What grants without a roll was clean, and spends one of its turns.
  <2>10. ASSUME NEW th \in Deciders, Grant(th) PROVE Kept(p)
    <3>1. /\ asOf[th] \in Nat /\ acct[th] \in 1..MaxEquity /\ Update(asOf[th], acct[th])
          /\ Past(TRUE) /\ UNCHANGED <<day, equity, turns, asOf, acct>> /\ locked' = {}
      BY <2>10 DEF Grant, Looked, RiskTypeOK
    <3>2. PICK m \in 1..MaxEquity : granted' = [granted EXCEPT ![th] = m]
      BY <2>10 DEF Grant
    <3>3. turns[th] \in 1..2 /\ granted[th] = 0
      BY <2>10 DEF Grant, RiskTypeOK
    <3>4. past'[p] \in {0, past[p] + 1} /\ (~Spell(p)' => past'[p] = 0)
      BY <2>0, <3>1 DEF Past, Spell
    <3>5. Ungranted(th) = turns[th] /\ Ungranted(th)' = turns[th] - 1
      BY <3>1, <3>2, <3>3 DEF Ungranted, RiskTypeOK
    <3>6. ASSUME NEW other \in Deciders, other # th PROVE Ungranted(other)' = Ungranted(other)
      BY <3>1, <3>2, <3>6 DEF Ungranted, RiskTypeOK
    <3>7. Left(th, p)' <= turns[th] - 1
      BY <3>3, <3>5 DEF Left
    <3>8. CASE start[p] = PeriodOf(p, asOf[th])
      <4>1. Clean(th, p)
        <5>1. ~Breached(p, peak'[p], acct[th]) /\ start'[p] = start[p]
          BY <3>1, <3>8, UpdateOfPeriod
        <5>2. Clean(th, p)'
          BY <3>1, <5>1 DEF Clean
        <5> QED BY <3>1, <3>8, <5>2, UpdateCleansNone
      <4>2. Left(th, p) = turns[th]
        BY <3>5, <4>1 DEF Left
      <4>3. ASSUME NEW other \in Deciders, other # th PROVE Left(other, p)' <= Left(other, p)
        <5>1. Clean(other, p)' => Clean(other, p)
          BY <3>1, <3>8, UpdateCleansNone
        <5>2. Ungranted(other)' = Ungranted(other) /\ Ungranted(other) \in Nat
          BY <3>6, <4>3 DEF LeftInv, Turns
        <5> QED BY <5>1, <5>2 DEF Left
      <4>4. Left("m5", p)' + Left("loop", p)' + 1 <= Left("m5", p) + Left("loop", p)
        <5>1. CASE th = "m5"
          <6>1. Left("loop", p)' <= Left("loop", p) /\ Left("m5", p)' + 1 <= Left("m5", p)
            BY <2>0, <3>3, <3>7, <4>2, <4>3, <5>1 DEF Deciders
          <6> QED BY <2>0, <6>1
        <5>2. CASE th = "loop"
          <6>1. Left("m5", p)' <= Left("m5", p) /\ Left("loop", p)' + 1 <= Left("loop", p)
            BY <2>0, <3>3, <3>7, <4>2, <4>3, <5>2 DEF Deciders
          <6> QED BY <2>0, <6>1
        <5> QED BY <5>1, <5>2 DEF Deciders
      <4> HIDE DEF Kept
      <4>5. past'[p] <= past[p] + 1
        BY <2>0, <3>4
      <4>6. past'[p] + Left("m5", p)' + Left("loop", p)' <= 3
        BY <2>0, <2>1, <4>4, <4>5
      <4> QED BY <3>4, <4>6 DEF Kept
    <3>9. CASE start[p] # PeriodOf(p, asOf[th])
      <4>1. past'[p] <= 1
        BY <3>1, <3>4, <3>9, RollEndsSpell
      <4>2. Left("m5", p)' + Left("loop", p)' <= 2
        <5>1. CASE th = "m5"
          BY <2>0, <3>3, <3>7, <5>1
        <5>2. CASE th = "loop"
          <6>1. turns[th] <= 1
            BY <5>2 DEF TurnsInv, Turns
          <6> QED BY <2>0, <3>3, <3>7, <5>2, <6>1
        <5> QED BY <5>1, <5>2 DEF Deciders
      <4> HIDE DEF Kept
      <4> QED BY <2>0, <3>4, <4>1, <4>2 DEF Kept
    <3> QED BY <3>8, <3>9
  <2>11. CASE GuardRestarts
    <3>1. past'[p] = 0
      BY <2>11 DEF GuardRestarts
    <3> HIDE DEF Kept
    <3> QED BY <2>0, <3>1 DEF Kept
  <2> HIDE DEF Kept
  <2> QED BY <2>5, <2>6, <2>7, <2>8, <2>9, <2>10, <2>11, Zenon DEF RiskNext
<1>3. PastInv /\ RiskTypeOK /\ LeftInv => PastLimitBounded
  <2> SUFFICES ASSUME PastInv, RiskTypeOK, LeftInv, NEW p \in Periods
               PROVE  past[p] <= Turns("m5") + Turns("loop")
    BY DEF PastLimitBounded
  <2>1. past[p] \in Nat /\ Left("m5", p) \in 0..2 /\ Left("loop", p) \in 0..1
    BY DEF LeftInv, RiskTypeOK
  <2>2. past[p] + Left("m5", p) + Left("loop", p) <= 3
    BY DEF PastInv
  <2>3. Turns("m5") = 2 /\ Turns("loop") = 1
    BY DEF Turns
  <2> QED BY <2>1, <2>2, <2>3
<1> QED BY <1>1, <1>2, <1>3, TypesHold, TurnsHold, LeftBounded, PTL DEF RiskSpec

=============================================================================
