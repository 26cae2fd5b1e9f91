------------------------ MODULE PositionManagerProofs ------------------------
(***************************************************************************)
(* Theorems about PositionManager, for every set of tickets, every price   *)
(* scale and every position size.                                          *)
(***************************************************************************)
EXTENDS PositionManager, TLAPS

\* Half of a natural number is a natural number not above it.
LEMMA HalfFacts ==
  ASSUME NEW n \in Nat
  PROVE  n \div 2 \in Nat /\ n \div 2 <= n
  OBVIOUS

-----------------------------------------------------------------------------
\* Every variable keeps its type through every rule of manage().
LEMMA TypeStep ==
  ASSUME PositionTypeOK, [PositionNext]_positionVars PROVE PositionTypeOK'
<1> USE LevelAssumption
    DEF PositionTypeOK, Rules, Levels, managerVars, passVars, heldVars, GoTo, EndPass
<1>1. ASSUME NEW t \in Tickets, Adopt(t) PROVE PositionTypeOK'
  BY <1>1 DEF Adopt
<1>2. ASSUME NEW t \in Tickets, StartPass(t) PROVE PositionTypeOK'
  BY <1>2 DEF StartPass
<1>3. ASSUME NEW t \in Tickets, Pass(t) PROVE PositionTypeOK'
  <2>1. CASE BreakEvenRule(t)
    BY <2>1 DEF BreakEvenRule, ModifyStop
  <2>2. CASE NoBreakEven(t) BY <2>2 DEF NoBreakEven
  <2>3. CASE PartialRule(t)
    <3>1. Half(t) \in Nat /\ Half(t) <= remaining[t]
      BY HalfFacts DEF Half
    <3>2. volume' \in [Tickets -> Nat] /\ reductions' \in [Tickets -> Nat]
      BY <2>3, <3>1 DEF PartialRule
    <3>3. remaining' \in [Tickets -> Nat]
      BY <2>3, <3>1 DEF PartialRule
    <3>4. partial' \in [Tickets -> BOOLEAN]
      BY <2>3 DEF PartialRule, PartialDone
    <3>5. QED
      BY <2>3, <3>2, <3>3, <3>4 DEF PartialRule
  <2>4. CASE NoPartial(t) BY <2>4 DEF NoPartial
  <2>5. CASE TrailRule(t)
    BY <2>5 DEF TrailRule, ModifyStop
  <2>6. CASE NoTrail(t) BY <2>6 DEF NoTrail
  <2>7. CASE ExitRule(t) BY <2>7 DEF ExitRule, Forget
  <2>8. CASE NoExit(t) BY <2>8 DEF NoExit
  <2>9. QED
    BY <1>3, <2>1, <2>2, <2>3, <2>4, <2>5, <2>6, <2>7, <2>8 DEF Pass
<1>4. ASSUME NEW t \in Tickets, TicketCloses(t) PROVE PositionTypeOK'
  BY <1>4 DEF TicketCloses
<1>5. CASE UNCHANGED positionVars BY <1>5 DEF positionVars
<1>6. QED
  BY <1>1, <1>2, <1>3, <1>4, <1>5 DEF PositionNext

\* Every variable has its type.
THEOREM TypeCorrect == PositionSpec => []PositionTypeOK
<1>1. PositionInit => PositionTypeOK
  BY LevelAssumption DEF PositionInit, PositionTypeOK, Rules, Levels
<1>2. PositionTypeOK /\ [PositionNext]_positionVars => PositionTypeOK'
  BY TypeStep
<1>3. QED
  BY <1>1, <1>2, PTL DEF PositionSpec

-----------------------------------------------------------------------------
(* What the manager believes of the stop at the server.                    *)

\* Every open position is in the book; the stop in the book is never below
\* the server's, and is the server's where every entry has its stop; a
\* position that is never trailed has no stop above break-even.
Truthful ==
    /\ \A t \in Tickets :
          /\ volume[t] > 0 => t \in managed
          /\ t \notin opened => volume[t] = 0
    /\ \A t \in Tickets \ Unconfirmed : volume[t] > 0 => belief[t] >= sl[t]
    /\ \A t \in Tickets \ (Unconfirmed \cup Naked) : volume[t] > 0 => belief[t] = sl[t]
    /\ \A t \in Tickets \ Trailed : sl[t] <= BreakEven

\* A move of the stop of t to a level above the one believed in.
LEMMA ModifyFacts ==
  ASSUME PositionTypeOK, NEW t \in Tickets, NEW new \in Levels, ModifyStop(t, new)
  PROVE  /\ new >= belief[t]
         /\ \A u \in Tickets \ {t} : sl'[u] = sl[u] /\ belief'[u] = belief[u]
         /\ sl'[t] \in {sl[t], new}
         /\ t \notin Unconfirmed /\ volume[t] > 0 =>
              \/ sl'[t] = new /\ belief'[t] = new
              \/ sl'[t] = sl[t] /\ belief'[t] = belief[t]
BY DEF PositionTypeOK, ModifyStop, Verdicts

\* Such a move keeps the belief true.
LEMMA ModifyTruthful ==
  ASSUME PositionTypeOK, Truthful, NEW t \in Tickets, NEW new \in Levels,
         ModifyStop(t, new), UNCHANGED <<managed, volume, opened>>,
         t \in Trailed \/ new <= BreakEven
  PROVE  Truthful'
<1>1. /\ new >= belief[t]
      /\ \A u \in Tickets \ {t} : sl'[u] = sl[u] /\ belief'[u] = belief[u]
      /\ sl'[t] \in {sl[t], new}
      /\ t \notin Unconfirmed /\ volume[t] > 0 =>
           \/ sl'[t] = new /\ belief'[t] = new
           \/ sl'[t] = sl[t] /\ belief'[t] = belief[t]
  BY ModifyFacts
<1>2. \A u \in Tickets \ Unconfirmed : volume'[u] > 0 => belief'[u] >= sl'[u]
  <2> SUFFICES ASSUME NEW u \in Tickets \ Unconfirmed, volume'[u] > 0
               PROVE  belief'[u] >= sl'[u]
    OBVIOUS
  <2>1. belief[u] >= sl[u]
    BY DEF Truthful
  <2>2. CASE u = t BY <1>1, <2>1, <2>2 DEF Levels, PositionTypeOK
  <2>3. CASE u # t BY <1>1, <2>1, <2>3
  <2>4. QED
    BY <2>2, <2>3
<1>3. \A u \in Tickets \ (Unconfirmed \cup Naked) : volume'[u] > 0 => belief'[u] = sl'[u]
  <2> SUFFICES ASSUME NEW u \in Tickets \ (Unconfirmed \cup Naked), volume'[u] > 0
               PROVE  belief'[u] = sl'[u]
    OBVIOUS
  <2>1. belief[u] = sl[u]
    BY DEF Truthful
  <2>2. QED
    BY <1>1, <2>1
<1>4. \A u \in Tickets \ Trailed : sl'[u] <= BreakEven
  <2> SUFFICES ASSUME NEW u \in Tickets \ Trailed PROVE sl'[u] <= BreakEven
    OBVIOUS
  <2>1. sl[u] <= BreakEven
    BY DEF Truthful
  <2>2. QED
    BY <1>1, <2>1
<1>5. QED
  BY <1>2, <1>3, <1>4 DEF Truthful

\* The belief stays true through every step.
LEMMA TruthfulStep ==
  ASSUME PositionTypeOK, Truthful, [PositionNext]_positionVars
  PROVE  Truthful'
<1> USE DEF managerVars, passVars, heldVars, GoTo, EndPass
<1>1. ASSUME NEW t \in Tickets, Adopt(t) PROVE Truthful'
  BY <1>1, LevelAssumption DEF Adopt, PositionTypeOK, Truthful, Levels
<1>2. ASSUME NEW t \in Tickets, StartPass(t) PROVE Truthful'
  BY <1>2 DEF StartPass, Truthful
<1>3. ASSUME NEW t \in Tickets, Pass(t) PROVE Truthful'
  <2>1. CASE BreakEvenRule(t)
    BY <2>1, ModifyTruthful, LevelAssumption DEF BreakEvenRule, Levels
  <2>2. CASE NoBreakEven(t) BY <2>2 DEF NoBreakEven, Truthful
  <2>3. CASE PartialRule(t)
    <3>1. Half(t) \in Nat
      BY HalfFacts DEF Half, PositionTypeOK
    <3>2. UNCHANGED <<managed, belief, sl, cur, opened>>
      BY <2>3 DEF PartialRule
    <3>3. \A u \in Tickets : volume'[u] > 0 => volume[u] > 0
      BY <2>3, <3>1 DEF PartialRule, Verdicts, PositionTypeOK
    <3>4. \A u \in Tickets : volume[u] = 0 => volume'[u] = 0
      BY <2>3, <3>1 DEF PartialRule, Verdicts, PositionTypeOK
    <3>5. QED
      BY <3>2, <3>3, <3>4 DEF Truthful, PositionTypeOK
  <2>4. CASE NoPartial(t) BY <2>4 DEF NoPartial, Truthful
  <2>5. CASE TrailRule(t)
    BY <2>5, ModifyTruthful DEF TrailRule
  <2>6. CASE NoTrail(t) BY <2>6 DEF NoTrail, Truthful
  <2>7. CASE ExitRule(t)
    BY <2>7 DEF ExitRule, Forget, Verdicts, PositionTypeOK, Truthful
  <2>8. CASE NoExit(t) BY <2>8 DEF NoExit, Truthful
  <2>9. QED
    BY <1>3, <2>1, <2>2, <2>3, <2>4, <2>5, <2>6, <2>7, <2>8 DEF Pass
<1>4. ASSUME NEW t \in Tickets, TicketCloses(t) PROVE Truthful'
  BY <1>4 DEF TicketCloses, PositionTypeOK, Truthful
<1>5. CASE UNCHANGED positionVars BY <1>5 DEF positionVars, Truthful
<1>6. QED
  BY <1>1, <1>2, <1>3, <1>4, <1>5 DEF PositionNext

\* The manager's belief is the truth in every reachable state.
LEMMA TruthfulHolds == PositionSpec => []Truthful
<1>1. PositionInit => Truthful
  BY LevelAssumption DEF PositionInit, Truthful, Levels
<1>2. PositionTypeOK /\ Truthful /\ [PositionNext]_positionVars => Truthful'
  BY TruthfulStep
<1>3. QED
  BY <1>1, <1>2, TypeCorrect, PTL DEF PositionSpec

\* The stop the manager reasons with is the one at the server, for every
\* ticket that was opened with its stop and whose calls are confirmed.
THEOREM BeliefTrue == PositionSpec => []BeliefIsServers
<1>1. PositionTypeOK /\ Truthful => BeliefIsServers
  BY DEF PositionTypeOK, Truthful, BeliefIsServers
<1>2. QED
  BY <1>1, TruthfulHolds, TypeCorrect, PTL

-----------------------------------------------------------------------------
(* Stops are never widened.                                                *)

\* A step moves a stop only through modify_stop, from a true belief upwards.
LEMMA StopKeptStep ==
  ASSUME PositionTypeOK, Truthful, [PositionNext]_positionVars
  PROVE  StopKept
<1> SUFFICES ASSUME NEW u \in Tickets \ (Trailed \cap Unconfirmed), volume[u] > 0
             PROVE  sl'[u] >= sl[u]
  BY DEF StopKept
<1> USE DEF PositionTypeOK, managerVars, passVars, heldVars
<1>1. ASSUME NEW t \in Tickets, Adopt(t) PROVE sl'[u] >= sl[u]
  BY <1>1 DEF Adopt, Truthful
<1>2. ASSUME NEW t \in Tickets, StartPass(t) PROVE sl'[u] >= sl[u]
  BY <1>2 DEF StartPass
<1>3. ASSUME NEW t \in Tickets, NEW new \in Levels, ModifyStop(t, new),
             t \in Trailed \/ new = BreakEven
      PROVE  sl'[u] >= sl[u]
  <2>1. CASE u = t
    <3>1. new >= belief[t] /\ sl'[t] \in {sl[t], new}
      BY <1>3, ModifyFacts
    <3>2. CASE u \notin Unconfirmed
      <4>1. belief[t] >= sl[t]
        BY <2>1, <3>2 DEF Truthful
      <4>2. QED
        BY <2>1, <3>1, <4>1 DEF Levels
    <3>3. CASE u \in Unconfirmed
      <4>1. new = BreakEven /\ sl[t] <= BreakEven
        BY <1>3, <2>1, <3>3 DEF Truthful
      <4>2. QED
        BY <2>1, <3>1, <4>1 DEF Levels
    <3>4. QED
      BY <3>2, <3>3
  <2>2. CASE u # t
    BY <1>3, <2>2, ModifyFacts
  <2>3. QED
    BY <2>1, <2>2
<1>4. ASSUME NEW t \in Tickets, Pass(t) PROVE sl'[u] >= sl[u]
  <2>1. CASE BreakEvenRule(t)
    BY <2>1, <1>3, LevelAssumption DEF BreakEvenRule, Levels
  <2>2. CASE TrailRule(t) BY <2>2, <1>3 DEF TrailRule
  <2>3. CASE NoBreakEven(t) \/ NoPartial(t) \/ NoTrail(t) \/ NoExit(t)
    BY <2>3 DEF NoBreakEven, NoPartial, NoTrail, NoExit
  <2>4. CASE PartialRule(t) \/ ExitRule(t)
    BY <2>4 DEF PartialRule, ExitRule
  <2>5. QED
    BY <1>4, <2>1, <2>2, <2>3, <2>4 DEF Pass
<1>5. ASSUME NEW t \in Tickets, TicketCloses(t) PROVE sl'[u] >= sl[u]
  BY <1>5 DEF TicketCloses
<1>6. CASE UNCHANGED positionVars BY <1>6 DEF positionVars
<1>7. QED
  BY <1>1, <1>2, <1>4, <1>5, <1>6 DEF PositionNext

\* "Stops are NEVER widened", except on a ticket that is both trailed and
\* answered without confirmation.
THEOREM StopsNeverWidened == PositionSpec => StopNeverWidens
<1>1. PositionTypeOK /\ Truthful /\ [PositionNext]_positionVars => [StopKept]_positionVars
  BY StopKeptStep
<1>2. QED
  BY <1>1, TypeCorrect, TruthfulHolds, PTL DEF PositionSpec, StopNeverWidens

-----------------------------------------------------------------------------
\* No step drops a position from the book while the server holds it: the exit
\* rule forgets what it closed, and an answer never reopens anything.
LEMMA ForgottenStep ==
  ASSUME PositionTypeOK, ForgottenIsClosed, [PositionNext]_positionVars
  PROVE  ForgottenIsClosed'
<1> USE DEF PositionTypeOK, ForgottenIsClosed, managerVars, passVars, heldVars, GoTo, EndPass
<1>1. CASE \/ \E t \in Tickets : Adopt(t) \/ StartPass(t) \/ TicketCloses(t)
           \/ UNCHANGED positionVars
  BY <1>1 DEF Adopt, StartPass, TicketCloses, positionVars
<1>2. ASSUME NEW t \in Tickets, BreakEvenRule(t) \/ TrailRule(t) PROVE ForgottenIsClosed'
  BY <1>2 DEF BreakEvenRule, TrailRule
<1>3. ASSUME NEW t \in Tickets, NoBreakEven(t) \/ NoPartial(t) \/ NoTrail(t) \/ NoExit(t)
      PROVE  ForgottenIsClosed'
  BY <1>3 DEF NoBreakEven, NoPartial, NoTrail, NoExit
<1>4. ASSUME NEW t \in Tickets, PartialRule(t) PROVE ForgottenIsClosed'
  <2>1. Half(t) \in Nat /\ UNCHANGED <<managed, opened>>
    BY <1>4, HalfFacts DEF PartialRule, Half
  <2>2. \A u \in Tickets : volume[u] = 0 => volume'[u] = 0
    BY <1>4, <2>1 DEF PartialRule, Verdicts
  <2> QED
    BY <2>1, <2>2
<1>5. ASSUME NEW t \in Tickets, ExitRule(t) PROVE ForgottenIsClosed'
  BY <1>5 DEF ExitRule, Forget, Verdicts
<1> QED
  BY <1>1, <1>2, <1>3, <1>4, <1>5 DEF PositionNext, Pass

\* A position leaves the book only when it is closed, whatever the answers.
THEOREM BookKeepsOpenPositions == PositionSpec => []ForgottenIsClosed
<1>1. PositionInit => ForgottenIsClosed
  BY DEF PositionInit, ForgottenIsClosed
<1>2. PositionTypeOK /\ ForgottenIsClosed /\ [PositionNext]_positionVars => ForgottenIsClosed'
  BY ForgottenStep
<1>3. QED
  BY <1>1, <1>2, TypeCorrect, PTL DEF PositionSpec

\* The book is true: both together.
THEOREM BookTrue == PositionSpec => []BookIsTrue
<1>1. BeliefIsServers /\ ForgottenIsClosed => BookIsTrue
  BY DEF BookIsTrue
<1>2. QED
  BY <1>1, BeliefTrue, BookKeepsOpenPositions, PTL

-----------------------------------------------------------------------------
(* What the rules of manage() have done stays done.                        *)

\* Where calls are confirmed a reduction is remembered; and no rule has served
\* a ticket before it is opened.
Remembered ==
    /\ \A t \in Tickets \ Unconfirmed : reductions[t] <= (IF partial[t] THEN 1 ELSE 0)
    /\ \A t \in Tickets \ opened : ~movedToBE[t]
    /\ managed \subseteq opened /\ cur \in opened \cup {NoTicket}

\* No rule and no event forgets what was done to a ticket.
LEMMA RememberedStep ==
  ASSUME PositionTypeOK, Remembered, [PositionNext]_positionVars
  PROVE  Remembered'
<1> USE DEF PositionTypeOK, Remembered, managerVars, passVars, heldVars, GoTo, EndPass
<1>1. ASSUME NEW t \in Tickets, Adopt(t) PROVE Remembered'
  BY <1>1 DEF Adopt
<1>2. ASSUME NEW t \in Tickets, StartPass(t) \/ TicketCloses(t) PROVE Remembered'
  BY <1>2 DEF StartPass, TicketCloses
<1>3. ASSUME NEW t \in Tickets, Pass(t) PROVE Remembered'
  <2>0. t \in opened
    BY <1>3, TicketAssumption DEF Pass, BreakEvenRule, NoBreakEven, PartialRule, NoPartial,
       TrailRule, NoTrail, ExitRule, NoExit
  <2>1. CASE BreakEvenRule(t) \/ TrailRule(t)
    <3>1. UNCHANGED <<partial, reductions, opened>>
      BY <2>1 DEF BreakEvenRule, TrailRule
    <3>2. \A u \in Tickets \ {t} : movedToBE'[u] = movedToBE[u]
      <4>1. PICK new : ModifyStop(t, new)
        BY <2>1 DEF BreakEvenRule, TrailRule
      <4>2. QED
        BY <4>1, Zenon DEF ModifyStop
    <3>3. UNCHANGED <<managed, cur>>
      BY <2>1 DEF BreakEvenRule, TrailRule
    <3>4. QED
      BY <2>0, <3>1, <3>2, <3>3
  <2>2. CASE PartialRule(t)
    <3>1. UNCHANGED <<movedToBE, opened, managed, cur>>
      BY <2>2 DEF PartialRule
    <3>2. ~partial[t]
      BY <2>2 DEF PartialRule, WantsPartial
    <3>3. \A u \in Tickets \ {t} : partial'[u] = partial[u] /\ reductions'[u] = reductions[u]
      BY <2>2 DEF PartialRule, PartialDone
    <3>4. t \notin Unconfirmed =>
            \/ reductions'[t] = reductions[t] + 1 /\ partial'[t] = TRUE
            \/ reductions'[t] = reductions[t] /\ partial'[t] = partial[t]
      BY <2>2 DEF PartialRule, PartialDone, Verdicts
    <3>5. t \notin Unconfirmed => reductions'[t] <= (IF partial'[t] THEN 1 ELSE 0)
      BY <3>2, <3>4
    <3>6. QED
      BY <3>1, <3>3, <3>5
  <2>3. CASE NoBreakEven(t) \/ NoPartial(t) \/ NoTrail(t) \/ NoExit(t) \/ ExitRule(t)
    BY <2>3 DEF NoBreakEven, NoPartial, NoTrail, NoExit, ExitRule, Forget
  <2>4. QED
    BY <1>3, <2>1, <2>2, <2>3 DEF Pass
<1>4. CASE UNCHANGED positionVars BY <1>4 DEF positionVars
<1>5. QED
  BY <1>1, <1>2, <1>3, <1>4 DEF PositionNext

\* A stop that was moved to break-even is not taken below it again: a step
\* that sets moved_to_be has moved the stop, and no step lowers one.
LEMMA BreakEvenStep ==
  ASSUME PositionTypeOK, Truthful, Remembered, BreakEvenHolds, [PositionNext]_positionVars
  PROVE  BreakEvenHolds'
<1> SUFFICES ASSUME NEW u \in managed' \ (Trailed \cap Unconfirmed),
                    movedToBE'[u], volume'[u] > 0
             PROVE  sl'[u] >= BreakEven
  BY DEF BreakEvenHolds
<1> USE DEF PositionTypeOK, managerVars, passVars, heldVars, GoTo, EndPass
<1>1. ASSUME u \in managed, movedToBE[u], volume[u] > 0 PROVE sl'[u] >= BreakEven
  <2>1. sl[u] >= BreakEven
    BY <1>1 DEF BreakEvenHolds
  <2>2. StopKept
    BY StopKeptStep
  <2>3. sl'[u] >= sl[u]
    BY <1>1, <2>2 DEF StopKept
  <2>4. sl[u] \in Nat /\ BreakEven \in Nat /\ sl'[u] \in Int
    BY LevelAssumption, TypeStep DEF Levels
  <2>5. QED
    BY <2>1, <2>3, <2>4
<1>2. ASSUME NEW t \in Tickets, Adopt(t) PROVE sl'[u] >= BreakEven
  <2>1. u # t
    BY <1>2 DEF Adopt, Remembered
  <2>2. QED
    BY <1>1, <1>2, <2>1 DEF Adopt
<1>3. ASSUME NEW t \in Tickets, StartPass(t) \/ TicketCloses(t) PROVE sl'[u] >= BreakEven
  BY <1>1, <1>3 DEF StartPass, TicketCloses
<1>4. ASSUME NEW t \in Tickets, Pass(t) PROVE sl'[u] >= BreakEven
  <2>1. CASE BreakEvenRule(t)
    <3>1. UNCHANGED <<managed, volume>> /\ ModifyStop(t, BreakEven)
      BY <2>1 DEF BreakEvenRule
    <3>2. CASE movedToBE[u]
      BY <1>1, <3>1, <3>2
    <3>3. CASE ~movedToBE[u]
      <4>1. u = t
        BY <3>1, <3>3, Zenon DEF ModifyStop
      <4>2. PICK a \in Verdicts(t) :
              /\ sl' = IF a.done THEN [sl EXCEPT ![t] = BreakEven] ELSE sl
              /\ movedToBE' = [movedToBE EXCEPT ![t] = @ \/ (rule = "break_even" /\ a.ok)]
        BY <3>1 DEF ModifyStop
      <4>3. a.ok
        BY <3>3, <4>1, <4>2
      <4>4. a.done
        BY <4>3 DEF Verdicts
      <4>5. QED
        BY <4>1, <4>2, <4>4, LevelAssumption DEF Levels
    <3>4. QED
      BY <3>2, <3>3
  <2>2. CASE TrailRule(t)
    <3>1. UNCHANGED <<managed, volume>> /\ rule # "break_even" /\ \E new : ModifyStop(t, new)
      BY <2>2 DEF TrailRule
    <3>2. movedToBE'[u] => movedToBE[u]
      BY <3>1, Zenon DEF ModifyStop
    <3>3. QED
      BY <1>1, <3>1, <3>2
  <2>3. CASE PartialRule(t)
    <3>1. Half(t) \in Nat /\ UNCHANGED <<managed, movedToBE>>
      BY <2>3, HalfFacts DEF PartialRule, Half
    <3>2. volume'[u] > 0 => volume[u] > 0
      BY <2>3, <3>1 DEF PartialRule, Verdicts
    <3>3. QED
      BY <1>1, <3>1, <3>2
  <2>4. CASE ExitRule(t)
    BY <1>1, <2>4 DEF ExitRule, Forget
  <2>5. CASE NoBreakEven(t) \/ NoPartial(t) \/ NoTrail(t) \/ NoExit(t)
    BY <1>1, <2>5 DEF NoBreakEven, NoPartial, NoTrail, NoExit
  <2>6. QED
    BY <1>4, <2>1, <2>2, <2>3, <2>4, <2>5 DEF Pass
<1>5. CASE UNCHANGED positionVars BY <1>1, <1>5 DEF positionVars
<1>6. QED
  BY <1>2, <1>3, <1>4, <1>5 DEF PositionNext

\* What a rule of manage() has done stays done, over the passes that follow.
THEOREM RulesStayDone == PositionSpec => []RulesHold
<1>1. PositionInit => Remembered /\ BreakEvenHolds
  BY DEF PositionInit, Remembered, BreakEvenHolds
<1>2. PositionTypeOK /\ Truthful /\ Remembered /\ BreakEvenHolds /\ [PositionNext]_positionVars
        => Remembered' /\ BreakEvenHolds'
  BY RememberedStep, BreakEvenStep
<1>3. PositionTypeOK /\ Remembered => PartialOnce
  BY DEF PositionTypeOK, Remembered, PartialOnce
<1>4. Remembered /\ BreakEvenHolds /\ PartialOnce => RulesHold
  BY DEF RulesHold
<1>5. QED
  BY <1>1, <1>2, <1>3, <1>4, TypeCorrect, TruthfulHolds, PTL DEF PositionSpec

=============================================================================
