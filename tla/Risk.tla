--------------------------------- MODULE Risk ---------------------------------
(***************************************************************************)
(* risk/gate.py with the drawdown guard (risk/drawdown.py) and the kill    *)
(* switch (risk/kill_switch.py) it consults.                               *)
(*                                                                         *)
(* One gate serves two threads: "m5", whose cycle reads the account once   *)
(* for two engines, and "loop", whose scan reads it for one.  Every        *)
(* evaluation updates the guard with the time and the equity its thread    *)
(* has read, which need not be the present ones.  Equity is a whole number *)
(* of units; a share x of it is the integer x * Scale.                     *)
(***************************************************************************)
EXTENDS Integers

CONSTANTS
    Periods,     \* "DAY", "WEEK", "MONTH"
    DaysIn,      \* [Periods -> the days a period has]
    Limit,       \* [Periods -> max_*_drawdown_pct * Scale]
    Manual,      \* the periods whose lockout needs_manual_clear
    Scale,
    TradeCap,    \* the most a trade may risk * Scale: class and global cap
    AutoReasons, \* kill-switch reasons that are auto_clearable
    HandReasons, \* those that are not
    MaxDay,      \* bound: days
    MinEquity,   \* bounds: equity
    MaxEquity

ASSUME PeriodAssumption ==
    /\ Scale \in Nat \ {0} /\ TradeCap \in Nat
    /\ DaysIn \in [Periods -> Nat \ {0}]
    /\ Limit \in [Periods -> 1..Scale]
    /\ Manual \subseteq Periods
    /\ AutoReasons \cap HandReasons = {}
    /\ MaxDay \in Nat
    /\ MinEquity \in Nat \ {0} /\ MaxEquity \in Nat

Deciders == {"m5", "loop"}
KillReasons == AutoReasons \cup HandReasons

\* The engines that decide on one read of the account.
Turns(th) == IF th = "m5" THEN 2 ELSE 1

VARIABLES
    day,      \* the broker's day
    equity,   \* the account's equity
    start,    \* [Periods -> the period state belongs to: PeriodState.start]
    peak,     \* [Periods -> peak_equity]
    locked,   \* the periods that are locked
    byHand,   \* the locked periods whose state says needs_manual_clear
    tripped,   \* KillSwitch._active
    turns,    \* [Deciders -> the engines still to decide in this cycle]
    asOf,     \* [Deciders -> the day when the cycle began]
    acct,     \* [Deciders -> the equity it read then]
    granted,  \* [Deciders -> the risk approved for this turn, or 0]
    past      \* history: [Periods -> approvals given while the equity is at
              \*   or past the limit of the period]

guardVars == <<start, peak, locked, byHand>>
cycleVars == <<turns, asOf, acct, granted>>
riskVars == <<day, equity, guardVars, tripped, cycleVars, past>>

\* period_start(): the period of a kind that a day belongs to.
PeriodOf(p, d) == d \div DaysIn[p]

Larger(a, b) == IF a < b THEN b ELSE a

-----------------------------------------------------------------------------
(* DrawdownGuard.                                                          *)

\* PeriodState.breached, for a given peak and equity.
Breached(p, top, e) == (top - e) * Scale >= Limit[p] * top

\* Mutation: a lockout does not survive the roll of its period.
Carried_Never(p) == FALSE

\* carry_lock: a lockout that a human must clear survives the roll.
Carried(p) == p \in locked /\ p \in byHand

\* update(), for one period, at a day and an equity: a period state of
\* another period is replaced, whichever of the two is the later.
Rolls(p, d) == start[p] # PeriodOf(p, d)

NewPeak(p, d, e) == IF Rolls(p, d) THEN e ELSE Larger(peak[p], e)

Trips(p, d, e) == ~Rolls(p, d) /\ p \notin locked /\ Breached(p, NewPeak(p, d, e), e)

StaysLocked(p, d) == IF Rolls(p, d) THEN Carried(p) ELSE p \in locked

Update(d, e) ==
    /\ start' = [p \in Periods |-> PeriodOf(p, d)]
    /\ peak' = [p \in Periods |-> NewPeak(p, d, e)]
    /\ locked' = {p \in Periods : StaysLocked(p, d) \/ Trips(p, d, e)}
    /\ byHand' = {p \in Periods :
                    \/ p \in Manual /\ Trips(p, d, e)
                    \/ p \in byHand /\ StaysLocked(p, d)}

\* Mutation: the budget of a period is its limit.
Affordable_Undiminished(m, e) ==
    /\ m * Scale <= TradeCap * e
    /\ \A p \in Periods : m * Scale <= Limit[p] * e

\* approved_risk_pct() and the sizer, which rounds down: m is no more than
\* the share of the equity that the trade's cap and every period leave.
Affordable(m, e) ==
    /\ m * Scale <= TradeCap * e
    /\ \A p \in Periods :
          m * (peak'[p] * Scale) <= (Limit[p] * peak'[p] - (peak'[p] - e) * Scale) * e

Unlock(p) == locked' = locked \ {p} /\ byHand' = byHand \ {p}

\* The approvals past the limit: of a period whose limit the equity has
\* reached, those that were, and the one given now.
Past(given) ==
    past' = [p \in Periods |->
               IF start'[p] = PeriodOf(p, day') /\ Breached(p, peak'[p], equity')
               THEN past[p] + (IF given THEN 1 ELSE 0) ELSE 0]

-----------------------------------------------------------------------------
(* A cycle of a thread.                                                    *)

\* The cycle reads the clock and the account.
Read(th) ==
    /\ turns[th] = 0
    /\ turns' = [turns EXCEPT ![th] = Turns(th)]
    /\ asOf' = [asOf EXCEPT ![th] = day]
    /\ acct' = [acct EXCEPT ![th] = equity]
    /\ UNCHANGED <<day, equity, guardVars, tripped, granted, past>>

\* RiskGate.evaluate() approves the first plan of an engine's turn.
Grant(th) ==
    /\ turns[th] > 0 /\ granted[th] = 0
    /\ tripped = {}
    /\ Update(asOf[th], acct[th])
    /\ locked' = {}
    /\ \E m \in 1..MaxEquity :
          Affordable(m, acct[th]) /\ granted' = [granted EXCEPT ![th] = m]
    /\ UNCHANGED <<day, equity, tripped, turns, asOf, acct>>
    /\ Past(TRUE)

\* It refuses a plan, or the plan is not the one that is executed.
Refuse(th) ==
    /\ turns[th] > 0
    /\ Update(asOf[th], acct[th])
    /\ UNCHANGED <<day, equity, tripped, cycleVars>>
    /\ Past(FALSE)

\* Mutation: the same engine decides again on what was read before.
EndTurn_Again(th) ==
    /\ turns[th] > 0
    /\ granted' = [granted EXCEPT ![th] = 0]
    /\ UNCHANGED <<day, equity, guardVars, tripped, turns, asOf, acct, past>>

\* The order is sent, or there is none; the next engine decides, or an
\* exception ends the cycle.
EndTurn(th) ==
    /\ turns[th] > 0
    /\ granted' = [granted EXCEPT ![th] = 0]
    /\ \E left \in {turns[th] - 1, 0} :
          /\ turns' = [turns EXCEPT ![th] = left]
          /\ IF left = 0
             THEN asOf' = [asOf EXCEPT ![th] = 0] /\ acct' = [acct EXCEPT ![th] = 0]
             ELSE UNCHANGED <<asOf, acct>>
    /\ UNCHANGED <<day, equity, guardVars, tripped, past>>

-----------------------------------------------------------------------------
(* KillSwitch.                                                             *)

\* evaluate() at every tick: the reasons that can clear themselves are the
\* conditions found now; the others are left alone.
Tick ==
    /\ \E now \in SUBSET AutoReasons : tripped' = (tripped \cap HandReasons) \cup now
    /\ UNCHANGED <<day, equity, guardVars, cycleVars, past>>

Trip(r) ==
    /\ r \in HandReasons
    /\ tripped' = tripped \cup {r}
    /\ UNCHANGED <<day, equity, guardVars, cycleVars, past>>

\* clear() without force: refused for what is not auto_clearable.
ClearReason(r) ==
    /\ r \in AutoReasons
    /\ tripped' = tripped \ {r}
    /\ UNCHANGED <<day, equity, guardVars, cycleVars, past>>

\* clear(force=True), for one reason or, as clear_all(), for every one.
HumanLifts ==
    /\ tripped' \in {tripped \ {r} : r \in tripped} \cup {{}}
    /\ UNCHANGED <<day, equity, guardVars, cycleVars, past>>

\* DrawdownGuard.clear(): the peak stays.
HumanClears(p) ==
    /\ p \in locked
    /\ Unlock(p)
    /\ UNCHANGED <<day, equity, start, peak, tripped, cycleVars, past>>

-----------------------------------------------------------------------------
(* The account, the calendar and the process.                              *)

Market ==
    /\ equity' \in {equity - 1, equity + 1} \cap MinEquity..MaxEquity
    /\ UNCHANGED <<day, guardVars, tripped, cycleVars>>
    /\ Past(FALSE)

Midnight ==
    /\ day < MaxDay
    /\ day' = day + 1
    /\ UNCHANGED <<equity, guardVars, tripped, cycleVars>>
    /\ Past(FALSE)

RiskInit ==
    /\ day = 0 /\ equity \in MinEquity..MaxEquity
    /\ start = [p \in Periods |-> 0]
    /\ peak = [p \in Periods |-> equity]
    /\ locked = {} /\ byHand = {} /\ tripped = {}
    /\ turns = [th \in Deciders |-> 0]
    /\ asOf = [th \in Deciders |-> 0]
    /\ acct = [th \in Deciders |-> 0]
    /\ granted = [th \in Deciders |-> 0]
    /\ past = [p \in Periods |-> 0]

\* Guard and kill switch are in memory only; startup() updates a new guard.
GuardRestarts ==
    /\ start' = [p \in Periods |-> PeriodOf(p, day)]
    /\ peak' = [p \in Periods |-> equity]
    /\ locked' = {} /\ byHand' = {} /\ tripped' = {}
    /\ turns' = [th \in Deciders |-> 0]
    /\ asOf' = [th \in Deciders |-> 0]
    /\ acct' = [th \in Deciders |-> 0]
    /\ granted' = [th \in Deciders |-> 0]
    /\ past' = [p \in Periods |-> 0]
    /\ UNCHANGED <<day, equity>>

RiskNext ==
    \/ \E th \in Deciders : Read(th) \/ Grant(th) \/ Refuse(th) \/ EndTurn(th)
    \/ Tick \/ HumanLifts
    \/ \E r \in KillReasons : Trip(r) \/ ClearReason(r)
    \/ \E p \in Periods : HumanClears(p)
    \/ Market \/ Midnight \/ GuardRestarts

RiskSpec == RiskInit /\ [][RiskNext]_riskVars

-----------------------------------------------------------------------------
(* Properties                                                              *)

\* A state says that it needs a human only while it is locked.
RiskTypeOK ==
    /\ day \in Nat /\ equity \in MinEquity..MaxEquity
    /\ start \in [Periods -> Nat] /\ peak \in [Periods -> 1..MaxEquity]
    /\ locked \subseteq Periods /\ byHand \subseteq locked
    /\ tripped \subseteq KillReasons
    /\ turns \in [Deciders -> 0..2]
    /\ asOf \in [Deciders -> Nat] /\ acct \in [Deciders -> 0..MaxEquity]
    /\ granted \in [Deciders -> 0..MaxEquity]
    /\ past \in [Periods -> Nat]

\* "A daily lockout clears when the period rolls.  Weekly and monthly lockouts
\* require a human to clear them", and so does a halt that is not
\* auto_clearable.
LiftedRightly ==
    /\ \A p \in locked \ locked' :
          HumanClears(p) \/ (p \notin Manual /\ start'[p] # start[p])
    /\ \A r \in (tripped \ tripped') \cap HandReasons : HumanLifts

\* While the process lives.
LocksLast == [][LiftedRightly \/ GuardRestarts]_riskVars

\* "a persisted state machine": without that exception.
LocksOutliveRestart == [][LiftedRightly]_riskVars

\* The risk of an approval, if its stop is hit, takes no period past its limit,
\* as far as the guard knows the peak and the gate the equity.
StopCovered ==
    \A th \in Deciders, p \in Periods :
        granted[th] = 0 /\ granted'[th] > 0 =>
            (peak'[p] - (acct[th] - granted'[th])) * Scale <= Limit[p] * peak'[p]
BudgetCoversStop == [][StopCovered]_riskVars

\* The account has moved since a cycle read it, so approvals may come after the
\* limit of a period has been reached; no more of them than there are engines,
\* before the equity recovers or the period ends.
PastLimitBounded == \A p \in Periods : past[p] <= Turns("m5") + Turns("loop")

=============================================================================
