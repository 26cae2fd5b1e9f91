------------------------------- MODULE Intraday -------------------------------
(***************************************************************************)
(* The intraday engine: the sequence of strategy/intraday/                 *)
(* expansion_pullback.py, which remembers a setup from one M5 close to the *)
(* next, the pipeline and the regime controller before it, and the order   *)
(* after it.  One entry for each expansion is what it promises.            *)
(***************************************************************************)
EXTENDS Integers, FiniteSets

CONSTANTS
    MaxAge,      \* closes for which an expansion is a setup
    Controlled,  \* is the regime controller switched on?
    FillRaises,  \* may a call that follows the fill raise?
    MaxNow,      \* bound: M5 closes
    MaxRestarts  \* bound: restarts of the engine

VARIABLES
    now,      \* the last M5 close
    due,      \* has the cycle of that close still to run?
    bos, mss, \* the last break and the last shift of structure on M15
    setup,    \* SetupState, or None
    held,     \* is an intraday position open?
    entries,  \* [closes -> entries on the expansion of that close]
    lost,     \* history: traded expansions of which the memory was lost
    restarts

vars == <<now, due, bos, mss, setup, held, entries, lost, restarts>>

Closes == 0..MaxNow
Signs == {-1, 0, 1}
Sides == {-1, 1}
None == [dir |-> 0, at |-> 0, consumed |-> FALSE]
Event(d, t) == [dir |-> d, at |-> t, consumed |-> FALSE]

\* What a snapshot says: the biases; whether the rest of the market suits the
\* engine; and the direction, if any, that is ripe for an entry.
Snapshots == [h4 : Signs, h1 : Signs, calm : BOOLEAN, ripe : Signs]

Init ==
    /\ now = 0 /\ due = FALSE /\ bos = None /\ mss = None /\ setup = None
    /\ held = FALSE /\ entries = [t \in Closes |-> 0] /\ lost = {} /\ restarts = 0

-----------------------------------------------------------------------------
(* MarketRegimeController.evaluate().                                      *)

Conflict(s) == s.h4 # 0 /\ s.h1 # 0 /\ s.h4 # s.h1

\* Calm: no blackout, an ordinary spread, a directional regime, no extreme
\* volatility.
Permits(s) == Controlled => s.calm /\ ~Conflict(s)

-----------------------------------------------------------------------------
(* ExpansionPullbackEngine.evaluate().                                     *)

\* The direction on which H4 and H1 agree, or 0.
Bias(s) == IF s.h4 = s.h1 THEN s.h4 ELSE 0

\* The last break is asked first, also when the last shift is newer.
Expansion(d) == CASE bos.dir = d -> bos [] bos.dir # d /\ mss.dir = d -> mss [] OTHER -> None

\* The setup on which the sequence goes on, or None if it ends before.
Candidate(d) == IF setup.dir = d THEN setup ELSE Expansion(d)

Stale(e) == now - e.at > MaxAge

\* What is remembered after the evaluation.
Remembered(d) ==
    IF d = 0 THEN None
    ELSE IF Candidate(d) = None THEN setup
    ELSE IF Stale(Candidate(d)) THEN None ELSE Candidate(d)

\* The price is in an open zone of M15, whose structure has not turned; the last
\* event of M5 goes the same way; there are a stop and a target.
Confirmed(s, d) == s.ripe = d

\* Mutation: a setup may be traded twice.
Open_Again(e) == ~Stale(e)

Open(e) == ~Stale(e) /\ ~e.consumed

\* All steps hold, in this evaluation or before it.
Ready(s) ==
    LET d == Bias(s) IN
    d # 0 /\ Candidate(d) # None /\ Open(Candidate(d)) /\ Confirmed(s, d)

-----------------------------------------------------------------------------
(* TradingEngine._intraday_cycle() and IntradayPipeline.run().             *)

\* A traded expansion is lost when its setup is dropped before it is stale.
Losing(m) ==
    IF setup # None /\ m # setup /\ ~Stale(setup) /\ entries[setup.at] > 0 THEN lost \cup {setup.at} ELSE lost

Remember(m) == setup' = m /\ lost' = Losing(m)

\* The controller forbids it, or the cycle fails before: the sequence does not
\* run, and what it remembers stays.
Vetoed ==
    /\ due /\ due' = FALSE
    /\ UNCHANGED <<now, bos, mss, setup, held, entries, lost, restarts>>

\* The sequence stops at one of its steps.
Waits(s) ==
    /\ due /\ due' = FALSE
    /\ Permits(s) /\ ~Ready(s)
    /\ Remember(Remembered(Bias(s)))
    /\ UNCHANGED <<now, bos, mss, held, entries, restarts>>

AfterRefusal(e) == e

\* The budget, the risk gate or the broker refuses: the setup stays available.
Refused(s) ==
    /\ due /\ due' = FALSE
    /\ Permits(s) /\ Ready(s)
    /\ Remember(AfterRefusal(Candidate(Bias(s))))
    /\ UNCHANGED <<now, bos, mss, held, entries, restarts>>

\* EngineBudget.may_add(): one position at a time.
MayAdd == ~held

Filled(e) == held' = TRUE /\ entries' = [entries EXCEPT ![e.at] = @ + 1]

\* The order is filled and the setup consumed.
Enters(s) ==
    /\ due /\ due' = FALSE
    /\ Permits(s) /\ Ready(s) /\ MayAdd
    /\ LET e == Candidate(Bias(s)) IN
       /\ Filled(e)
       /\ Remember([e EXCEPT !.consumed = TRUE])
    /\ UNCHANGED <<now, bos, mss, restarts>>

\* The order is filled, and a call after the fill raises: the cycle ends before
\* the setup is consumed.
EntersUnrecorded(s) ==
    /\ FillRaises
    /\ due /\ due' = FALSE
    /\ Permits(s) /\ Ready(s) /\ MayAdd
    /\ LET e == Candidate(Bias(s)) IN
       /\ Filled(e)
       /\ setup' = e /\ lost' = Losing(e) \cup {e.at}
    /\ UNCHANGED <<now, bos, mss, restarts>>

-----------------------------------------------------------------------------
(* The market, the server and the process.                                 *)

\* An M5 bar closes; M15 may print an event.
BarCloses ==
    /\ now < MaxNow
    /\ now' = now + 1 /\ due' = TRUE
    /\ \/ UNCHANGED <<bos, mss>>
       \/ \E d \in Sides : bos' = Event(d, now + 1) /\ UNCHANGED mss
       \/ \E d \in Sides : mss' = Event(d, now + 1) /\ UNCHANGED bos
    /\ UNCHANGED <<setup, held, entries, lost, restarts>>

PositionCloses ==
    /\ held /\ held' = FALSE
    /\ UNCHANGED <<now, due, bos, mss, setup, entries, lost, restarts>>

\* The setup lives in memory only.
Restart ==
    /\ restarts < MaxRestarts /\ restarts' = restarts + 1
    /\ due' = FALSE
    /\ Remember(None)
    /\ UNCHANGED <<now, bos, mss, held, entries>>

Cycle == \E s \in Snapshots : Waits(s) \/ Refused(s) \/ Enters(s) \/ EntersUnrecorded(s)

Next == BarCloses \/ Vetoed \/ Cycle \/ PositionCloses \/ Restart

Spec == Init /\ [][Next]_vars

-----------------------------------------------------------------------------
(* Properties                                                              *)

Setups == [dir : Signs, at : Closes, consumed : BOOLEAN]

TypeOK ==
    /\ now \in Closes /\ due \in BOOLEAN /\ held \in BOOLEAN
    /\ bos \in Setups /\ mss \in Setups /\ setup \in Setups
    /\ entries \in [Closes -> Nat] /\ lost \subseteq Closes /\ restarts \in 0..MaxRestarts

\* The memory tells the truth: a setup that is remembered is consumed exactly
\* if an entry was taken on it, whatever was refused, vetoed or closed since.
ConsumedMeansTraded ==
    setup # None /\ setup.at \notin lost => (setup.consumed <=> entries[setup.at] > 0)

\* One entry for each expansion, as long as the engine remembers it: a second
\* one takes a lost context, a restart or a fill that was not recorded.
OnceUnlessForgotten == \A t \in Closes : entries[t] > 1 => t \in lost

\* No entry on an expansion that is too old, however long the controller kept
\* the sequence, and so its memory, from being brought up to date.
NeverOnStale == [][\A t \in Closes : entries'[t] > entries[t] => now - t <= MaxAge]_vars

\* What the module's text promises: once a setup has been traded, the engine
\* waits for a new expansion.
OnceEach == \A t \in Closes : entries[t] <= 1
=============================================================================
