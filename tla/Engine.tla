-------------------------------- MODULE Engine --------------------------------
(***************************************************************************)
(* engine/orchestrator.py: the three engines (A/A+, intraday, scalp) on    *)
(* one account, with the operator's HALT and FLATTEN commands.             *)
(*                                                                         *)
(* Three threads share the broker, the kill switch, the trade counter and  *)
(* the book of managed positions without a lock:                           *)
(*   "m5"    _decision_cycle(): A/A+, then intraday, at every M5 close;    *)
(*   "loop"  the event loop: the scalp scan and position management;       *)
(*   cmd     _drain_commands(): what the dashboard has queued.             *)
(* Each is cut at its broker and database calls.  What execute() does      *)
(* below is OrderManager's business; here it reports a fill, or reports    *)
(* none, which (see OrderManager) does not say that there is no position.  *)
(***************************************************************************)
EXTENDS Integers, FiniteSets

CONSTANTS
    MaxTickets,    \* bound: tickets open or still referred to at a time
    MaxConcurrent, \* risk.max_concurrent_positions
    MaxTrades,     \* risk.max_trades_per_day
    Flaky,         \* the tickets on which a broker call may fail
    SeesAll,       \* does positions(magic=None) return every magic?
                   \*   SimBroker: yes.  Mt5Broker: the main magic only.
    Halts,         \* the HALT commands an operator may queue
    Flattens       \* the FLATTEN commands

Tickets  == 1..MaxTickets
Commands == Halts \cup Flattens
Threads  == {"m5", "loop"}
Engines  == {"aplus", "intraday", "scalp"}

\* The reasons that clear themselves only ever turn a decision away, which
\* NoTrade does without them.
HaltReasons == {"MANUAL", "STATE_DIVERGENCE"}

ASSUME BoundAssumption ==
    /\ MaxTickets \in Nat /\ MaxConcurrent \in Nat /\ MaxTrades \in Nat
    /\ Flaky \subseteq Tickets /\ SeesAll \in BOOLEAN
ASSUME CommandAssumption == Halts \cap Flattens = {} /\ "none" \notin Commands

VARIABLES
    up,        \* is the engine process running?
    halted,    \* KillSwitch._active
    trades,    \* trades_today
    rolled,    \* is _day the broker's day?
    pc,        \* [Threads -> where the thread stands]
    engine,    \* [Threads -> the engine it decides for]
    ticket,    \* [Threads -> the position it has just opened, or 0]
    owner,     \* [Tickets -> the engine whose magic the open position
               \*   carries, or "none"]
    book,      \* the open positions in PositionManager.positions
    earlier,   \* [Commands -> the commands queued before it: requested_at]
    status,    \* [Commands -> OperatorCommandRow.status, or "none"]
    batch,     \* the claimed commands the thread has not begun
    current,   \* the one it is running, or "none"
    stage,     \* where the thread stands with it
    todo,      \* the positions FLATTEN still has to close
    failed,    \* has the command failed?
    filled,    \* history: open positions reported to the engine as filled
    late,      \* history: positions opened since it was halted by hand
    target,    \* history: [Flattens -> open since the command was queued]
    dbFailed   \* history: a completion could not be stored since the start

deciding == <<pc, engine, ticket>>
commanding == <<batch, current, stage, todo, failed>>
positions == <<owner, book, filled, target>>
tradingVars == <<up, halted, trades, rolled, deciding, positions, earlier, status,
          commanding, late, dbFailed>>

First(th) == IF th = "m5" THEN "aplus" ELSE "scalp"

EngineInit ==
    /\ up = TRUE /\ halted = {} /\ trades = 0 /\ rolled = FALSE
    /\ pc = [th \in Threads |-> "idle"]
    /\ engine = [th \in Threads |-> First(th)]
    /\ ticket = [th \in Threads |-> 0]
    /\ owner = [t \in Tickets |-> "none"] /\ book = {}
    /\ earlier = [c \in Commands |-> {}]
    /\ status = [c \in Commands |-> "none"]
    /\ batch = {} /\ current = "none" /\ stage = "idle"
    /\ todo = {} /\ failed = FALSE
    /\ filled = {} /\ late = 0 /\ dbFailed = FALSE
    /\ target = [c \in Flattens |-> {}]

-----------------------------------------------------------------------------
(* What a decision reads, and the checks on it.                            *)

standing == {t \in Tickets : owner[t] # "none"}

\* _our_positions(): every position of ours, as far as the broker shows it.
OurPositions == {t \in standing : SeesAll \/ owner[t] = "aplus"}

\* risk.no_stacking.  A/A+ passes no engine name: any position blocks it.  The
\* other two tolerate a position of each other if it faces the same way (a
\* candidate that does not is one of NoTrade's), but none of A/A+, which
\* _engine_of() does not know.
NoStacking(e) ==
    \A t \in OurPositions : e # "aplus" /\ owner[t] \notin {e, "aplus"}

\* The first check of a cycle and of a scan: the broker's day has changed.
Roll == rolled' = TRUE /\ trades' = IF rolled THEN trades ELSE 0

-----------------------------------------------------------------------------
(* The decision thread and the scalp scan.                                 *)

\* An exception ends the whole cycle, not only this engine's part.
Abort(th) ==
    /\ pc' = [pc EXCEPT ![th] = "idle"]
    /\ engine' = [engine EXCEPT ![th] = First(th)]
    /\ ticket' = [ticket EXCEPT ![th] = 0]

\* The thread is done with this engine: A/A+ hands over to intraday.
Proceed(th) ==
    IF engine[th] = "aplus"
    THEN /\ pc' = [pc EXCEPT ![th] = "next"]
         /\ engine' = [engine EXCEPT ![th] = "intraday"]
         /\ ticket' = [ticket EXCEPT ![th] = 0]
    ELSE Abort(th)

\* The cycle reads positions and (in the m5 thread) the trade counter, and
\* finds a candidate that the checks on those two let through.
Observe(th) ==
    /\ up /\ pc[th] \in {"idle", "next"}
    /\ IF pc[th] = "idle" THEN Roll ELSE UNCHANGED <<trades, rolled>>
    /\ NoStacking(engine[th])
    /\ Cardinality(OurPositions) < MaxConcurrent
    /\ th = "m5" => trades' < MaxTrades
    /\ pc' = [pc EXCEPT ![th] = "gate"]
    /\ UNCHANGED <<up, halted, engine, ticket, positions, earlier, status,
                   commanding, late, dbFailed>>

\* No candidate, a check fails, intraday is vetoed, or the broker does not
\* answer before the first order is sent.
NoTrade(th) ==
    /\ up /\ pc[th] \in {"idle", "next", "gate"}
    /\ IF pc[th] = "idle" THEN Roll ELSE UNCHANGED <<trades, rolled>>
    /\ Proceed(th) \/ Abort(th)
    /\ UNCHANGED <<up, halted, positions, earlier, status, commanding, late,
                   dbFailed>>

\* Mutation: a gate that holds a kill switch of its own.
Gate_Blind(th) ==
    /\ pc[th] = "gate"
    /\ th = "loop" => trades < MaxTrades
    /\ pc' = [pc EXCEPT ![th] = "send"]
    /\ UNCHANGED <<up, halted, trades, rolled, engine, ticket, positions,
                   earlier, status, commanding, late, dbFailed>>

\* Mutation: a gate that is never told the number of trades.
Gate_NoCounter(th) ==
    /\ pc[th] = "gate"
    /\ halted = {}
    /\ pc' = [pc EXCEPT ![th] = "send"]
    /\ UNCHANGED <<up, halted, trades, rolled, engine, ticket, positions,
                   earlier, status, commanding, late, dbFailed>>

\* RiskGate.evaluate(): the kill switch, and for the scalp the trade counter,
\* are read now.  Nothing looks at the kill switch again before the send.
Gate(th) ==
    /\ pc[th] = "gate"
    /\ halted = {}
    /\ th = "loop" => trades < MaxTrades
    /\ pc' = [pc EXCEPT ![th] = "send"]
    /\ UNCHANGED <<up, halted, trades, rolled, engine, ticket, positions,
                   earlier, status, commanding, late, dbFailed>>

\* A ticket nobody refers to any more stands for a fresh one.
Fresh(t) == t \notin standing \cup todo \cup {ticket[th] : th \in Threads}

\* The server opens position t for the engine of this thread.
Opens(th, t) ==
    /\ Fresh(t) /\ \A u \in Tickets : Fresh(u) => t <= u
    /\ owner' = [owner EXCEPT ![t] = engine[th]]
    /\ late' = IF "MANUAL" \in halted THEN late + 1 ELSE late

Count == trades' = trades + 1

\* execute() reports a fill.
Filled(th) ==
    /\ pc[th] = "send"
    /\ \E t \in Tickets :
          /\ Opens(th, t)
          /\ ticket' = [ticket EXCEPT ![th] = t]
          /\ filled' = filled \cup {t}
    /\ Count
    /\ pc' = [pc EXCEPT ![th] = "adopt"]
    /\ UNCHANGED <<up, halted, rolled, engine, book, target, earlier, status,
                   commanding, dbFailed>>

\* execute() reports no fill: refused, abandoned, or unknown.  In the last
\* two cases the position may exist, and in the last the engine is halted.
NotFilled(th) ==
    /\ pc[th] = "send"
    /\ (\E t \in Tickets : Opens(th, t)) \/ UNCHANGED <<owner, late>>
    /\ halted' \in {halted, halted \cup {"STATE_DIVERGENCE"}}
    /\ Proceed(th)
    /\ UNCHANGED <<up, trades, rolled, book, filled, target, earlier, status,
                   commanding, dbFailed>>

\* Mutation: the position manager is not told.
Adopt_Never(th) ==
    /\ pc[th] = "adopt"
    /\ Proceed(th)
    /\ UNCHANGED <<up, halted, trades, rolled, positions, earlier, status,
                   commanding, late, dbFailed>>

\* _execute() reads its own magic's positions and adopts the new one, if it
\* is still there.
Adopt(th) ==
    /\ pc[th] = "adopt"
    /\ book' = book \cup ({ticket[th]} \cap standing)
    /\ Proceed(th)
    /\ UNCHANGED <<up, halted, trades, rolled, owner, filled, target, earlier,
                   status, commanding, late, dbFailed>>

\* ... or that call fails, and the position is never adopted.
AdoptFails(th) ==
    /\ pc[th] = "adopt" /\ ticket[th] \in Flaky
    /\ Abort(th)
    /\ UNCHANGED <<up, halted, trades, rolled, positions, earlier, status,
                   commanding, late, dbFailed>>

\* Position t is closed at the server; no list of open positions has it.
Closes(t) ==
    /\ owner' = [owner EXCEPT ![t] = "none"]
    /\ book' = book \ {t} /\ filled' = filled \ {t}
    /\ target' = [c \in Flattens |-> target[c] \ {t}]

\* A stop, a target, a hand on the terminal, or, on the event loop,
\* PositionManager.manage() closes a position.
PositionCloses(t) ==
    /\ t \in standing
    /\ Closes(t)
    /\ UNCHANGED <<up, halted, trades, rolled, deciding, earlier, status,
                   commanding, late, dbFailed>>

-----------------------------------------------------------------------------
(* The operator's commands.                                                *)

QueueCommand(c) ==
    /\ status[c] = "none"
    /\ status' = [status EXCEPT ![c] = "QUEUED"]
    /\ earlier' = [earlier EXCEPT ![c] = {d \in Commands : status[d] # "none"}]
    /\ target' = [f \in Flattens |-> IF f = c THEN standing ELSE target[f]]
    /\ UNCHANGED <<up, halted, trades, rolled, deciding, owner, book, filled,
                   commanding, late, dbFailed>>

Queued(c) == status[c] = "QUEUED"

\* claim_pending(): all queued commands; its limit of 10 is not reached.
Claim ==
    /\ up /\ stage = "idle"
    /\ \E c \in Commands : Queued(c)
    /\ batch' = {c \in Commands : Queued(c)}
    /\ status' = [c \in Commands |-> IF Queued(c) THEN "CLAIMED" ELSE status[c]]
    /\ stage' = "run"
    /\ UNCHANGED <<up, halted, trades, rolled, deciding, positions, earlier,
                   current, todo, failed, late, dbFailed>>

\* The next command, in the order they were queued.  HALT and FLATTEN both
\* trip the kill switch first.
RunCommand(c) ==
    /\ stage = "run" /\ c \in batch /\ earlier[c] \cap batch = {}
    /\ current' = c /\ batch' = batch \ {c}
    /\ halted' = halted \cup {"MANUAL"}
    /\ stage' = IF c \in Flattens THEN "read" ELSE "complete"
    /\ UNCHANGED <<up, trades, rolled, deciding, positions, earlier, status,
                   todo, failed, late, dbFailed>>

\* FLATTEN reads the positions, or cannot.
ReadPositions ==
    /\ stage = "read"
    /\ \/ todo' = OurPositions /\ stage' = "close" /\ UNCHANGED failed
       \/ stage' = "complete" /\ failed' = TRUE /\ UNCHANGED todo
    /\ UNCHANGED <<up, halted, trades, rolled, deciding, positions, earlier,
                   status, batch, current, late, dbFailed>>

CloseOne(t) ==
    /\ stage = "close" /\ t \in todo \cap standing
    /\ todo' = todo \ {t}
    /\ Closes(t)
    /\ UNCHANGED <<up, halted, trades, rolled, deciding, earlier, status, batch,
                   current, stage, failed, late, dbFailed>>

\* Mutation: a refused close is not counted as failed.
CloseRefused_Ignored(t) ==
    /\ stage = "close" /\ t \in todo
    /\ t \notin standing \/ t \in Flaky
    /\ todo' = todo \ {t}
    /\ book' \in {book, book \ {t}}
    /\ UNCHANGED <<up, halted, trades, rolled, deciding, owner, filled, target,
                   earlier, status, batch, current, stage, failed, late, dbFailed>>

\* A close that raises leaves the book alone; one that is answered "not ok"
\* has the position forgotten all the same.
CloseRefused(t) ==
    /\ stage = "close" /\ t \in todo
    /\ t \notin standing \/ t \in Flaky
    /\ todo' = todo \ {t}
    /\ failed' = TRUE
    /\ book' \in {book, book \ {t}}
    /\ UNCHANGED <<up, halted, trades, rolled, deciding, owner, filled, target,
                   earlier, status, batch, current, stage, late, dbFailed>>

Finished == stage = "complete" \/ (stage = "close" /\ todo = {})

NextInBatch ==
    /\ current' = "none"
    /\ stage' = IF batch = {} THEN "idle" ELSE "run"

Complete ==
    /\ Finished
    /\ status' = [status EXCEPT ![current] = IF failed THEN "FAILED" ELSE "DONE"]
    /\ failed' = FALSE
    /\ NextInBatch
    /\ UNCHANGED <<up, halted, trades, rolled, deciding, positions, earlier,
                   batch, todo, late, dbFailed>>

\* The database refuses: the exception leaves _drain_commands() and with it
\* the rest of the batch, all of it marked CLAIMED.
CompleteFails ==
    /\ Finished
    /\ batch' = {} /\ current' = "none" /\ stage' = "idle" /\ failed' = FALSE
    /\ dbFailed' = TRUE
    /\ UNCHANGED <<up, halted, trades, rolled, deciding, positions, earlier,
                   status, todo, late>>

-----------------------------------------------------------------------------
(* Process and calendar.                                                   *)

\* The kill switch, the counter and the book live in memory only.
ProcessDies ==
    /\ up
    /\ up' = FALSE
    /\ halted' = {} /\ trades' = 0 /\ rolled' = FALSE /\ book' = {}
    /\ pc' = [th \in Threads |-> "idle"]
    /\ engine' = [th \in Threads |-> First(th)]
    /\ ticket' = [th \in Threads |-> 0]
    /\ batch' = {} /\ current' = "none" /\ stage' = "idle"
    /\ todo' = {} /\ failed' = FALSE
    /\ filled' = {} /\ late' = 0 /\ dbFailed' = FALSE
    /\ UNCHANGED <<owner, target, earlier, status>>

\* Mutation: startup() without requeue_stale_claims().
Start_NoRequeue ==
    /\ ~up
    /\ up' = TRUE
    /\ UNCHANGED <<halted, trades, rolled, deciding, positions, earlier, status,
                   commanding, late, dbFailed>>

\* startup(): commands that were claimed and not completed are queued again.
Start ==
    /\ ~up
    /\ up' = TRUE
    /\ status' = [c \in Commands |->
                    IF status[c] = "CLAIMED" THEN "QUEUED" ELSE status[c]]
    /\ UNCHANGED <<halted, trades, rolled, deciding, positions, earlier,
                   commanding, late, dbFailed>>

DayTurns ==
    /\ rolled
    /\ rolled' = FALSE
    /\ UNCHANGED <<up, halted, trades, deciding, positions, earlier, status,
                   commanding, late, dbFailed>>

Decide(th) ==
    \/ Observe(th) \/ NoTrade(th) \/ Gate(th) \/ Filled(th) \/ NotFilled(th)
    \/ Adopt(th) \/ AdoptFails(th)

Drain ==
    \/ Claim \/ ReadPositions \/ Complete \/ CompleteFails
    \/ \E c \in Commands : RunCommand(c)
    \/ \E t \in Tickets : CloseOne(t) \/ CloseRefused(t)

EngineNext ==
    \/ \E th \in Threads : Decide(th)
    \/ Drain \/ ProcessDies \/ Start \/ DayTurns
    \/ \E t \in Tickets : PositionCloses(t)
    \/ \E c \in Commands : QueueCommand(c)

EngineSpec == EngineInit /\ [][EngineNext]_tradingVars

-----------------------------------------------------------------------------
(* Properties                                                              *)

EngineTypeOK ==
    /\ up \in BOOLEAN /\ halted \subseteq HaltReasons
    /\ trades \in Nat /\ rolled \in BOOLEAN
    /\ pc \in [Threads -> {"idle", "next", "gate", "send", "adopt"}]
    /\ engine \in [Threads -> Engines]
    /\ ticket \in [Threads -> Tickets \cup {0}]
    /\ owner \in [Tickets -> Engines \cup {"none"}]
    /\ book \subseteq Tickets /\ filled \subseteq Tickets
    /\ earlier \in [Commands -> SUBSET Commands]
    /\ batch \subseteq Commands /\ current \in Commands \cup {"none"}
    /\ status \in [Commands -> {"none", "QUEUED", "CLAIMED", "DONE", "FAILED"}]
    /\ stage \in {"idle", "run", "read", "close", "complete"}
    /\ todo \subseteq Tickets /\ failed \in BOOLEAN
    /\ late \in Nat /\ dbFailed \in BOOLEAN
    /\ target \in [Flattens -> SUBSET Tickets]

\* No engine ever has two positions among those that the broker lists, although
\* the check and the send are far apart, and an unreported position is one that
\* only the broker knows of.
OnePerEngine == \A t, u \in OurPositions : owner[t] = owner[u] => t = u

\* max_concurrent_positions is checked on a list read before the send, by two
\* threads; a list still never shows more.
AtMostMaxConcurrent == Cardinality(OurPositions) <= MaxConcurrent

\* The daily limit is checked and counted apart from the send: two engines
\* may pass it together, so it is overrun by one trade and never by more.
DayLimitByOne == trades <= MaxTrades + 1

\* The limits that the gates check hold of all that they can list, although two
\* threads check them apart from their sends.
LimitsHold == OnePerEngine /\ AtMostMaxConcurrent /\ DayLimitByOne

\* An engine halted by hand opens no more than what the two threads had
\* already let through their gates.
LateEntriesBounded == late <= Cardinality(Threads)

\* A FLATTEN reported DONE has closed what the broker lists of all that was open
\* when the operator asked for it, whatever closes and opens on the way.
DoneClosesListed ==
    \A c \in Flattens : status[c] = "DONE" => target[c] \cap OurPositions = {}

\* A reported fill stays managed as long as it is open, or is on its way to
\* be, if the calls on it do not fail.
FilledIsManaged ==
    \A t \in filled \ Flaky :
        t \in book \/ \E th \in Threads : pc[th] = "adopt" /\ ticket[th] = t

\* No command stays claimed by nobody, if the database stores completions.
NothingStranded ==
    up /\ ~dbFailed =>
        \A c \in Commands : status[c] = "CLAIMED" => c \in batch \/ c = current

-----------------------------------------------------------------------------
(* What the code's texts say besides, and does not hold.                    *)

\* "A second position from the SAME engine is averaging, and is refused": no
\* engine has two positions open.
NoAveraging == \A t, u \in standing : owner[t] = owner[u] => t = u

\* "report the account flat while an intraday trade was still open" is what
\* _our_positions() is to prevent: a FLATTEN reported DONE has closed everything
\* that was open when the operator asked for it.
DoneIsFlat == \A c \in Flattens : status[c] = "DONE" => target[c] = {}

\* "[ ] kill switch clear", on the checklist of what is "re-derived at send
\* time": an engine halted by hand opens no position.
NoEntryWhenHalted == late = 0

=============================================================================
