---------------------------- MODULE OrderManager ----------------------------
(***************************************************************************)
(* execution/order_manager.py: the only component that sends orders, with  *)
(* the broker it talks to (execution/mt5_broker.py, execution/mt5_bridge)  *)
(* as its environment.                                                     *)
(*                                                                         *)
(* A tag identifies one intended trade.  execute() runs once per approved  *)
(* decision; it is cut at every network call, because that is where the    *)
(* server, a crash or another execution can move.  What one call to the    *)
(* broker answers and the local code up to the next call are one action.   *)
(***************************************************************************)
EXTENDS Integers, FiniteSets

CONSTANTS
    Tags,         \* client tags: deterministic idempotency keys
    MainMagic,    \* the tags sent under broker.magic (A and A+ trades); the
                  \*   others carry the scalp or the intraday magic
    MaxAttempts,  \* execution.max_send_retries + 1
    MaxPolls,     \* bound: polls that fit in reconcile_timeout_seconds
    MaxRuns,      \* bound: executions of one tag
    MaxCrashes,   \* bound: crashes of the engine process
    LateLanding,  \* may a send whose fate is unknown still sit in a queue?
    FindFails,    \* may a query by tag fail with BrokerError?
    Durable       \* does the persist callback survive a restart?

ASSUME BoundsAssumption ==
    /\ MaxAttempts \in Nat \ {0}
    /\ MaxPolls \in Nat \ {0}
    /\ MaxRuns \in Nat
    /\ MaxCrashes \in Nat
ASSUME TagAssumption == IsFiniteSet(Tags) /\ MainMagic \subseteq Tags
ASSUME SwitchAssumption ==
    LateLanding \in BOOLEAN /\ FindFails \in BOOLEAN /\ Durable \in BOOLEAN

VARIABLES
    mode,      \* "down", "starting" (startup reconciliation) or "up"
    halts,     \* the reasons the kill switch is tripped for
    phase,     \* [Tags -> where execute() stands]
    attempt,   \* [Tags -> the loop counter of execute()]
    polls,     \* [Tags -> polls made by _reconcile()]
    reply,     \* [Tags -> the answer of the last send, classified]
    record,    \* [Tags -> the last OrderStatus persisted, or "none"]
    outcome,   \* [Tags -> the status the last execute() returned, or "none"]
    runs,      \* [Tags -> executions started]
    open,      \* [Tags -> open positions at the broker carrying the tag]
    inflight,  \* [Tags -> sends accepted somewhere and not executed yet]
    recent,    \* [Tags -> a deal with the tag is in the history window]
    landed,    \* [Tags -> some send of the tag was executed, ever]
    acknowledged, \* history: [Tags -> a send was answered with success]
    crashes

engineVars == <<mode, halts, crashes>>
threadVars == <<phase, attempt, polls, reply, runs, outcome>>
brokerVars == <<open, inflight, recent, landed, acknowledged>>
vars == <<engineVars, threadVars, record, brokerVars>>

Unresolved == {"INTENT", "SENT", "RECONCILING"}
Statuses   == Unresolved \cup {"FILLED", "ABANDONED"}
Phases     == {"idle", "approved", "quote", "send", "reply", "find", "poll"}
Replies    == {"ok", "ambiguous", "reprice", "transient", "abort", "kill"}
Reasons    == {"STATE_DIVERGENCE", "SYSTEM_ERROR"}

Init ==
    /\ mode = "starting"
    /\ halts = {}
    /\ phase = [t \in Tags |-> "idle"]
    /\ attempt = [t \in Tags |-> 0]
    /\ polls = [t \in Tags |-> 0]
    /\ reply = [t \in Tags |-> "none"]
    /\ record = [t \in Tags |-> "none"]
    /\ outcome = [t \in Tags |-> "none"]
    /\ runs = [t \in Tags |-> 0]
    /\ open = [t \in Tags |-> 0]
    /\ inflight = [t \in Tags |-> 0]
    /\ recent = [t \in Tags |-> FALSE]
    /\ landed = [t \in Tags |-> FALSE]
    /\ acknowledged = [t \in Tags |-> FALSE]
    /\ crashes = 0

-----------------------------------------------------------------------------
(* The persisted record, and what a query of the broker says.              *)

Persist(t, status) == record' = [record EXCEPT ![t] = status]

\* Mt5Broker.find_by_tag: the open positions under the MAIN magic, whatever
\* magic the order was sent with, then the deals of the last ten minutes.
Visible(t) == (t \in MainMagic /\ open[t] > 0) \/ recent[t]

\* OrderManager._find: a BrokerError is answered with None, like an absence.
FindAnswers(t) == {Visible(t)} \cup (IF FindFails THEN {FALSE} ELSE {})

\* execute() returns `status` to the engine.
Return(t, status) ==
    /\ phase' = [phase EXCEPT ![t] = "idle"]
    /\ outcome' = [outcome EXCEPT ![t] = status]

\* The exit below the retry loop.
Abandon(t) ==
    /\ Persist(t, "ABANDONED")
    /\ Return(t, "ABANDONED")

\* Mutation: a retry that does not advance the loop counter.
Retry_Stuck(t) ==
    /\ attempt' = attempt
    /\ phase' = [phase EXCEPT ![t] = "quote"]

\* continue: the next iteration of the loop, from a fresh quote.
Retry(t) ==
    /\ attempt' = [attempt EXCEPT ![t] = @ + 1]
    /\ phase' = [phase EXCEPT ![t] = "quote"]

LastAttempt(t) == attempt[t] >= MaxAttempts

-----------------------------------------------------------------------------
(* Mutations: what plausible slips in this file would turn actions below   *)
(* into.  Only the sensitivity checks use them.                            *)

\* _reconcile() that resends when it has not found the order.
GiveUp_Resends(t) ==
    /\ phase[t] = "poll" /\ polls[t] > 0
    /\ Retry(t)
    /\ UNCHANGED <<engineVars, record, polls, reply, runs, outcome, brokerVars>>

\* _reconcile() that gives up without tripping the kill switch.
GiveUp_Silent(t) ==
    /\ phase[t] = "poll" /\ polls[t] > 0
    /\ Persist(t, "RECONCILING")
    /\ Return(t, "RECONCILING")
    /\ UNCHANGED <<engineVars, attempt, polls, reply, runs, brokerVars>>

\* An ambiguous send taken for a success.
OnAmbiguous_Optimistic(t) ==
    /\ phase[t] = "reply" /\ reply[t] = "ambiguous"
    /\ Persist(t, "FILLED")
    /\ Return(t, "FILLED")
    /\ UNCHANGED <<engineVars, attempt, polls, reply, runs, brokerVars>>

\* A retry of a transient failure without asking the broker first.
OnTransient_Blind(t) ==
    /\ phase[t] = "reply" /\ reply[t] = "transient"
    /\ \/ LastAttempt(t) /\ Abandon(t) /\ UNCHANGED attempt
       \/ ~LastAttempt(t) /\ Retry(t) /\ UNCHANGED <<record, outcome>>
    /\ UNCHANGED <<engineVars, polls, reply, runs, brokerVars>>

-----------------------------------------------------------------------------
(* execute()                                                               *)

\* A decision of the engine passes the gates, the kill switch among them.
Approve(t) ==
    /\ mode = "up" /\ phase[t] = "idle" /\ runs[t] < MaxRuns
    /\ halts = {}
    /\ phase' = [phase EXCEPT ![t] = "approved"]
    /\ runs' = [runs EXCEPT ![t] = @ + 1]
    /\ UNCHANGED <<engineVars, attempt, polls, reply, outcome, record, brokerVars>>

\* The duplicate guard: asks the broker, under the order's own magic.
GuardRefuses(t) ==
    /\ phase[t] = "approved"
    \* Either a position carries the tag, or the broker cannot be asked: both
    \* return without touching the record.
    /\ Return(t, "ABANDONED")
    /\ UNCHANGED <<engineVars, attempt, polls, reply, runs, record, brokerVars>>

GuardPasses(t) ==
    /\ phase[t] = "approved"
    /\ open[t] = 0
    /\ Persist(t, "INTENT")
    /\ attempt' = [attempt EXCEPT ![t] = 1]
    /\ reply' = [reply EXCEPT ![t] = "none"]
    /\ phase' = [phase EXCEPT ![t] = "quote"]
    /\ UNCHANGED <<engineVars, polls, runs, outcome, brokerVars>>

\* No quote, or preflight rejects the trade at the fresh one.
QuoteRefuses(t) ==
    /\ phase[t] = "quote"
    /\ Abandon(t)
    /\ UNCHANGED <<engineVars, attempt, polls, reply, runs, brokerVars>>

QuotePasses(t) ==
    /\ phase[t] = "quote"
    /\ Persist(t, "SENT")
    /\ phase' = [phase EXCEPT ![t] = "send"]
    /\ UNCHANGED <<engineVars, attempt, polls, reply, runs, outcome, brokerVars>>

\* What the caller is told and what became of the order.  A refusal says that
\* it was not executed.  A success says that it was, or, PLACED being one, that
\* it waits to be.  An ambiguous result, TIMEOUT and CONNECTION say nothing, and
\* neither do the codes that stop the engine: LOCKED, FROZEN, ERROR and those
\* that nobody has mapped.
Fates == {"lands", "lost"} \cup (IF LateLanding THEN {"queued"} ELSE {})
SendResults ==
    ({"ok"} \X (Fates \ {"lost"}))
      \cup ({"reprice", "abort"} \X {"lost"})
      \cup ({"ambiguous", "transient", "kill"} \X Fates)

\* broker.send_market: the one call that moves money.
Send(t) ==
    /\ phase[t] = "send"
    /\ \E r \in SendResults :
          /\ reply' = [reply EXCEPT ![t] = r[1]]
          /\ open' = [open EXCEPT ![t] = IF r[2] = "lands" THEN @ + 1 ELSE @]
          /\ recent' = [recent EXCEPT ![t] = @ \/ r[2] = "lands"]
          /\ landed' = [landed EXCEPT ![t] = @ \/ r[2] = "lands"]
          /\ inflight' = [inflight EXCEPT ![t] = IF r[2] = "queued" THEN @ + 1 ELSE @]
          /\ acknowledged' = [acknowledged EXCEPT ![t] = @ \/ r[1] = "ok"]
    /\ phase' = [phase EXCEPT ![t] = "reply"]
    /\ UNCHANGED <<engineVars, attempt, polls, runs, outcome, record>>

OnFilled(t) ==
    /\ phase[t] = "reply" /\ reply[t] = "ok"
    /\ Persist(t, "FILLED")
    /\ Return(t, "FILLED")
    /\ UNCHANGED <<engineVars, attempt, polls, reply, runs, brokerVars>>

\* AmbiguousSendError, or a result in RECONCILING: enter _reconcile().
OnAmbiguous(t) ==
    /\ phase[t] = "reply" /\ reply[t] = "ambiguous"
    /\ Persist(t, "RECONCILING")
    /\ polls' = [polls EXCEPT ![t] = 0]
    /\ phase' = [phase EXCEPT ![t] = "poll"]
    /\ UNCHANGED <<engineVars, attempt, reply, runs, outcome, brokerVars>>

\* RETRY_REPRICE and FIX_AND_RETRY.
OnReprice(t) ==
    /\ phase[t] = "reply" /\ reply[t] = "reprice"
    /\ \/ LastAttempt(t) /\ Abandon(t) /\ UNCHANGED attempt
       \/ ~LastAttempt(t) /\ Retry(t) /\ UNCHANGED <<record, outcome>>
    /\ UNCHANGED <<engineVars, polls, reply, runs, brokerVars>>

\* RETRY_TRANSIENT: the last attempt leaves the loop before it asks.
OnTransient(t) ==
    /\ phase[t] = "reply" /\ reply[t] = "transient"
    /\ \/ LastAttempt(t) /\ Abandon(t)
       \/ /\ ~LastAttempt(t)
          /\ phase' = [phase EXCEPT ![t] = "find"]
          /\ UNCHANGED <<record, outcome>>
    /\ UNCHANGED <<engineVars, attempt, polls, reply, runs, brokerVars>>

\* "RECONCILE BEFORE RETRYING".  An order found here is returned as FILLED
\* and the record is left as it is.
FindBeforeRetry(t) ==
    /\ phase[t] = "find"
    /\ \E found \in FindAnswers(t) :
          \/ found /\ Return(t, "FILLED") /\ UNCHANGED attempt
          \/ ~found /\ Retry(t) /\ UNCHANGED outcome
    /\ UNCHANGED <<engineVars, polls, reply, runs, record, brokerVars>>

\* ABORT and ABORT_AND_ALERT.
OnAbort(t) ==
    /\ phase[t] = "reply" /\ reply[t] = "abort"
    /\ Abandon(t)
    /\ UNCHANGED <<engineVars, attempt, polls, reply, runs, brokerVars>>

\* KILL_SWITCH and UNKNOWN.
OnKill(t) ==
    /\ phase[t] = "reply" /\ reply[t] = "kill"
    /\ halts' = halts \cup {"SYSTEM_ERROR"}
    /\ Abandon(t)
    /\ UNCHANGED <<mode, crashes, attempt, polls, reply, runs, brokerVars>>

\* _reconcile(): one poll of the loop.
Poll(t) ==
    /\ phase[t] = "poll" /\ polls[t] < MaxPolls
    /\ polls' = [polls EXCEPT ![t] = @ + 1]
    /\ \E found \in FindAnswers(t) :
          \/ found /\ Persist(t, "FILLED") /\ Return(t, "FILLED")
          \/ ~found /\ UNCHANGED <<record, phase, outcome>>
    /\ UNCHANGED <<engineVars, attempt, reply, runs, brokerVars>>

\* _reconcile(): the deadline passes without an answer.
GiveUp(t) ==
    /\ phase[t] = "poll" /\ polls[t] > 0
    /\ halts' = halts \cup {"STATE_DIVERGENCE"}
    /\ Persist(t, "RECONCILING")
    /\ Return(t, "RECONCILING")
    /\ UNCHANGED <<mode, crashes, attempt, polls, reply, runs, brokerVars>>

-----------------------------------------------------------------------------
(* The engine process: crash, restart, startup reconciliation.             *)

\* Everything in memory is gone: the executions and the kill switch.
Crash ==
    /\ mode # "down" /\ crashes < MaxCrashes
    /\ crashes' = crashes + 1
    /\ mode' = "down"
    /\ halts' = {}
    /\ phase' = [t \in Tags |-> "idle"]
    /\ attempt' = [t \in Tags |-> 0]
    /\ polls' = [t \in Tags |-> 0]
    /\ reply' = [t \in Tags |-> "none"]
    /\ outcome' = [t \in Tags |-> "none"]
    /\ record' = IF Durable THEN record ELSE [t \in Tags |-> "none"]
    /\ UNCHANGED <<runs, brokerVars>>

Restart ==
    /\ mode = "down"
    /\ mode' = "starting"
    /\ UNCHANGED <<halts, crashes, threadVars, record, brokerVars>>

\* reconcile_unresolved(): the verdict on one tag left open by a crash.
ResolveAtStartup(t) ==
    /\ mode = "starting" /\ record[t] \in Unresolved
    /\ \E found \in FindAnswers(t) :
          Persist(t, IF found THEN "FILLED" ELSE "ABANDONED")
    /\ UNCHANGED <<engineVars, threadVars, brokerVars>>

EngineReady ==
    /\ mode = "starting" /\ \A t \in Tags : record[t] \notin Unresolved
    /\ mode' = "up"
    /\ UNCHANGED <<halts, crashes, threadVars, record, brokerVars>>

-----------------------------------------------------------------------------
(* The server.                                                             *)

\* A queued send is executed after the caller stopped waiting for it.  The
\* bridge worker does not withdraw the job of a submit() that timed out; its
\* queue is first in, first out, so the queries behind that job time out too
\* (FindFails), unless it is the trade server that holds the order.
Land(t) ==
    /\ inflight[t] > 0
    /\ inflight' = [inflight EXCEPT ![t] = @ - 1]
    /\ open' = [open EXCEPT ![t] = @ + 1]
    /\ recent' = [recent EXCEPT ![t] = TRUE]
    /\ landed' = [landed EXCEPT ![t] = TRUE]
    /\ UNCHANGED <<engineVars, threadVars, record, acknowledged>>

Lose(t) ==
    /\ inflight[t] > 0
    /\ inflight' = [inflight EXCEPT ![t] = @ - 1]
    /\ UNCHANGED <<engineVars, threadVars, record, open, recent, landed, acknowledged>>

\* A stop, a target or a hand on the terminal closes a position.
ServerCloses(t) ==
    /\ open[t] > 0
    /\ open' = [open EXCEPT ![t] = @ - 1]
    /\ UNCHANGED <<engineVars, threadVars, record, inflight, recent, landed, acknowledged>>

\* The ten minutes of find_by_tag's history window pass.  An execution is
\* much shorter, so they do not pass during one.
HistoryAges(t) ==
    /\ recent[t] /\ phase[t] = "idle"
    /\ recent' = [recent EXCEPT ![t] = FALSE]
    /\ UNCHANGED <<engineVars, threadVars, record, open, inflight, landed, acknowledged>>

-----------------------------------------------------------------------------
Execute(t) ==
    \/ GuardRefuses(t) \/ GuardPasses(t) \/ QuoteRefuses(t) \/ QuotePasses(t)
    \/ Send(t) \/ OnFilled(t) \/ OnAmbiguous(t) \/ OnReprice(t)
    \/ OnTransient(t) \/ FindBeforeRetry(t) \/ OnAbort(t) \/ OnKill(t)
    \/ Poll(t) \/ GiveUp(t)

Server(t) == Land(t) \/ Lose(t) \/ ServerCloses(t) \/ HistoryAges(t)

Next ==
    \/ \E t \in Tags : Approve(t) \/ Execute(t) \/ ResolveAtStartup(t) \/ Server(t)
    \/ Crash \/ Restart \/ EngineReady

Spec == Init /\ [][Next]_vars

\* A thread inside execute() runs on: it holds no lock between calls and
\* every network call has a timeout.  The server owes nothing.
Fairness ==
    /\ \A t \in Tags : WF_vars(Execute(t)) /\ WF_vars(ResolveAtStartup(t))
    /\ WF_vars(EngineReady)

FairSpec == Spec /\ Fairness

-----------------------------------------------------------------------------
(* Properties                                                              *)

TypeOK ==
    /\ mode \in {"down", "starting", "up"}
    /\ halts \subseteq Reasons
    /\ phase \in [Tags -> Phases]
    /\ attempt \in [Tags -> Nat]
    /\ polls \in [Tags -> Nat]
    /\ reply \in [Tags -> Replies \cup {"none"}]
    /\ record \in [Tags -> Statuses \cup {"none"}]
    /\ outcome \in [Tags -> {"none", "FILLED", "ABANDONED", "RECONCILING"}]
    /\ runs \in [Tags -> Nat]
    /\ open \in [Tags -> Nat]
    /\ inflight \in [Tags -> Nat]
    /\ recent \in [Tags -> BOOLEAN]
    /\ landed \in [Tags -> BOOLEAN]
    /\ acknowledged \in [Tags -> BOOLEAN]
    /\ crashes \in Nat

\* One intended trade never becomes two positions: not by a retry after a
\* transient failure, not by a second execution of the same tag, not by one
\* after a crash.
AtMostOneOpen == \A t \in Tags : open[t] <= 1

\* Whatever is recorded or returned as FILLED was executed by the server, or
\* the server has said so: no path through a retry, a poll or a startup takes an
\* order of which nothing is known for a fill.
FilledIsFounded ==
    \A t \in Tags :
        "FILLED" \in {record[t], outcome[t]} => landed[t] \/ acknowledged[t]

\* While the engine trades, a record left in RECONCILING by a finished
\* execution comes with a tripped kill switch (rule 3 of the module).
UnknownHalts ==
    \A t \in Tags :
        mode = "up" /\ record[t] = "RECONCILING" /\ phase[t] = "idle"
            => "STATE_DIVERGENCE" \in halts

\* Rule 2: an execution whose send was ambiguous sends nothing any more.
AmbiguousNeverResent ==
    \A t \in Tags :
        reply[t] = "ambiguous" => phase[t] \notin {"quote", "send", "find"}

\* No execution makes more than max_send_retries + 1 sends.
AttemptsWithinBudget == \A t \in Tags : attempt[t] <= MaxAttempts

\* The order manager keeps the promises of TradeIntent.
Intent == INSTANCE TradeIntent WITH held <- open, ever <- landed, told <- outcome
ImplementsTradeIntent == Intent!Spec

\* Every execution comes to a verdict: the retries and the polls are finite.
ExecutionEnds ==
    \A t \in Tags : phase[t] # "idle" ~> phase[t] = "idle"

\* A restart leaves no order behind unresolved: startup reconciliation ends,
\* by being complete or by another crash.
StartupEnds == mode = "starting" ~> mode # "starting"

\* Nothing that was begun with the broker goes on for ever: a thread that trades
\* is free again, and so is an engine that starts.
CallsEnd == ExecutionEnds /\ StartupEnds

-----------------------------------------------------------------------------
(* What the texts say besides, and what does not hold of the program.      *)

\* Rule 1: an order that may exist at the server has a record, so that a
\* restart knows the tag it must ask about.  The callback must store it.
IntentRecorded ==
    \A t \in Tags : landed[t] \/ inflight[t] > 0 => record[t] # "none"

\* What FILLED says: the order was executed.  A placed order need not be.
FilledIsReal ==
    \A t \in Tags : "FILLED" \in {record[t], outcome[t]} => landed[t]

\* What ABANDONED, a terminal status, says of an order: nothing is open.
AbandonedIsAbsent == \A t \in Tags : record[t] = "ABANDONED" => open[t] = 0

=============================================================================
