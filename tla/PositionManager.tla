--------------------------- MODULE PositionManager ---------------------------
(***************************************************************************)
(* execution/position_manager.py: what happens to a position after entry.  *)
(*                                                                         *)
(* Prices are levels measured in the direction of the trade: a higher      *)
(* level is better for the position, LONG or SHORT, and a stop at a higher *)
(* level risks less.  Level 0 is "no stop".  A pass of manage() over one   *)
(* position is cut at its broker calls, because the server may close the   *)
(* position between two of them.                                           *)
(***************************************************************************)
EXTENDS Integers, FiniteSets

CONSTANTS
    Tickets,
    MaxLevel,    \* bound: price levels
    PlanStop,    \* the stop of the plan, in effect from the entry
    BreakEven,   \* entry + break_even_offset_r
    BreakEvenAt, \* from this price on, break_even_at_r is reached
    PartialAt,   \* from this price on, the primary target is reached
    TrailAt,     \* from this price on, trail_activate_r is reached
    Lots,        \* the volume of an entry, in units of volume_min
    PartialTP,   \* execution.partial_tp_enabled
    Trailed,     \* the tickets whose passes get a snapshot of the market
    Naked,       \* the tickets the server may open without the requested stop
    Unconfirmed  \* the tickets on which a call may take effect unconfirmed

Levels == 1..MaxLevel

ASSUME LevelAssumption ==
    /\ MaxLevel \in Nat
    /\ {PlanStop, BreakEven, BreakEvenAt, PartialAt, TrailAt} \subseteq Levels
    /\ PlanStop < BreakEven /\ BreakEven < BreakEvenAt
    /\ Lots \in Nat \ {0}
ASSUME TicketSwitches ==
    /\ PartialTP \in BOOLEAN
    /\ Trailed \subseteq Tickets /\ Naked \subseteq Tickets
    /\ Unconfirmed \subseteq Tickets

NoTicket == "none"

ASSUME TicketAssumption == NoTicket \notin Tickets

VARIABLES
    managed,    \* the tickets in PositionManager.positions
    belief,     \* [Tickets -> current_stop]
    movedToBE,  \* [Tickets -> moved_to_be]
    partial,    \* [Tickets -> partial_taken]
    remaining,  \* [Tickets -> remaining]
    cur,        \* the ticket the pass is at, or NoTicket
    rule,      \* the rule of manage() that comes next
    price,      \* the quote the pass works with
    sl,         \* [Tickets -> the stop at the server]
    volume,     \* [Tickets -> the volume open at the server]
    opened,     \* the tickets that have ever been opened
    reductions  \* [Tickets -> partial closes executed by the server]

managerVars == <<managed, belief, movedToBE, partial, remaining>>
passVars == <<cur, rule, price>>
heldVars == <<sl, volume, opened, reductions>>
positionVars == <<managerVars, passVars, heldVars>>

Rules == {"break_even", "partial", "trail", "exit"}

PositionInit ==
    /\ managed = {}
    /\ belief = [t \in Tickets |-> 0]
    /\ movedToBE = [t \in Tickets |-> FALSE]
    /\ partial = [t \in Tickets |-> FALSE]
    /\ remaining = [t \in Tickets |-> 0]
    /\ cur = NoTicket /\ rule = "break_even" /\ price = 1
    /\ sl = [t \in Tickets |-> 0]
    /\ volume = [t \in Tickets |-> 0]
    /\ opened = {}
    /\ reductions = [t \in Tickets |-> 0]

-----------------------------------------------------------------------------
(* One mutating call to the broker.                                        *)

\* What the caller learns (ok) and whether the server did it (done).  A call
\* on a position the server has closed fails; an unconfirmed one may be done.
Verdicts(t) ==
    IF volume[t] = 0
    THEN {[ok |-> FALSE, done |-> FALSE]}
    ELSE {[ok |-> TRUE, done |-> TRUE], [ok |-> FALSE, done |-> FALSE]}
           \cup (IF t \in Unconfirmed THEN {[ok |-> FALSE, done |-> TRUE]} ELSE {})

\* Mutation: a confirmed move is not written into current_stop.
ModifyStop_Lagging(t, new) ==
    /\ new >= belief[t]
    /\ \E a \in Verdicts(t) :
          /\ sl' = IF a.done THEN [sl EXCEPT ![t] = new] ELSE sl
          /\ movedToBE' = [movedToBE EXCEPT ![t] = @ \/ (rule = "break_even" /\ a.ok)]
    /\ UNCHANGED belief

\* modify_stop(): refuses a wider stop than the one it believes in, and the
\* belief follows only a confirmed move.
ModifyStop(t, new) ==
    /\ new >= belief[t]
    /\ \E a \in Verdicts(t) :
          /\ sl' = IF a.done THEN [sl EXCEPT ![t] = new] ELSE sl
          /\ belief' = IF a.ok THEN [belief EXCEPT ![t] = new] ELSE belief
          /\ movedToBE' = [movedToBE EXCEPT ![t] = @ \/ (rule = "break_even" /\ a.ok)]

Improves(t, new) == new > belief[t]

GoTo(next) == rule' = next /\ UNCHANGED <<cur, price>>

EndPass == cur' = NoTicket /\ rule' = "break_even" /\ UNCHANGED price

-----------------------------------------------------------------------------
(* adopt(): an entry has been filled and the engine registers it.          *)

\* position.stop_loss or plan.stop_loss: with no stop at the server the
\* manager believes in the plan's.
Adopt(t) ==
    /\ t \notin opened
    /\ \E s \in {PlanStop} \cup (IF t \in Naked THEN {0} ELSE {}) :
          /\ sl' = [sl EXCEPT ![t] = s]
          /\ belief' = [belief EXCEPT ![t] = IF s = 0 THEN PlanStop ELSE s]
    /\ managed' = managed \cup {t}
    /\ opened' = opened \cup {t}
    /\ volume' = [volume EXCEPT ![t] = Lots]
    /\ remaining' = [remaining EXCEPT ![t] = Lots]
    /\ UNCHANGED <<movedToBE, partial, passVars, reductions>>

-----------------------------------------------------------------------------
(* manage(): one pass over one position, rule by rule.                     *)

StartPass(t) ==
    /\ cur = NoTicket /\ t \in managed
    /\ cur' = t /\ rule' = "break_even"
    /\ price' \in Levels
    /\ UNCHANGED <<managerVars, heldVars>>

WantsBreakEven(t) ==
    ~movedToBE[t] /\ price >= BreakEvenAt /\ Improves(t, BreakEven)

\* 2) break-even.  _safe_modify may find the new stop too close to the price.
BreakEvenRule(t) ==
    /\ cur = t /\ rule = "break_even"
    /\ WantsBreakEven(t)
    /\ ModifyStop(t, BreakEven)
    /\ GoTo("partial")
    /\ UNCHANGED <<managed, partial, remaining, volume, opened, reductions>>

NoBreakEven(t) ==
    /\ cur = t /\ rule = "break_even"
    \* no wish, or a wish inside the stops level or the freeze level
    /\ GoTo("partial")
    /\ UNCHANGED <<managerVars, heldVars>>

Half(t) == remaining[t] \div 2

\* Mutation: the partial close is not remembered.
PartialDone_Forgets(t) == UNCHANGED partial

PartialDone(t) == partial' = [partial EXCEPT ![t] = TRUE]

WantsPartial(t) ==
    PartialTP /\ ~partial[t] /\ price >= PartialAt /\ Half(t) >= 1

\* 3) partial take-profit: half of what the manager believes is left.  The
\* server refuses to close more than it holds.
PartialRule(t) ==
    /\ cur = t /\ rule = "partial"
    /\ WantsPartial(t)
    /\ \E a \in Verdicts(t) :
          LET done == a.done /\ volume[t] >= Half(t) IN
          /\ a.ok => done
          /\ IF done
             THEN /\ volume' = [volume EXCEPT ![t] = @ - Half(t)]
                  /\ reductions' = [reductions EXCEPT ![t] = @ + 1]
             ELSE UNCHANGED <<volume, reductions>>
          /\ IF a.ok
             THEN remaining' = [remaining EXCEPT ![t] = @ - Half(t)] /\ PartialDone(t)
             ELSE UNCHANGED <<remaining, partial>>
    /\ GoTo("trail")
    /\ UNCHANGED <<managed, belief, movedToBE, sl, opened>>

NoPartial(t) ==
    /\ cur = t /\ rule = "partial" /\ ~WantsPartial(t)
    /\ GoTo("trail")
    /\ UNCHANGED <<managerVars, heldVars>>

\* 4) structural trailing: behind the most recent swing below the price.
TrailRule(t) ==
    /\ cur = t /\ rule = "trail"
    /\ t \in Trailed /\ price >= TrailAt
    /\ \E new \in {l \in Levels : l < price} :
          Improves(t, new) /\ ModifyStop(t, new)
    /\ GoTo("exit")
    /\ UNCHANGED <<managed, partial, remaining, volume, opened, reductions>>

NoTrail(t) ==
    /\ cur = t /\ rule = "trail"
    \* no snapshot, no swing, no improvement, or too close to the price
    /\ GoTo("exit")
    /\ UNCHANGED <<managerVars, heldVars>>

\* Mutation: _close() forgets the position whatever the broker answered.
Forget_Always(t, ok) == managed' = managed \ {t}

\* _close(): the position leaves the book only when the close is confirmed.
Forget(t, ok) == managed' = IF ok THEN managed \ {t} ELSE managed

\* 5) time stop, 6) invalidation, 7) weekend: each closes the position.
ExitRule(t) ==
    /\ cur = t /\ rule = "exit"
    /\ \E a \in Verdicts(t) :
          /\ volume' = IF a.done THEN [volume EXCEPT ![t] = 0] ELSE volume
          /\ Forget(t, a.ok)
    /\ EndPass
    /\ UNCHANGED <<belief, movedToBE, partial, remaining, sl, opened, reductions>>

NoExit(t) ==
    /\ cur = t /\ rule = "exit"
    /\ EndPass
    /\ UNCHANGED <<managerVars, heldVars>>

-----------------------------------------------------------------------------
\* The server executes a stop or a target.
TicketCloses(t) ==
    /\ volume[t] > 0
    /\ volume' = [volume EXCEPT ![t] = 0]
    /\ UNCHANGED <<managerVars, passVars, sl, opened, reductions>>

Pass(t) ==
    \/ BreakEvenRule(t) \/ NoBreakEven(t) \/ PartialRule(t) \/ NoPartial(t)
    \/ TrailRule(t) \/ NoTrail(t) \/ ExitRule(t) \/ NoExit(t)

PositionNext ==
    \E t \in Tickets : Adopt(t) \/ StartPass(t) \/ Pass(t) \/ TicketCloses(t)

PositionSpec == PositionInit /\ [][PositionNext]_positionVars

\* The tick loop comes round every second and serves every position.
PositionFairness == \A t \in Tickets : WF_positionVars(Pass(t)) /\ SF_positionVars(StartPass(t))

PositionFairSpec == PositionSpec /\ PositionFairness

-----------------------------------------------------------------------------
(* Properties                                                              *)

PositionTypeOK ==
    /\ managed \subseteq Tickets
    /\ belief \in [Tickets -> 0..MaxLevel]
    /\ movedToBE \in [Tickets -> BOOLEAN]
    /\ partial \in [Tickets -> BOOLEAN]
    /\ remaining \in [Tickets -> Nat]
    /\ cur \in Tickets \cup {NoTicket}
    /\ rule \in Rules
    /\ price \in Levels
    /\ sl \in [Tickets -> 0..MaxLevel]
    /\ volume \in [Tickets -> Nat]
    /\ opened \subseteq Tickets
    /\ reductions \in [Tickets -> Nat]

\* "Stops are NEVER widened": the stop at the server never moves away from
\* the price nor disappears while the position is open -- unless calls go
\* unconfirmed on a position that is trailed.
StopKept ==
    \A t \in Tickets \ (Trailed \cap Unconfirmed) : volume[t] > 0 => sl'[t] >= sl[t]
StopNeverWidens == [][StopKept]_positionVars

\* The stop the manager reasons with is the one at the server.
BeliefIsServers ==
    \A t \in managed \ (Naked \cup Unconfirmed) : volume[t] > 0 => belief[t] = sl[t]

\* A position that was moved to break-even stays protected at break-even.
BreakEvenHolds ==
    \A t \in managed \ (Trailed \cap Unconfirmed) :
        movedToBE[t] /\ volume[t] > 0 => sl[t] >= BreakEven

\* The partial profit is taken once.
PartialOnce == \A t \in Tickets \ Unconfirmed : reductions[t] <= 1

\* What a rule of manage() has done stays done, over the passes that follow.
RulesHold == BreakEvenHolds /\ PartialOnce

\* A position leaves the manager's book only when it is closed at the server:
\* nothing that can still lose money is left without a manager.
ForgottenIsClosed == \A t \in opened \ managed : volume[t] = 0

\* The manager's book is true: it holds every open position, each with the stop
\* that the server has, if its opening and its answers were confirmed.
BookIsTrue == BeliefIsServers /\ ForgottenIsClosed

\* "A position without a server-side stop is not permitted to persist."
NakedNotKept ==
    \A t \in Tickets :
        t \in managed /\ volume[t] > 0 /\ sl[t] = 0 ~> sl[t] # 0 \/ volume[t] = 0

=============================================================================
