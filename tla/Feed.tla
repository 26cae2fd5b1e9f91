-------------------------------- MODULE Feed --------------------------------
(***************************************************************************)
(* Time and prices: what the engine takes for now, for today and for the   *)
(* market.  The tick loop measures the broker's clock and the age of the   *)
(* quote; a decision cycle takes the instant, a quote and the closed bars  *)
(* of a MarketView, decides, and an order is checked against a new quote.  *)
(*                                                                         *)
(* Every stamp that MetaTrader gives is its server's time, which runs      *)
(* Ahead of UTC; the adapter labels it UTC.  There is one decision thread. *)
(***************************************************************************)
EXTENDS Integers, FiniteSets, FiniteSetsExt

CONSTANTS
    Ahead,        \* the server's time less UTC
    BarLength,
    Count,        \* bars asked for
    MaxQuoteAge, MaxBarAge,
    Quarter,      \* the broker's offset is a multiple of it: 900 seconds
    DayLength, MaxTrades,
    MaxPause,     \* bound: how long the market pauses
    Horizon       \* bound: the last instant

VARIABLES
    now,     \* UTC
    ticks,   \* the instants at which the market ticked
    offset,  \* BrokerClock.offset_seconds
    stale,   \* KillSwitchReason.STALE_DATA
    day, trades, \* Engine._day and trades_today
    cycle    \* the decision in progress: [pc, at, quote, bars]

feedVars == <<now, ticks, offset, stale, day, trades, cycle>>

-----------------------------------------------------------------------------
(* The terminal.                                                           *)

Server(t) == t + Ahead
BarOf(t) == Server(t) \div BarLength

LastTick == Max(ticks)

\* symbol_info_tick(), labelled UTC.
Quote == Server(LastTick)

\* copy_rates_from_pos(0, Count): the newest bars, the last of them as far as
\* it has come.  A bar is its opening, as labelled, and the ticks in it.
RateOf(k, t) == [ts |-> k * BarLength, ticks |-> {u \in ticks : u <= t /\ BarOf(u) = k}]

Rates ==
    LET known == {BarOf(t) : t \in ticks}
    IN {RateOf(k, now) : k \in {i \in known : Cardinality({j \in known : j > i}) < Count}}

-----------------------------------------------------------------------------
(* MarketView.                                                             *)

\* Mutation: a bar that has opened is visible.
Visible_Open(bars, at) == {b \in bars : b.ts <= at}

Visible(bars, at) == {b \in bars : b.ts <= at - BarLength}

Newest(bars) == CHOOSE b \in bars : \A c \in bars : c.ts <= b.ts

\* bar_age_seconds(), which is infinite when there is none.
BarIsCurrent(bars, at) == bars # {} /\ at - (Newest(bars).ts + BarLength) <= MaxBarAge

\* What a view over the stored history shows at an instant, as the backtest has
\* it: the bars are stored with the stamps that they have here.
Replay(at) ==
    LET closed == {k \in {BarOf(t) : t \in ticks} : (k + 1) * BarLength <= at}
    IN {RateOf(k, now) : k \in closed}

-----------------------------------------------------------------------------
(* BrokerClock.                                                            *)

\* round() takes a half to the even side.
Rounded(raw) ==
    LET k == raw \div Quarter
        up == 2 * (raw % Quarter) > Quarter \/ (2 * (raw % Quarter) = Quarter /\ k % 2 = 1)
    IN Quarter * (IF up THEN k + 1 ELSE k)

BrokerDay(t) == (t + offset) \div DayLength

-----------------------------------------------------------------------------

Idle == [pc |-> "idle", at |-> 0, quote |-> 0, bars |-> {}]

FeedInit ==
    /\ now = 0 /\ ticks = {0}
    /\ offset = 0 /\ stale = FALSE
    /\ day = 0 - 1 /\ trades = 0
    /\ cycle = Idle

\* An instant passes, with a tick or without.
TimePasses ==
    /\ now < Horizon
    /\ now' = now + 1
    /\ \/ ticks' = ticks \cup {now'}
       \/ now' - LastTick <= MaxPause /\ UNCHANGED ticks
    /\ UNCHANGED <<offset, stale, day, trades, cycle>>

\* _tick_loop(): the clock is measured, the quote judged.
Observe ==
    /\ offset' = Rounded(Quote - now)
    /\ stale' = (now - Quote > MaxQuoteAge)
    /\ UNCHANGED <<now, ticks, day, trades, cycle>>

\* _decision_cycle() and _scalp_scan() begin.
Wake ==
    /\ cycle.pc = "idle"
    /\ day' = BrokerDay(now)
    /\ trades' = IF day' # day THEN 0 ELSE trades
    /\ cycle' = [Idle EXCEPT !.pc = "woken", !.at = now]
    /\ UNCHANGED <<now, ticks, offset, stale>>

\* The account, the quote and the specification, or a BrokerError.
TakeQuote ==
    /\ cycle.pc = "woken"
    /\ \/ cycle' = [cycle EXCEPT !.pc = "quoted", !.quote = Quote]
       \/ cycle' = Idle
    /\ UNCHANGED <<now, ticks, offset, stale, day, trades>>

\* _BrokerBarSource.series(), empty when the broker fails, and MarketView._visible().
TakeBars ==
    /\ cycle.pc = "quoted"
    /\ \E rates \in {Rates, {}} :
         cycle' = [cycle EXCEPT !.pc = "seen", !.bars = Visible(rates, cycle.at)]
    /\ UNCHANGED <<now, ticks, offset, stale, day, trades>>

\* Mutation: the age of the quote is not looked at.
Permitted_Ageless ==
    BarIsCurrent(cycle.bars, cycle.at) /\ ~stale /\ trades < MaxTrades

Permitted ==
    /\ cycle.at - cycle.quote <= MaxQuoteAge
    /\ BarIsCurrent(cycle.bars, cycle.at)
    /\ ~stale
    /\ trades < MaxTrades

\* The pipeline says yes or no.
Decide ==
    /\ cycle.pc = "seen"
    /\ \/ Permitted /\ cycle' = [cycle EXCEPT !.pc = "sending"]
       \/ cycle' = Idle
    /\ UNCHANGED <<now, ticks, offset, stale, day, trades>>

\* OrderManager.preflight(), against the instant of the cycle, and the order.
Send ==
    /\ cycle.pc = "sending"
    /\ cycle' = Idle
    /\ IF cycle.at - Quote <= MaxQuoteAge
       THEN trades' = trades + 1
       ELSE UNCHANGED trades
    /\ UNCHANGED <<now, ticks, offset, stale, day>>

FeedNext == TimePasses \/ Observe \/ Wake \/ TakeQuote \/ TakeBars \/ Decide \/ Send

FeedSpec == FeedInit /\ [][FeedNext]_feedVars

-----------------------------------------------------------------------------
(* Properties                                                              *)

FeedTypeOK ==
    /\ now \in 0..Horizon /\ ticks \subseteq 0..now /\ ticks # {}
    /\ stale \in BOOLEAN /\ offset % Quarter = 0
    /\ cycle.pc \in {"idle", "woken", "quoted", "seen", "sending"}

\* Nothing downstream can tell live from replay: although the bars are fetched
\* after the instant of the cycle, the last of them still forming, the view is
\* the end of what a view over the finished history shows at that instant.
LiveIsReplay ==
    cycle.pc = "seen" =>
        /\ cycle.bars \subseteq Replay(cycle.at)
        /\ \A b \in Replay(cycle.at) \ cycle.bars : \A c \in cycle.bars : b.ts < c.ts

\* An order is only on its way when the quote and the bars it was decided on
\* were the market's: the last bar that had closed, by its stamp, and a quote
\* that was fresh, or older by no more than the given time.
DecidedWithin(more) ==
    cycle.pc = "sending" =>
        /\ \E t \in ticks : t >= cycle.at - MaxQuoteAge - more /\ Server(t) = cycle.quote
        /\ Newest(Replay(cycle.at)) \in cycle.bars

\* An order is only decided on a fresh quote: older ones are refused.
DecidedOnTheMarket == DecidedWithin(0)
=============================================================================
