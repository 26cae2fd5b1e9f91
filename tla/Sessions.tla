------------------------------- MODULE Sessions -------------------------------
(***************************************************************************)
(* core/sessions.py: the trading sessions and the edges of the week, from  *)
(* the hours of three cities of which two move with their summer times.    *)
(*                                                                         *)
(* Time is counted in half hours of UTC from Sunday midnight, which every  *)
(* boundary of the configuration is a multiple of.  The clocks change on   *)
(* Sundays, when the market is closed.                                     *)
(***************************************************************************)
EXTENDS Integers

CONSTANTS
    AsiaStart, AsiaEnd,                         \* of UTC
    LondonStart, LondonEnd, NewYorkStart, NewYorkEnd, \* of local time
    Sessions, Weekdays, \* allowed_sessions, allowed_weekdays (Monday is 0)
    BlockFirst, BlockLast \* the edges of the week in which nothing is entered

VARIABLES
    now,      \* half hours since Sunday midnight
    summer    \* the cities that have summer time

vars == <<now, summer>>

Day == 48
Week == 7 * Day
Hour(h) == 2 * h

\* Summer time begins earlier and ends later in New York than in London.
Seasons == {{}, {"NewYork"}, {"London", "NewYork"}}

\* The offset of a city from UTC.
Offset(city) ==
    (CASE city = "NewYork" -> 0 - Hour(5) [] OTHER -> 0) + (IF city \in summer THEN Hour(1) ELSE 0)

Local(city, t) == (t + Offset(city)) % Day
OfDay(t) == t % Day
Weekday(t) == (t \div Day + 6) % 7

\* _in_local_window(): windows may cross midnight.
Within(t, from, to) == IF from <= to THEN from <= t /\ t < to ELSE t >= from \/ t < to

-----------------------------------------------------------------------------
(* SessionEngine.                                                          *)

InLondon(t) == Within(Local("London", t), LondonStart, LondonEnd)
InNewYork(t) == Within(Local("NewYork", t), NewYorkStart, NewYorkEnd)
InAsia(t) == Within(OfDay(t), AsiaStart, AsiaEnd)

SessionFor(t) ==
    CASE InLondon(t) /\ InNewYork(t) -> "OVERLAP"
      [] InLondon(t) /\ ~InNewYork(t) -> "LONDON"
      [] ~InLondon(t) /\ InNewYork(t) -> "NEW_YORK"
      [] OTHER -> IF InAsia(t) THEN "ASIA" ELSE "OFF"

IsMarketOpen(t) ==
    /\ Weekday(t) # 5
    /\ Weekday(t) = 6 => OfDay(t) >= Hour(22)
    /\ Weekday(t) = 4 => OfDay(t) < Hour(21)

\* minutes_into_session(): since the hour of the day at which the session opens.
Into(t, session) ==
    CASE session = "OFF" -> 0
      [] session \in {"LONDON", "OVERLAP"} -> (Local("London", t) - LondonStart) % Day
      [] session = "NEW_YORK" -> (Local("NewYork", t) - NewYorkStart) % Day
      [] OTHER -> (OfDay(t) - AsiaStart) % Day

\* minutes_to_week_close(), until the next Friday 21:00.
ToWeekClose(t) == ((5 * Day + Hour(21)) - t) % Week

\* minutes_since_week_open(), since the last Sunday 22:00.
SinceWeekOpen(t) == (t - Hour(22)) % Week

IsTradableWindow(t) ==
    /\ IsMarketOpen(t)
    /\ Weekday(t) \in Weekdays
    /\ SessionFor(t) \in Sessions
    /\ SinceWeekOpen(t) >= BlockFirst
    /\ ToWeekClose(t) >= BlockLast

\* Mutation: the opening hour is one of UTC.
Opening_Utc(t, city, hour) == t - ((OfDay(t) - hour) % Day)

\* The last time that it was that hour in the city.
Opening(t, city, hour) == t - ((Local(city, t) - hour) % Day)

\* session_bounds(): that of Asia begins tonight, unless this night's has not ended.
SessionStart(t, session) ==
    CASE session = "ASIA" -> t - OfDay(t) + AsiaStart - (IF OfDay(t) < AsiaEnd THEN Day ELSE 0)
      [] session \in {"LONDON", "OVERLAP"} -> Opening(t, "London", LondonStart)
      [] OTHER -> Opening(t, "NewYork", NewYorkStart)

\* session_state(): the high and the low are those of the bars since then.
RangeStart(t) == SessionStart(t, SessionFor(t))

\* asia_range() has a high and a low if a bar has opened since the session did.
AsiaKnown(t) == SessionStart(t, "ASIA") < t

-----------------------------------------------------------------------------
TimePasses == now + 1 < Week /\ now' = now + 1 /\ UNCHANGED summer

\* A Sunday, on which clocks may change.
NewWeek == now + 1 = Week /\ now' = 0 /\ summer' \in Seasons

SessionsInit == now \in 0..Week - 1 /\ summer \in Seasons
SessionsNext == TimePasses \/ NewWeek
SessionsSpec == SessionsInit /\ [][SessionsNext]_vars

-----------------------------------------------------------------------------
(* Properties                                                              *)

\* The hours of a city's exchange.
HoursOf(session, t) ==
    CASE session \in {"LONDON", "OVERLAP"} -> InLondon(t)
      [] session = "NEW_YORK" -> InNewYork(t)
      [] OTHER -> InAsia(t)

\* The high and the low of the running session are taken over that session so
\* far, all of it and nothing else, in every season; and the minutes that the
\* strategies count are those since the same opening.
RangeIsSession ==
    LET s == SessionFor(now) IN
    s # "OFF" =>
        LET start == RangeStart(now) IN
        /\ start <= now /\ Into(now, s) = now - start
        /\ \A t \in start..now : HoursOf(s, t)
        /\ ~HoursOf(s, start - 1)

\* The metal trades from 18:00 to 17:00 of New York.
Trades(t) ==
    LET ny == Local("NewYork", t)
        day == Weekday(t + Offset("NewYork") + Week) IN
    /\ day # 5 /\ (day = 6 => ny >= Hour(18)) /\ (day = 4 => ny < Hour(17))

\* The edges of the week are fixed in UTC, those of the market move with New
\* York: in every season there is still no entry in the first hour of trading
\* nor in the last two.
EdgesQuiet ==
    IsTradableWindow(now) => \A t \in now - Hour(1)..now + Hour(2) - 1 : Trades(t)

\* What a comment says of the calendar filter: "the weekend gap and the daily
\* rollover break are still refused".
BreakRefused == IsTradableWindow(now) => Local("NewYork", now) # Hour(17)

\* "the reference for the London open": a strategy that looks for the sweep of
\* the Asian range in the first hours of London knows the range.
AsiaKnownInLondon ==
    IsMarketOpen(now) /\ SessionFor(now) \in {"LONDON", "OVERLAP"} /\ Into(now, SessionFor(now)) <= Hour(4)
        => AsiaKnown(now)
=============================================================================
