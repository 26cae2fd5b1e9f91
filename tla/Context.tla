------------------------------- MODULE Context --------------------------------
(***************************************************************************)
(* What the engine knows of the world: the calendar, which a loop of its   *)
(* own reads every few minutes, and the blackouts that the three engines   *)
(* take from the last refresh, whatever its age.                           *)
(*                                                                         *)
(* The calendar is the curated schedule, the only provider the engine is   *)
(* wired to; no headline is assessed and macro data are always unknown.    *)
(***************************************************************************)
EXTENDS Integers

CONSTANTS
    Events,       \* the schedule: [ts, impact, relevance]
    Before, After, \* [impact -> minutes]
    Hour,
    Refreshed,    \* the loop sleeps so long
    Late,         \* bound: the loop is late by so much, no more
    Horizon       \* bound

VARIABLES
    now,
    context,  \* ContextCache: [at, known, risk, blackout]
    cycle,    \* a decision in progress: [engine, known, risk, blackout], or None
    sent      \* what is decided to be sent at this instant

contextVars == <<now, context, cycle, sent>>

Engines == {"aplus", "intraday", "scalp"}
None == [engine |-> "none", known |-> FALSE, risk |-> 0, blackout |-> FALSE]

\* NewsRisk.level
MODERATE == 1
HIGH == 2
EXTREME == 3

-----------------------------------------------------------------------------
(* The calendar.                                                           *)

MinRelevance == 4
Relevant(events) == {e \in events : e.relevance >= MinRelevance}

\* FallbackCalendarProvider, from six hours ago to twelve hours ahead.
Scheduled(t) == {e \in Events : t - 6 * Hour <= e.ts /\ e.ts <= t + 12 * Hour}

\* Mutation: an event that is out is no event any more.
InWindow_Upcoming(e, t) == e.ts - Before[e.impact] <= t /\ t <= e.ts

InWindow(e, t) == e.ts - Before[e.impact] <= t /\ t <= e.ts + After[e.impact]

\* After the window of a large event conditions must have become normal, as
\* far as they are known.
Unsettled(events, t, abnormal) ==
    /\ abnormal
    /\ \E e \in events : /\ e.impact \in {"CRITICAL", "HIGH"}
                         /\ e.ts <= t /\ t <= e.ts + After[e.impact] + Hour

\* CalendarFilter.evaluate(): is there a blackout?
Blackout(t, events, abnormal) ==
    LET relevant == Relevant(events)
    IN (\E e \in relevant : InWindow(e, t)) \/ Unsettled(relevant, t, abnormal)

\* NewsEngine.aggregate() of no headlines, from a feed of unknown age: so the
\* engine calls it.  No news is not calm.
News(t, blackout) ==
    [at |-> t, known |-> TRUE, risk |-> IF blackout THEN HIGH ELSE MODERATE, blackout |-> blackout]

\* UNKNOWN_NEWS
Unknown(t) == [at |-> t, known |-> FALSE, risk |-> MODERATE, blackout |-> FALSE]

-----------------------------------------------------------------------------

ContextInit ==
    /\ now = 0
    /\ context = Unknown(0)
    /\ cycle = None
    /\ sent = {}

\* A decision is done within the minute it began in; the loop of the context
\* is on time, or late by what it shares the process with.
TimePasses ==
    /\ now < Horizon /\ cycle = None
    /\ now < context.at + Refreshed + Late
    /\ now' = now + 1 /\ sent' = {}
    /\ UNCHANGED <<context, cycle>>

\* The process ends and starts again; nothing is stored.
Restarts ==
    /\ context' = Unknown(now) /\ cycle' = None
    /\ UNCHANGED <<now, sent>>

\* _context_loop(), _refresh_context(): conditions are not passed on.
Refresh ==
    /\ ~context.known \/ now >= context.at + Refreshed
    /\ context' = News(now, Blackout(now, Scheduled(now), FALSE))
    /\ UNCHANGED <<now, cycle, sent>>

\* analyze(): the snapshot takes what the last refresh left.
Analyze ==
    /\ cycle = None
    /\ \E e \in Engines :
         cycle' = [engine |-> e, known |-> context.known, risk |-> context.risk, blackout |-> context.blackout]
    /\ UNCHANGED <<now, context, sent>>

\* g_news_blackout and g_news_risk for A/A+; MarketRegimeController for the
\* others.
Permitted(c) ==
    /\ ~c.blackout
    /\ c.engine = "aplus" => c.risk < EXTREME
    /\ c.engine = "scalp" => c.risk < HIGH

Decide ==
    /\ cycle # None
    /\ \/ Permitted(cycle) /\ sent' = sent \cup {cycle}
       \/ UNCHANGED sent
    /\ cycle' = None
    /\ UNCHANGED <<now, context>>

ContextNext == TimePasses \/ Restarts \/ Refresh \/ Analyze \/ Decide

ContextSpec == ContextInit /\ [][ContextNext]_contextVars

-----------------------------------------------------------------------------
(* Properties                                                              *)

\* A window opens for the engines at the next refresh.  From then until it
\* closes nothing is sent, by any engine, although nothing looks at the age of
\* the context: never shortly before, at, or after a release.  Only a decision
\* taken after a start and before the first refresh knows of no release.
QuietAtNews ==
    (\E c \in sent : c.known) => \A e \in Relevant(Events) :
        \/ now <= e.ts - Before[e.impact] + Refreshed + Late
        \/ now > e.ts + After[e.impact]
=============================================================================
