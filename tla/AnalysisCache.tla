---------------------------- MODULE AnalysisCache ----------------------------
(***************************************************************************)
(* The analyzer's cache: one analyzer serves the decision cycle, in its    *)
(* worker thread, and the scalp scan, on the event loop.  An analysis is   *)
(* kept under a name with the time of the last closed bar of one series    *)
(* and is taken again while that bar is the last, whatever else it was     *)
(* made of.  Names do not meet, so a behaviour follows one of them.        *)
(*                                                                         *)
(* A series is the time of its last closed bar: closed bars are final.     *)
(***************************************************************************)
EXTENDS Integers, FiniteSets

CONSTANTS
    Readers,  \* the threads
    Length,   \* [series -> length of its bars], "M15", "H1", "H4" and "D1" among them
    Lag,      \* how long an analysis takes at most
    Start,    \* the first instant
    Horizon   \* bound: the last instant

VARIABLES
    key,   \* what is analysed: a series, "zones" or "levels"
    time,
    entry, \* the cache under that name: [ts, made], or None
    reader \* [thread -> [pc, at, bars, used]]

cacheVars == <<key, time, entry, reader>>

Series == DOMAIN Length

\* A fetch that failed: the series is empty.
Empty == 0 - 1

None == [ts |-> Empty, made |-> [s \in Series |-> Empty]]

-----------------------------------------------------------------------------
LastClosed(s, t) == (t \div Length[s] - 1) * Length[s]

\* The series that an analysis is made of; the weekly one, which serves as the
\* daily does, is left out.
Uses == CASE key = "zones"  -> {"M15", "H1", "D1"}
          [] key = "levels" -> {"H1", "H4", "D1"}
          [] OTHER          -> {key}

\* The series by which it is kept: the setup series, the longest, or its own.
KeptBy(bars) ==
    CASE key = "zones"  -> IF bars["M15"] # Empty THEN "M15" ELSE "H1"
      [] key = "levels" -> IF bars["D1"] # Empty THEN "D1" ELSE "H4"
      [] OTHER          -> key

\* Mutation: an entry that is newer will do.
Fits_Newer(ts) == entry.ts >= ts

Fits(ts) == entry.ts = ts

-----------------------------------------------------------------------------
Away == [pc |-> "away", at |-> 0, bars |-> None.made, used |-> None.made]

CacheInit ==
    /\ key \in Series \cup {"zones", "levels"}
    /\ time = Start
    /\ entry = None
    /\ reader = [r \in Readers |-> Away]

TimePasses ==
    /\ time < Horizon
    /\ \A r \in Readers : reader[r].pc # "away" => time < reader[r].at + Lag
    /\ time' = time + 1
    /\ UNCHANGED <<key, entry, reader>>

\* A view at this instant; one of the fetches may fail.
Fetch(r) ==
    /\ reader[r].pc = "away"
    /\ \E failed \in {{}} \cup {{s} : s \in Uses} :
         LET bars == [s \in Series |-> IF s \in Uses \ failed THEN LastClosed(s, time) ELSE Empty]
         IN reader' = [reader EXCEPT ![r] = [pc |-> "look", at |-> time, bars |-> bars,
                                             used |-> None.made]]
    /\ UNCHANGED <<key, time, entry>>

\* _cached(): the entry is taken, or the analysis is made; nothing is analysed
\* without bars.
Look(r) ==
    /\ reader[r].pc = "look"
    /\ LET bars == reader[r].bars
           ts == bars[KeptBy(bars)]
       IN reader' =
            IF ts = Empty THEN [reader EXCEPT ![r] = Away]
            ELSE IF Fits(ts) THEN [reader EXCEPT ![r].pc = "done", ![r].used = entry.made]
            ELSE [reader EXCEPT ![r].pc = "make"]
    /\ UNCHANGED <<key, time, entry>>

Make(r) ==
    /\ reader[r].pc = "make"
    /\ LET bars == reader[r].bars
       IN /\ entry' = [ts |-> bars[KeptBy(bars)], made |-> bars]
          /\ reader' = [reader EXCEPT ![r].pc = "done", ![r].used = bars]
    /\ UNCHANGED <<key, time>>

Leave(r) ==
    /\ reader[r].pc = "done"
    /\ reader' = [reader EXCEPT ![r] = Away]
    /\ UNCHANGED <<key, time, entry>>

CacheNext ==
    \/ TimePasses
    \/ \E r \in Readers : Fetch(r) \/ Look(r) \/ Make(r) \/ Leave(r)

-----------------------------------------------------------------------------
(* Properties                                                              *)

CacheTypeOK ==
    /\ time \in Start..Horizon
    /\ \A r \in Readers : reader[r].pc \in {"away", "look", "make", "done"}
    /\ DOMAIN entry.made = Series

Answered(bars) == \A s \in Uses : bars[s] # Empty

\* Whichever thread filled the cache, and in whatever order the two come to it,
\* an analysis is that of the last closed bar of the series it is kept by.  When
\* no fetch failed, neither now nor when the entry was made, structure and zones
\* are altogether those of the closed bars, and levels are of the same day,
\* though perhaps of another hour.  What failed is excepted with reason: an entry
\* made without a series serves until the next bar, and one that is kept by a
\* shorter series may bear the time of a bar of the longer.
AnalysisIsOwn ==
    \A r \in Readers :
        LET own == reader[r].bars
            used == reader[r].used
        IN reader[r].pc = "done" =>
             /\ KeptBy(used) = KeptBy(own) => used[KeptBy(own)] = own[KeptBy(own)]
             /\ key # "levels" /\ Answered(own) /\ Answered(used) => used = own
=============================================================================
