------------------------------- MODULE DeskProofs -------------------------------
(***************************************************************************)
(* What holds of the desk for every value of its constants.                *)
(***************************************************************************)
EXTENDS Desk, Arithmetic

-----------------------------------------------------------------------------
(* The parts.                                                              *)

-----------------------------------------------------------------------------
(* A step of the desk is a step of each part or leaves it alone.           *)

\* A step of the desk is a step of each part or a stutter of it.
LEMMA PartsMove ==
    ASSUME [DeskNext]_deskVars
    PROVE  /\ [Feed!FeedNext]_feedVars
           /\ [World!ContextNext]_worldVars
           /\ [Hours!SessionsNext]_hourVars
           /\ [History!HistoryNext]_historyVars
           /\ [Runner!JobNext]_jobsVars
           /\ [Cache!CacheNext]_cacheVars
           /\ [Intraday!Next]_intradayVars
           /\ [Scalps!ScalpNext]_scalpVars
           /\ [Plans!SetupsNext]_setupVars
<1>1. CASE FeedMoves
  BY <1>1 DEF FeedMoves, worldVars, hourVars, historyVars, jobsVars, cacheVars, intradayVars,
              scalpVars, setupVars
<1>2. CASE WorldMoves
  BY <1>2 DEF WorldMoves, feedVars, hourVars, historyVars, jobsVars, cacheVars, intradayVars,
              scalpVars, setupVars
<1>3. CASE HoursMove
  BY <1>3 DEF HoursMove, feedVars, worldVars, historyVars, jobsVars, cacheVars, intradayVars,
              scalpVars, setupVars
<1>4. CASE HistoryMoves
  BY <1>4 DEF HistoryMoves, feedVars, worldVars, hourVars, jobsVars, cacheVars, intradayVars,
              scalpVars, setupVars
<1>5. CASE JobsMove
  BY <1>5 DEF JobsMove, feedVars, worldVars, hourVars, historyVars, cacheVars, intradayVars,
              scalpVars, setupVars
<1>6. CASE CacheMoves
  BY <1>6 DEF CacheMoves, feedVars, worldVars, hourVars, historyVars, jobsVars, intradayVars,
              scalpVars, setupVars
<1>7. CASE IntradayMoves
  BY <1>7 DEF IntradayMoves, feedVars, worldVars, hourVars, historyVars, jobsVars, cacheVars,
              scalpVars, setupVars
<1>8. CASE ScalpsMove
  BY <1>8 DEF ScalpsMove, feedVars, worldVars, hourVars, historyVars, jobsVars, cacheVars, intradayVars,
              setupVars
<1>9. CASE SetupsMove
  BY <1>9 DEF SetupsMove, feedVars, worldVars, hourVars, historyVars, jobsVars, cacheVars, intradayVars,
              scalpVars
<1>10. CASE UNCHANGED deskVars
  BY <1>10 DEF deskVars, feedVars, worldVars, hourVars, historyVars, jobsVars, cacheVars, intradayVars,
               scalpVars, setupVars
<1> QED
  BY <1>1, <1>2, <1>3, <1>4, <1>5, <1>6, <1>7, <1>8, <1>9, <1>10 DEF DeskNext

-----------------------------------------------------------------------------
(* The jobs of the dashboard.                                              *)

\* A thread that has begun and not ended is that of the current job, which is
\* known; and what passed or failed was waited for.
JobsInv ==
    /\ Runner!JobTypeOK
    /\ thread \in [1..MaxJobs -> {"none", "spawning", "spawned", "reading", "ending", "done"}]
    /\ \A j \in 1..MaxJobs :
         /\ thread[j] \notin {"none", "done"} => current = j
         /\ thread[j] \notin {"none", "done"} => j \in known
         /\ thread[j] \in {"none", "spawning"} => child[j] = "none"
         /\ status[j] \in {"PASSED", "FAILED"} =>
               child[j] \in {"succeeded", "failed"} /\ thread[j] \in {"ending", "done"}
    /\ current # 0 => thread[current] \notin {"none", "done"}

\* No job is there at the start.
LEMMA JobsStart ==
    ASSUME Runner!JobInit
    PROVE  JobsInv
BY JobsAssumption DEF JobsInv, Runner!JobInit, Runner!JobTypeOK, Runner!Jobs

\* A thread that ends clears its own job, and none starts while one lives.
LEMMA JobsStep ==
    ASSUME JobsInv, [Runner!JobNext]_jobsVars
    PROVE  JobsInv'
<1> USE JobsAssumption DEF JobsInv, Runner!JobTypeOK, Runner!Jobs
<1>1. ASSUME NEW j \in 1..MaxJobs, Runner!JobStarts(j)
      PROVE  JobsInv'
  <2>1. \A i \in 1..MaxJobs : thread[i] \in {"none", "done"}
    BY <1>1 DEF Runner!JobStarts, Runner!Busy
  <2>2. known' \subseteq 1..MaxJobs /\ j \in known'
    BY <1>1 DEF Runner!JobStarts, Runner!Youngest
  <2> QED
    BY <1>1, <2>1, <2>2 DEF Runner!JobStarts, Runner!Busy
<1>2. ASSUME NEW j \in 1..MaxJobs, Runner!RunFails(j)
      PROVE  JobsInv'
  BY <1>2 DEF Runner!RunFails
<1>3. ASSUME NEW j \in 1..MaxJobs, Runner!Spawns(j)
      PROVE  JobsInv'
  BY <1>3 DEF Runner!Spawns
<1>4. ASSUME NEW j \in 1..MaxJobs, Runner!Publishes(j)
      PROVE  JobsInv'
  BY <1>4 DEF Runner!Publishes
<1>5. ASSUME NEW j \in 1..MaxJobs, Runner!Reaps(j)
      PROVE  JobsInv'
  BY <1>5 DEF Runner!Reaps
<1>6. ASSUME NEW j \in 1..MaxJobs, Runner!Clears(j)
      PROVE  JobsInv'
  BY <1>6 DEF Runner!Clears
<1>7. ASSUME NEW j \in 1..MaxJobs, Runner!Exits(j)
      PROVE  JobsInv'
  BY <1>7 DEF Runner!Exits
<1>8. CASE Runner!Cancel
  BY <1>8 DEF Runner!Cancel
<1>9. CASE UNCHANGED jobsVars
  BY <1>9 DEF jobsVars
<1> QED
  BY <1>1, <1>2, <1>3, <1>4, <1>5, <1>6, <1>7, <1>8, <1>9 DEF Runner!JobNext, Runner!JobThread

\* The current job is known and its thread lives, no other thread does, and what
\* passed or failed has no process left.
THEOREM OneJobRuns == DeskSpec => []JobsSerialised
<1>1. DeskInit => JobsInv
  BY JobsStart DEF DeskInit
<1>2. JobsInv /\ [DeskNext]_deskVars => JobsInv'
  BY PartsMove, JobsStep
<1>3. JobsInv => JobsSerialised
  BY JobsAssumption DEF JobsInv, JobsSerialised, Runner!JobsSerialised, Runner!JobTypeOK,
     Runner!Jobs, Runner!Busy
<1> QED
  BY <1>1, <1>2, <1>3, PTL DEF DeskSpec

-----------------------------------------------------------------------------
(* The calendar.                                                           *)

\* At some instant of the last Refreshed + Late the calendar showed no blackout.
Quiet(t) == ~World!Blackout(t, World!Scheduled(t), FALSE)
QuietLately == \E t \in clock - (Refreshed + Late)..clock : Quiet(t)

\* Whoever knows of the releases and of no blackout has it from such an instant:
\* the cache, a decision in progress and what is sent.
KnownLately ==
    /\ clock \in Nat
    /\ context.at \in Nat /\ context.at <= clock /\ clock <= context.at + Refreshed + Late
    /\ context.known /\ ~context.blackout => Quiet(context.at)
    /\ read.known /\ ~read.blackout => QuietLately
    /\ \A c \in sent : c.known => QuietLately

\* Nothing is known at the start.
LEMMA WorldStart ==
    ASSUME World!ContextInit
    PROVE  KnownLately
BY WorldAssumption DEF KnownLately, World!ContextInit, World!Unknown, World!None

\* What is known of a blackout ages by at most a refresh and a cycle.
LEMMA WorldStep ==
    ASSUME KnownLately, [World!ContextNext]_worldVars
    PROVE  KnownLately'
<1>0. Refreshed \in Nat /\ Late \in Nat
  BY WorldAssumption
<1>1. CASE World!TimePasses
  <2>1. /\ clock' = clock + 1 /\ clock < context.at + Refreshed + Late
        /\ context' = context /\ ~read'.known /\ sent' = {}
    BY <1>1 DEF World!TimePasses, World!None
  <2>2. /\ clock' \in Nat /\ context'.at \in Nat
        /\ context'.at <= clock' /\ clock' <= context'.at + Refreshed + Late
    BY <1>0, <2>1 DEF KnownLately
  <2>3. context'.known /\ ~context'.blackout => Quiet(context.at)'
    BY <2>1 DEF KnownLately, Quiet
  <2> QED
    BY <2>1, <2>2, <2>3 DEF KnownLately
<1>2. CASE World!Restarts
  <2>1. /\ clock' = clock /\ sent' = sent
        /\ context'.at = clock /\ ~context'.known /\ ~read'.known
    BY <1>2 DEF World!Restarts, World!Unknown, World!None
  <2>2. QuietLately => QuietLately'
    BY <2>1 DEF Quiet, QuietLately
  <2>3. /\ clock' \in Nat /\ context'.at \in Nat
        /\ context'.at <= clock' /\ clock' <= context'.at + Refreshed + Late
    BY <1>0, <2>1 DEF KnownLately
  <2> QED
    BY <2>1, <2>2, <2>3 DEF KnownLately
<1>3. CASE World!Refresh
  <2> DEFINE blackout == World!Blackout(clock, World!Scheduled(clock), FALSE)
  <2>1. /\ clock' = clock /\ sent' = sent /\ read' = read
        /\ context' = World!News(clock, blackout)
    BY <1>3 DEF World!Refresh
  <2>2. context'.at = clock /\ (~context'.blackout => Quiet(clock))
    BY <2>1 DEF World!News, Quiet
  <2>3. QuietLately => QuietLately'
    BY <2>1 DEF Quiet, QuietLately
  <2>4. context'.known /\ ~context'.blackout => Quiet(context.at)'
    BY <2>2 DEF Quiet
  <2> HIDE DEF blackout
  <2>5. /\ clock' \in Nat /\ context'.at \in Nat
        /\ context'.at <= clock' /\ clock' <= context'.at + Refreshed + Late
    BY <1>0, <2>1, <2>2 DEF KnownLately
  <2> QED
    BY <2>1, <2>3, <2>4, <2>5 DEF KnownLately
<1>4. CASE World!Analyze
  <2>1. /\ clock' = clock /\ sent' = sent /\ context' = context
        /\ read'.known = context.known /\ read'.blackout = context.blackout
    BY <1>4 DEF World!Analyze
  <2>2. Quiet(context.at) => QuietLately
    BY <1>0 DEF KnownLately, QuietLately
  <2> QED
    BY <1>0, <2>1, <2>2 DEF KnownLately, Quiet, QuietLately
<1>5. CASE World!Decide
  <2>1. clock' = clock /\ context' = context /\ ~read'.known
    BY <1>5 DEF World!Decide, World!None
  <2>2. \A c \in sent' : c \in sent \/ (c = read /\ ~read.blackout)
    <3>1. CASE World!Permitted(read) /\ sent' = sent \cup {read}
      BY <3>1 DEF World!Permitted
    <3>2. CASE sent' = sent
      BY <3>2, Zenon
    <3> QED
      BY <1>5, <3>1, <3>2, Zenon DEF World!Decide
  <2> QED
    BY <1>0, <2>1, <2>2 DEF KnownLately, Quiet, QuietLately
<1>6. CASE UNCHANGED worldVars
  BY <1>6 DEF worldVars, KnownLately, Quiet, QuietLately
<1> QED
  BY <1>1, <1>2, <1>3, <1>4, <1>5, <1>6 DEF World!ContextNext

\* Who knows of the releases from so recent an instant is quiet in their windows.
LEMMA KnownIsQuiet ==
    ASSUME KnownLately
    PROVE  QuietAtNews
<1> SUFFICES ASSUME NEW c \in sent, c.known, NEW e \in World!Relevant(Calendar),
                    clock > e.ts - WindowBefore[e.impact] + Refreshed + Late,
                    clock <= e.ts + WindowAfter[e.impact]
             PROVE  FALSE
  BY WorldAssumption DEF QuietAtNews, World!QuietAtNews, World!Relevant, KnownLately
<1>1. /\ e \in Calendar /\ e.relevance >= World!MinRelevance
      /\ e.ts \in Int /\ WindowBefore[e.impact] \in 0..12 * CalendarHour
      /\ WindowAfter[e.impact] \in 0..6 * CalendarHour
      /\ Refreshed \in Nat /\ Late \in Nat /\ CalendarHour \in Nat /\ clock \in Nat
  BY WorldAssumption DEF World!Relevant, KnownLately
<1>2. PICK t \in clock - (Refreshed + Late)..clock : Quiet(t)
  BY DEF KnownLately, QuietLately
<1>3. t \in Int /\ e.ts - WindowBefore[e.impact] <= t /\ t <= e.ts + WindowAfter[e.impact]
  BY <1>1, <1>2
<1>4. e \in World!Relevant(World!Scheduled(t))
  BY <1>1, <1>3 DEF World!Relevant, World!Scheduled
<1>5. World!InWindow(e, t)
  BY <1>3 DEF World!InWindow
<1> QED
  BY <1>2, <1>4, <1>5, Zenon DEF World!Blackout, Quiet

\* Although nothing looks at the age of the context, no engine that knows of the
\* releases sends between the refresh after a window's opening and its closing.
THEOREM NewsAreQuiet == DeskSpec => []QuietAtNews
<1>1. DeskInit => KnownLately
  BY WorldStart DEF DeskInit
<1>2. KnownLately /\ [DeskNext]_deskVars => KnownLately'
  BY PartsMove, WorldStep
<1> QED
  BY <1>1, <1>2, KnownIsQuiet, PTL DEF DeskSpec

-----------------------------------------------------------------------------
(* The analyzer's cache.                                                   *)

BarTimes == [DOMAIN Length -> Int]
Seats == [pc : {"away", "look", "make", "done"}, at : Int, bars : BarTimes, used : BarTimes]

\* The bars of one instant, of the series that are used, some of them missing.
IsView(b) ==
    \E t \in Int : \A s \in DOMAIN Length :
        b[s] = Cache!Empty \/ (s \in Cache!Uses /\ b[s] = Cache!LastClosed(s, t))

\* Who is done holds an analysis that is kept by the same bar as its own view.
ReaderOK(x) ==
    /\ x.pc # "away" => IsView(x.bars)
    /\ x.pc = "make" => x.bars[Cache!KeptBy(x.bars)] # Cache!Empty
    /\ x.pc = "done" =>
         IsView(x.used) /\ x.used[Cache!KeptBy(x.used)] = x.bars[Cache!KeptBy(x.bars)]

\* An entry with a time is an analysis that is kept by it.
EntryOK(e) ==
    e.ts # Cache!Empty => IsView(e.made) /\ e.made[Cache!KeptBy(e.made)] = e.ts

CacheInv ==
    /\ key \in DOMAIN Length \cup {"zones", "levels"}
    /\ time \in Int
    /\ entry \in [ts : Int, made : BarTimes]
    /\ reader \in [Readers -> Seats]
    /\ EntryOK(entry)
    /\ \A r \in Readers : ReaderOK(reader[r])

\* An empty entry of the cache is of no series.
LEMMA NothingMade == Cache!Empty \in Int /\ Cache!None.made \in BarTimes
BY DEF Cache!None, Cache!Empty, Cache!Series, BarTimes

\* The cache is empty at the start.
LEMMA CacheStart ==
    ASSUME Cache!CacheInit
    PROVE  CacheInv
<1>1. entry = Cache!None /\ entry \in [ts : Int, made : BarTimes] /\ EntryOK(entry)
  BY NothingMade DEF Cache!CacheInit, Cache!None, EntryOK
<1>2. \A r \in Readers : reader[r].pc = "away"
  BY DEF Cache!CacheInit, Cache!Away
<1>3. reader \in [Readers -> Seats]
  BY NothingMade DEF Cache!CacheInit, Cache!Away, Seats
<1> QED
  BY <1>1, <1>2, <1>3, CacheAssumption
     DEF CacheInv, Cache!CacheInit, Cache!Series, ReaderOK

\* The last closed bar of a series has a time.
LEMMA ClosedTimes ==
    ASSUME NEW s \in DOMAIN Length, NEW t \in Int
    PROVE  Cache!LastClosed(s, t) \in Int
<1> DEFINE d == Length[s]
<1>1. d \in Nat \ {0}
  BY CacheAssumption
<1> HIDE DEF d
<1>2. t \div d \in Int
  BY <1>1, Quotient
<1>3. (t \div d - 1) * d \in Int
  BY <1>1, <1>2
<1> QED
  BY <1>3 DEF Cache!LastClosed, d

\* What only one reader does.
LEMMA ReaderMoves ==
    ASSUME CacheInv, NEW r \in Readers,
           NEW x \in Seats,
           ReaderOK(x), reader' = [reader EXCEPT ![r] = x],
           key' = key, time' = time, entry' = entry
    PROVE  CacheInv'
<1>1. \A s \in Readers : ReaderOK(reader'[s])
  BY DEF CacheInv
<1>2. ASSUME NEW s \in Readers PROVE ReaderOK(reader[s])'
  <2>1. ReaderOK(reader'[s])
    BY <1>1
  <2> QED
    BY <2>1 DEF ReaderOK, IsView, Cache!KeptBy, Cache!Uses
<1>3. EntryOK(entry)'
  BY DEF CacheInv, EntryOK, IsView, Cache!KeptBy, Cache!Uses
<1> QED
  BY <1>2, <1>3 DEF CacheInv

\* What a reader that is done holds.
LEMMA DoneReader ==
    ASSUME NEW x \in Seats, NEW u \in BarTimes
    PROVE  [x EXCEPT !.pc = "done", !.used = u] =
             [pc |-> "done", at |-> x.at, bars |-> x.bars, used |-> u]
<1> DEFINE y == [x EXCEPT !.pc = "done", !.used = u]
<1>1. y \in Seats
  BY DEF Seats
<1>2. y.pc = "done" /\ y.at = x.at /\ y.bars = x.bars /\ y.used = u
  BY DEF Seats
<1> HIDE DEF y
<1>3. y = [pc |-> "done", at |-> x.at, bars |-> x.bars, used |-> u]
  BY <1>1, <1>2 DEF Seats
<1> QED
  BY <1>3 DEF y

\* What a thread puts into the cache, or takes from it, is a view of one instant.
LEMMA CacheStep ==
    ASSUME CacheInv, [Cache!CacheNext]_cacheVars
    PROVE  CacheInv'
<1>1. CASE Cache!TimePasses
  <2>1. time' \in Int /\ key' = key /\ entry' = entry /\ reader' = reader
    BY <1>1 DEF Cache!TimePasses, CacheInv
  <2> QED
    BY <2>1 DEF CacheInv, ReaderOK, EntryOK, IsView, Cache!KeptBy, Cache!Uses
<1>2. ASSUME NEW r \in Readers, Cache!Fetch(r)
      PROVE  CacheInv'
  <2>1. PICK failed \in {{}} \cup {{s} : s \in Cache!Uses} :
          reader' = [reader EXCEPT ![r] =
              [pc |-> "look", at |-> time,
               bars |-> [s \in DOMAIN Length |->
                   IF s \in Cache!Uses \ failed THEN Cache!LastClosed(s, time) ELSE Cache!Empty],
               used |-> Cache!None.made]]
    BY <1>2 DEF Cache!Fetch, Cache!Series
  <2> DEFINE b == [s \in DOMAIN Length |->
                   IF s \in Cache!Uses \ failed THEN Cache!LastClosed(s, time) ELSE Cache!Empty]
             x == [pc |-> "look", at |-> time, bars |-> b, used |-> Cache!None.made]
  <2>2. time \in Int
    BY DEF CacheInv
  <2>3. b \in BarTimes
    BY <2>2, ClosedTimes, NothingMade DEF BarTimes
  <2>4. IsView(b)
    <3>1. \A s \in DOMAIN Length :
            b[s] = IF s \in Cache!Uses \ failed THEN Cache!LastClosed(s, time) ELSE Cache!Empty
      OBVIOUS
    <3> HIDE DEF b
    <3> QED
      BY <2>2, <3>1 DEF IsView
  <2> HIDE DEF b
  <2>5. x \in Seats
    BY <2>2, <2>3, NothingMade DEF Seats
  <2>6. ReaderOK(x)
    BY <2>4 DEF ReaderOK
  <2>7. reader' = [reader EXCEPT ![r] = x]
    BY <2>1 DEF b
  <2> HIDE DEF x
  <2> QED
    BY <1>2, <2>5, <2>6, <2>7, ReaderMoves DEF Cache!Fetch
<1>3. ASSUME NEW r \in Readers, Cache!Look(r)
      PROVE  CacheInv'
  <2> DEFINE own == reader[r].bars
             ts == own[Cache!KeptBy(own)]
  <2>1. /\ reader[r].pc = "look" /\ key' = key /\ time' = time /\ entry' = entry
        /\ \/ ts = Cache!Empty /\ reader' = [reader EXCEPT ![r] = Cache!Away]
           \/ /\ ts # Cache!Empty /\ Cache!Fits(ts)
              /\ reader' = [reader EXCEPT ![r].pc = "done", ![r].used = entry.made]
           \/ ts # Cache!Empty /\ reader' = [reader EXCEPT ![r].pc = "make"]
    BY <1>3 DEF Cache!Look
  <2>2. /\ reader[r] \in Seats
        /\ IsView(own) /\ entry \in [ts : Int, made : BarTimes] /\ EntryOK(entry)
    BY <2>1 DEF CacheInv, ReaderOK
  <2>3. CASE ts = Cache!Empty /\ reader' = [reader EXCEPT ![r] = Cache!Away]
    <3>1. Cache!Away \in Seats
      BY NothingMade DEF Cache!Away, Seats
    <3>2. ReaderOK(Cache!Away)
      BY DEF ReaderOK, Cache!Away
    <3> QED
      BY <2>1, <2>3, <3>1, <3>2, ReaderMoves
  <2>4. CASE /\ ts # Cache!Empty /\ Cache!Fits(ts)
             /\ reader' = [reader EXCEPT ![r].pc = "done", ![r].used = entry.made]
    <3> DEFINE x == [pc |-> "done", at |-> reader[r].at, bars |-> own, used |-> entry.made]
    <3>1. x \in Seats
      BY <2>2 DEF Seats
    <3>2. IsView(entry.made) /\ entry.made[Cache!KeptBy(entry.made)] = ts
      BY <2>2, <2>4 DEF EntryOK, Cache!Fits
    <3>3. ReaderOK(x)
      BY <2>2, <3>2 DEF ReaderOK
    <3>4. x = [reader[r] EXCEPT !.pc = "done", !.used = entry.made]
      BY <2>2, DoneReader
    <3>5. reader' = [reader EXCEPT ![r] = x]
      BY <2>4, <3>4
    <3> HIDE DEF x
    <3> QED
      BY <2>1, <3>1, <3>3, <3>5, ReaderMoves
  <2>5. CASE ts # Cache!Empty /\ reader' = [reader EXCEPT ![r].pc = "make"]
    <3> DEFINE x == [pc |-> "make", at |-> reader[r].at, bars |-> own, used |-> reader[r].used]
    <3>1. x \in Seats
      BY <2>2 DEF Seats
    <3>3. ReaderOK(x)
      BY <2>2, <2>5 DEF ReaderOK
    <3>4. x = [reader[r] EXCEPT !.pc = "make"]
      BY <2>2 DEF Seats
    <3>5. reader' = [reader EXCEPT ![r] = x]
      BY <2>5, <3>4
    <3> HIDE DEF x
    <3> QED
      BY <2>1, <3>1, <3>3, <3>5, ReaderMoves
  <2> QED
    BY <2>1, <2>3, <2>4, <2>5
<1>4. ASSUME NEW r \in Readers, Cache!Make(r)
      PROVE  CacheInv'
  <2> DEFINE own == reader[r].bars
             made == [ts |-> own[Cache!KeptBy(own)], made |-> own]
             x == [pc |-> "done", at |-> reader[r].at, bars |-> own, used |-> own]
  <2>1. /\ reader[r].pc = "make" /\ key' = key /\ time' = time /\ entry' = made
        /\ reader' = [reader EXCEPT ![r].pc = "done", ![r].used = own]
    BY <1>4 DEF Cache!Make
  <2>2. /\ reader[r] \in Seats
        /\ IsView(own) /\ own \in BarTimes
    BY <2>1 DEF CacheInv, ReaderOK, Seats
  <2>3. Cache!KeptBy(own) \in DOMAIN Length
    BY CacheAssumption DEF CacheInv, Cache!KeptBy
  <2>4. made \in [ts : Int, made : BarTimes] /\ EntryOK(made)
    BY <2>2, <2>3 DEF EntryOK, BarTimes
  <2>5. /\ x \in Seats
        /\ ReaderOK(x)
    BY <2>2 DEF ReaderOK, Seats
  <2>11. x = [reader[r] EXCEPT !.pc = "done", !.used = own]
    BY <2>2, DoneReader
  <2>6. reader' = [reader EXCEPT ![r] = x]
    BY <2>1, <2>11
  <2> HIDE DEF made, x
  <2>7. \A s \in Readers : ReaderOK(reader'[s])
    BY <2>5, <2>6 DEF CacheInv
  <2>8. ASSUME NEW s \in Readers PROVE ReaderOK(reader[s])'
    <3>1. ReaderOK(reader'[s])
      BY <2>7
    <3> QED
      BY <2>1, <3>1 DEF ReaderOK, IsView, Cache!KeptBy, Cache!Uses
  <2>9. EntryOK(entry)'
    BY <2>1, <2>4 DEF EntryOK, IsView, Cache!KeptBy, Cache!Uses
  <2> QED
    BY <2>1, <2>4, <2>5, <2>6, <2>8, <2>9 DEF CacheInv
<1>5. ASSUME NEW r \in Readers, Cache!Leave(r)
      PROVE  CacheInv'
  <2>1. Cache!Away \in Seats
    BY NothingMade DEF Cache!Away, Seats
  <2>2. ReaderOK(Cache!Away)
    BY DEF ReaderOK, Cache!Away
  <2> QED
    BY <1>5, <2>1, <2>2, ReaderMoves DEF Cache!Leave
<1>6. CASE UNCHANGED cacheVars
  BY <1>6 DEF cacheVars, CacheInv, ReaderOK, EntryOK, IsView, Cache!KeptBy, Cache!Uses
<1> QED
  BY <1>1, <1>2, <1>3, <1>4, <1>5, <1>6 DEF Cache!CacheNext

\* Bars of the same time close longer bars of the same time.
LEMMA LongerBars ==
    ASSUME NEW s \in {"H1", "D1"}, NEW t \in Int, NEW u \in Int,
           Cache!LastClosed("M15", t) = Cache!LastClosed("M15", u)
    PROVE  Cache!LastClosed(s, t) = Cache!LastClosed(s, u)
<1> DEFINE m == Length["M15"]
<1>1. m \in Nat \ {0}
  BY CacheAssumption
<1>2. PICK n \in 1..Length[s] : Length[s] = n * m
  BY CacheAssumption
<1>3. n \in Nat \ {0}
  BY <1>2, CacheAssumption
<1> HIDE DEF m
<1>4. (t \div m - 1) * m = (u \div m - 1) * m
  BY DEF Cache!LastClosed, m
<1>5. t \div m \in Int /\ u \div m \in Int
  BY <1>1, Quotient
<1>6. t \div m = u \div m
  <2>1. t \div m - 1 \in Int /\ u \div m - 1 \in Int
    BY <1>5
  <2>2. t \div m - 1 = u \div m - 1
    BY <1>1, <1>4, <2>1, Products
  <2> QED
    BY <1>5, <2>2
<1>7. t \div (n * m) = u \div (n * m)
  BY <1>1, <1>3, <1>6, QuotientTwice, SMTT(60)
<1> QED
  BY <1>2, <1>7 DEF Cache!LastClosed

\* Such a view is the one that the thread would have made.
LEMMA CacheIsOwn ==
    ASSUME CacheInv
    PROVE  Cache!AnalysisIsOwn
<1> SUFFICES ASSUME NEW r \in Readers, reader[r].pc = "done"
             PROVE  LET own == reader[r].bars
                        used == reader[r].used
                    IN /\ Cache!KeptBy(used) = Cache!KeptBy(own) =>
                            used[Cache!KeptBy(own)] = own[Cache!KeptBy(own)]
                       /\ key # "levels" /\ Cache!Answered(own) /\ Cache!Answered(used) => used = own
  BY DEF Cache!AnalysisIsOwn
<1> DEFINE own == reader[r].bars
           used == reader[r].used
<1>1. /\ own \in BarTimes /\ used \in BarTimes /\ IsView(own) /\ IsView(used)
      /\ used[Cache!KeptBy(used)] = own[Cache!KeptBy(own)]
  BY DEF CacheInv, ReaderOK, Seats
<1>2. ASSUME key # "levels", Cache!Answered(own), Cache!Answered(used)
      PROVE  used = own
  <2> HIDE DEF own, used
  <2>1. PICK t \in Int : \A s \in DOMAIN Length :
          own[s] = Cache!Empty \/ (s \in Cache!Uses /\ own[s] = Cache!LastClosed(s, t))
    BY <1>1 DEF IsView
  <2>2. PICK u \in Int : \A s \in DOMAIN Length :
          used[s] = Cache!Empty \/ (s \in Cache!Uses /\ used[s] = Cache!LastClosed(s, u))
    BY <1>1 DEF IsView
  <2>3. Cache!Uses \subseteq DOMAIN Length
    BY CacheAssumption DEF CacheInv, Cache!Uses
  <2>4. \A s \in Cache!Uses :
          own[s] = Cache!LastClosed(s, t) /\ used[s] = Cache!LastClosed(s, u)
    BY <1>2, <2>1, <2>2, <2>3 DEF Cache!Answered
  <2>5. \A s \in DOMAIN Length \ Cache!Uses : own[s] = Cache!Empty /\ used[s] = Cache!Empty
    BY <2>1, <2>2
  <2>6. \A s \in Cache!Uses : used[s] = own[s]
    <3>1. CASE key = "zones"
      <4>1. Cache!Uses = {"M15", "H1", "D1"}
        BY <3>1 DEF Cache!Uses
      <4>2. Cache!KeptBy(own) = "M15" /\ Cache!KeptBy(used) = "M15"
        BY <1>2, <3>1, <4>1 DEF Cache!KeptBy, Cache!Answered
      <4>3. Cache!LastClosed("M15", t) = Cache!LastClosed("M15", u)
        BY <1>1, <2>4, <4>1, <4>2
      <4> QED
        BY <2>4, <4>1, <4>3, LongerBars
    <3>2. CASE key # "zones"
      BY <1>1, <1>2, <3>2 DEF Cache!Uses, Cache!KeptBy
    <3> QED
      BY <3>1, <3>2
  <2> QED
    BY <1>1, <2>5, <2>6 DEF BarTimes
<1> QED
  BY <1>1, <1>2

-----------------------------------------------------------------------------
(* The stored history.                                                     *)

\* A harvest began when its bars had closed, and all that is stored had.
HistoryInv ==
    /\ closed \in Nat
    /\ "now" \in DOMAIN harvest /\ harvest.now \in Nat /\ harvest.now <= closed
    /\ \A b \in stored : b.final /\ b.bar \in 1..closed

\* Nothing is stored at the start.
LEMMA HistoryStart ==
    ASSUME History!HistoryInit
    PROVE  HistoryInv
BY DEF HistoryInv, History!HistoryInit, History!NoHarvest

\* What is stored of a batch that closed is final.
LEMMA StoredOfBatch ==
    ASSUME NEW batch, NEW b \in History!Upserted(batch), b \notin stored
    PROVE  b.bar \in batch /\ (b.bar <= closed => b.final)
<1>1. PICK k \in batch : b = [bar |-> k, final |-> k <= closed]
  BY DEF History!Upserted
<1>2. b.bar = k /\ b.final = (k <= closed)
  BY <1>1
<1> QED
  BY <1>2

\* A harvest stores only what had closed when it began.
LEMMA HistoryStep ==
    ASSUME HistoryInv, [History!HistoryNext]_historyVars
    PROVE  HistoryInv'
<1>1. CASE History!BarCloses
  BY <1>1 DEF HistoryInv, History!BarCloses
<1>2. CASE History!HarvestBegins
  BY <1>2 DEF HistoryInv, History!HarvestBegins, History!NoHarvest
<1>3. CASE History!HarvestChunk
  <2> DEFINE want == History!Min({Chunk, harvest.wanted - harvest.fetched})
             served == History!Served(want, harvest.earliest)
             batch == History!CompleteOnly(served, harvest.now)
  <2>1. closed' = closed /\ (stored' = stored \/ stored' = History!Upserted(batch))
    BY <1>3 DEF History!HarvestChunk
  <2>2. harvest'.now = harvest.now /\ DOMAIN harvest' = DOMAIN harvest
    <3> DEFINE fetched == harvest.fetched + History!Cardinality(batch)
               short == History!Cardinality(served) < want
    <3>1. \/ harvest' = [harvest EXCEPT !.fetched = fetched, !.earliest = History!Min(batch),
                                        !.exhausted = short]
          \/ harvest' = [harvest EXCEPT !.exhausted = TRUE]
      BY <1>3, Zenon DEF History!HarvestChunk
    <3> HIDE DEF fetched, short, batch
    <3> QED
      BY <3>1 DEF HistoryInv
  <2>3. \A k \in batch : k \in Int /\ 1 <= k /\ k <= closed
    BY DEF HistoryInv, History!CompleteOnly, History!Served
  <2> HIDE DEF batch
  <2>4. \A b \in stored' : b.final /\ b.bar \in 1..closed
    BY <2>1, <2>3, StoredOfBatch DEF HistoryInv
  <2> QED
    BY <2>1, <2>2, <2>4 DEF HistoryInv
<1>4. CASE History!HarvestEnds
  BY <1>4 DEF HistoryInv, History!HarvestEnds, History!NoHarvest
<1>5. CASE History!HarvestStops
  BY <1>5 DEF HistoryInv, History!HarvestStops, History!NoHarvest
<1>6. CASE UNCHANGED historyVars
  BY <1>6 DEF historyVars, HistoryInv
<1> QED
  BY <1>1, <1>2, <1>3, <1>4, <1>5, <1>6 DEF History!HistoryNext

\* The history counts as the library does.
LEMMA SameCount == \A S : History!Cardinality(S) = Cardinality(S)
BY DEF History!Cardinality, Cardinality

\* A bucket is an interval of bars.
LEMMA BucketOf ==
    ASSUME NEW k \in Int
    PROVE  /\ History!Bucket(k) \in Int
           /\ k \in History!Bucket(k) * HigherRatio + 1..(History!Bucket(k) + 1) * HigherRatio
           /\ \A b \in Int : k \in b * HigherRatio + 1..(b + 1) * HigherRatio => History!Bucket(k) = b
<1>1. HigherRatio \in Nat \ {0} /\ k - 1 \in Int
  BY HistoryAssumption
<1> DEFINE b0 == (k - 1) \div HigherRatio
<1>2. b0 \in Int /\ b0 * HigherRatio <= k - 1 /\ k - 1 < (b0 + 1) * HigherRatio
  BY <1>1, Quotient
<1>3. ASSUME NEW b \in Int, k \in b * HigherRatio + 1..(b + 1) * HigherRatio
      PROVE  b0 = b
  <2>1. b * HigherRatio \in Int /\ (b + 1) * HigherRatio \in Int
    BY <1>1
  <2>2. b * HigherRatio <= k - 1 /\ k - 1 < (b + 1) * HigherRatio
    BY <1>3, <2>1
  <2> QED
    BY <1>1, <2>2, QuotientIs
<1> HIDE DEF b0
<1>4. b0 * HigherRatio \in Int /\ (b0 + 1) * HigherRatio \in Int
  BY <1>1, <1>2
<1>5. k \in b0 * HigherRatio + 1..(b0 + 1) * HigherRatio
  BY <1>2, <1>4
<1> QED
  BY <1>2, <1>3, <1>5 DEF b0, History!Bucket

\* A higher bar all of whose base bars are held is made of as many as the ratio says.
LEMMA BucketIsWhole ==
    ASSUME NEW b \in Int,
           \A k \in b * HigherRatio + 1..(b + 1) * HigherRatio : k \in History!Held,
           History!Held \subseteq Int
    PROVE  Cardinality(History!InBucket(b)) = HigherRatio
<1> DEFINE low == b * HigherRatio + 1
           high == (b + 1) * HigherRatio
<1>1. HigherRatio \in Nat \ {0} /\ low \in Int /\ high \in Int /\ high - low + 1 = HigherRatio
  BY HistoryAssumption
<1>2. \A k \in low..high : k \in History!Held
  OBVIOUS
<1>3. \A k \in History!Held : History!Bucket(k) = b => k \in low..high
  BY BucketOf
<1>4. \A k \in low..high : History!Bucket(k) = b
  BY <1>1, BucketOf
<1> HIDE DEF low, high
<1>5. History!InBucket(b) = low..high
  BY <1>2, <1>3, <1>4 DEF History!InBucket
<1>6. Cardinality(low..high) = IF low > high THEN 0 ELSE high - low + 1
  BY <1>1, FS_Interval
<1> QED
  BY <1>1, <1>5, <1>6

\* Final base bars make final higher bars.
LEMMA HistoryIsSound ==
    ASSUME HistoryInv
    PROVE  HistorySound
<1>1. History!StoredIsFinal
  BY DEF HistoryInv, History!StoredIsFinal
<1>2. ASSUME NEW b \in History!Higher
      PROVE  \/ Cardinality(History!InBucket(b)) = HigherRatio
             \/ \E k \in b * HigherRatio + 1..(b + 1) * HigherRatio :
                    k \notin History!Held /\ \E j \in History!Held : j > k
  <2> DEFINE held0 == History!Held
             last == History!Max(held0)
  <2>1. held0 \subseteq 1..closed /\ closed \in Nat
    BY DEF HistoryInv, History!Held
  <2>2. PICK k0 \in held0 : b = History!Bucket(k0)
    BY DEF History!Higher
  <2>3. last \in held0 /\ \A k \in held0 : k <= last
    <3>1. \E m \in held0 : \A k \in held0 : k <= m
      <4>1. closed \in Int /\ held0 \in SUBSET Int /\ held0 # {} /\ \A k \in held0 : k <= closed
        BY <2>1, <2>2
      <4> HIDE DEF held0
      <4> QED
        BY <4>1, LargestExists
    <3>2. \E m \in held0 : \A k \in held0 : m >= k
      BY <2>1, <3>1
    <3>3. last \in held0 /\ \A k \in held0 : last >= k
      BY <3>2 DEF History!Max
    <3> QED
      BY <2>1, <3>3
  <2>4. b = History!Bucket(last) => last = (b + 1) * HigherRatio
    BY DEF History!Higher
  <2> HIDE DEF held0, last
  <2>5. b \in Int /\ k0 \in Int /\ last \in Int /\ HigherRatio \in Nat \ {0}
    BY <2>1, <2>2, <2>3, BucketOf, HistoryAssumption
  <2>6. ASSUME NEW k \in b * HigherRatio + 1..(b + 1) * HigherRatio, k \notin held0
        PROVE  last > k
    <3>1. k # last
      BY <2>3, <2>6
    <3>2. CASE b = History!Bucket(last)
      BY <2>4, <2>5, <3>1, <3>2
    <3>3. CASE b # History!Bucket(last)
      <4> DEFINE c == History!Bucket(last)
      <4>1. c \in Int /\ c * HigherRatio + 1 <= last /\ last <= (c + 1) * HigherRatio
        BY <2>5, BucketOf, SMTT(60)
      <4>2. b * HigherRatio + 1 <= k0 /\ k0 <= last
        BY <2>2, <2>3, <2>5, BucketOf
      <4> HIDE DEF c
      <4>3. b * HigherRatio < (c + 1) * HigherRatio
        BY <2>5, <4>1, <4>2
      <4>4. b < c + 1
        BY <2>5, <4>1, <4>3, Products
      <4>5. b + 1 <= c
        BY <2>5, <3>3, <4>1, <4>4 DEF c
      <4>6. (b + 1) * HigherRatio <= c * HigherRatio
        BY <2>5, <4>1, <4>5, Products
      <4> QED
        BY <2>5, <4>1, <4>6
    <3> QED
      BY <3>2, <3>3
  <2>7. CASE \A k \in b * HigherRatio + 1..(b + 1) * HigherRatio : k \in held0
    BY <2>1, <2>5, <2>7, BucketIsWhole DEF held0
  <2>8. CASE \E k \in b * HigherRatio + 1..(b + 1) * HigherRatio : k \notin held0
    BY <2>3, <2>6, <2>8 DEF held0
  <2> QED
    BY <2>7, <2>8
<1> QED
  BY <1>1, <1>2, SameCount DEF HistorySound, History!HigherIsWhole

\* No bar is stored before it has closed, and a higher bar is made of all its base
\* bars, but for a hole that later bars are behind.
THEOREM HistoryHolds == DeskSpec => []HistorySound
<1>1. DeskInit => HistoryInv
  BY HistoryStart DEF DeskInit
<1>2. HistoryInv /\ [DeskNext]_deskVars => HistoryInv'
  BY PartsMove, HistoryStep
<1> QED
  BY <1>1, <1>2, HistoryIsSound, PTL DEF DeskSpec

-----------------------------------------------------------------------------
(* The memory of the intraday engine.                                      *)

\* An event or a setup bears the close at which it was printed; 0 is none.
Printed(e) ==
    /\ e \in Intraday!Setups
    /\ e.at <= close
    /\ e.dir = 0 <=> e.at = 0
    /\ e.dir = 0 => ~e.consumed

\* No two events were printed at one close.
EventsDiffer ==
    /\ Printed(bos) /\ ~bos.consumed
    /\ Printed(mss) /\ ~mss.consumed
    /\ Printed(setup)
    /\ bos.at = mss.at => bos.at = 0
    /\ setup.at = bos.at => setup.dir = bos.dir
    /\ setup.at = mss.at => setup.dir = mss.dir

\* An expansion that was traded is the one remembered, or lost, or too old.
TradedIsKnown ==
    /\ taken[0] = 0
    /\ \A t \in Intraday!Closes :
         taken[t] > 0 => t \in lost \/ setup.at = t \/ close - t > MaxAge

IntradayInv ==
    /\ close \in Intraday!Closes
    /\ taken \in [Intraday!Closes -> Nat]
    /\ EventsDiffer
    /\ TradedIsKnown
    /\ TradedOnce

\* The fields of a remembered setup.
LEMMA SetupFields ==
    ASSUME NEW e \in Intraday!Setups
    PROVE  /\ e.dir \in {-1, 0, 1} /\ e.at \in Intraday!Closes /\ e.consumed \in BOOLEAN
           /\ e = [dir |-> e.dir, at |-> e.at, consumed |-> e.consumed]
BY DEF Intraday!Setups, Intraday!Signs

\* None is the only one without a direction.
LEMMA NoneHasNoSide ==
    /\ Intraday!None \in Intraday!Setups
    /\ Intraday!None.dir = 0 /\ Intraday!None.at = 0 /\ ~Intraday!None.consumed
    /\ \A e : Printed(e) /\ e.dir = 0 => e = Intraday!None
<1>1. /\ Intraday!None \in Intraday!Setups
      /\ Intraday!None.dir = 0 /\ Intraday!None.at = 0 /\ ~Intraday!None.consumed
  BY IntradayAssumption DEF Intraday!None, Intraday!Setups, Intraday!Signs, Intraday!Closes
<1>2. ASSUME NEW e, Printed(e), e.dir = 0
      PROVE  e = Intraday!None
  <2>1. e \in Intraday!Setups /\ e.at = 0 /\ ~e.consumed
    BY <1>2 DEF Printed
  <2>2. e = [dir |-> e.dir, at |-> e.at, consumed |-> e.consumed] /\ e.consumed = FALSE
    BY <2>1, SetupFields
  <2> QED
    BY <1>2, <2>1, <2>2 DEF Intraday!None
<1> QED
  BY <1>1, <1>2

\* Nothing is remembered at the start.
LEMMA IntradayStart ==
    ASSUME Intraday!Init
    PROVE  IntradayInv
<1>1. /\ close = 0 /\ bos = Intraday!None /\ mss = Intraday!None /\ setup = Intraday!None
      /\ taken = [t \in Intraday!Closes |-> 0]
  BY DEF Intraday!Init
<1>2. close \in Intraday!Closes /\ taken \in [Intraday!Closes -> Nat] /\ 0 \in Intraday!Closes
      /\ \A t \in Intraday!Closes : taken[t] = 0
  BY <1>1, IntradayAssumption DEF Intraday!Closes
<1>3. EventsDiffer
  BY <1>1, NoneHasNoSide DEF EventsDiffer, Printed
<1>4. TradedIsKnown /\ TradedOnce
  BY <1>1, <1>2
     DEF TradedIsKnown, TradedOnce, Intraday!OnceUnlessForgotten, Intraday!ConsumedMeansTraded
<1> QED
  BY <1>2, <1>3, <1>4 DEF IntradayInv

\* What the sequence goes on with is the setup, or an event of another close.
LEMMA CandidateIs ==
    ASSUME IntradayInv, NEW d \in {-1, 1}, Intraday!Candidate(d) # Intraday!None
    PROVE  LET e == Intraday!Candidate(d)
           IN /\ Printed(e) /\ e.dir = d /\ e.at # 0
              /\ \/ e = setup
                 \/ setup.at # e.at /\ ~e.consumed
              /\ e.at = bos.at => e.dir = bos.dir
              /\ e.at = mss.at => e.dir = mss.dir
<1>1. CASE setup.dir = d
  BY <1>1 DEF IntradayInv, EventsDiffer, Printed, Intraday!Candidate
<1>2. CASE setup.dir # d /\ bos.dir = d
  BY <1>2 DEF IntradayInv, EventsDiffer, Printed, Intraday!Candidate, Intraday!Expansion
<1>3. CASE setup.dir # d /\ bos.dir # d /\ mss.dir = d
  BY <1>3 DEF IntradayInv, EventsDiffer, Printed, Intraday!Candidate, Intraday!Expansion
<1>4. CASE setup.dir # d /\ bos.dir # d /\ mss.dir # d
  BY <1>4 DEF Intraday!Candidate, Intraday!Expansion
<1> QED
  BY <1>1, <1>2, <1>3, <1>4

\* What is open was not traded, unless the memory of it was lost.
LEMMA OpenIsUntraded ==
    ASSUME IntradayInv, NEW d \in {-1, 1}, Intraday!Candidate(d) # Intraday!None,
           Intraday!Open(Intraday!Candidate(d)), Intraday!Candidate(d).at \notin lost
    PROVE  taken[Intraday!Candidate(d).at] = 0
<1> DEFINE e == Intraday!Candidate(d)
<1>1. /\ Printed(e) /\ e.at # 0
      /\ e = setup \/ setup.at # e.at
  BY CandidateIs
<1>2. ~e.consumed /\ ~(close - e.at > MaxAge) /\ e # Intraday!None /\ e.at \notin lost
  BY DEF Intraday!Open, Intraday!Stale
<1> HIDE DEF e
<1>3. e.at \in Intraday!Closes /\ taken[e.at] \in Nat
  BY <1>1, SetupFields DEF Printed, IntradayInv
<1>4. ASSUME e = setup PROVE ~(taken[e.at] > 0)
  BY <1>2, <1>4, Zenon DEF IntradayInv, TradedOnce, Intraday!ConsumedMeansTraded
<1>5. ASSUME setup.at # e.at PROVE ~(taken[e.at] > 0)
  BY <1>2, <1>3, <1>5, Zenon DEF IntradayInv, TradedIsKnown
<1>6. ~(taken[e.at] > 0)
  BY <1>1, <1>4, <1>5
<1> QED
  BY <1>3, <1>6 DEF e


\* What was traded and is no longer remembered is lost, unless it is too old.
LEMMA LosingKeeps ==
    ASSUME IntradayInv, NEW m
    PROVE  /\ lost \subseteq Intraday!Losing(m)
           /\ \A t \in Intraday!Closes : taken[t] > 0 =>
                t \in Intraday!Losing(m) \/ m.at = t \/ close - t > MaxAge
<1>1. lost \subseteq Intraday!Losing(m)
  BY DEF Intraday!Losing
<1>2. ASSUME NEW t \in Intraday!Closes, taken[t] > 0, setup.at = t, m.at # t, ~(close - t > MaxAge)
      PROVE  t \in Intraday!Losing(m)
  <2>1. setup # Intraday!None
    <3>1. taken[0] = 0
      BY DEF IntradayInv, TradedIsKnown
    <3> QED
      BY <1>2, <3>1, NoneHasNoSide
  <2>2. m # setup /\ ~Intraday!Stale(setup)
    BY <1>2 DEF Intraday!Stale
  <2> QED
    BY <1>2, <2>1, <2>2 DEF Intraday!Losing
<1>3. \A t \in Intraday!Closes :
        taken[t] > 0 => t \in lost \/ setup.at = t \/ close - t > MaxAge
  BY DEF IntradayInv, TradedIsKnown
<1> QED
  BY <1>1, <1>2, <1>3, Zenon

\* A setup is kept or dropped, or an event that was not traded takes its place.
LEMMA RememberKeeps ==
    ASSUME IntradayInv, NEW m,
           \/ m = Intraday!None
           \/ m = setup
           \/ \E d \in {-1, 1} : /\ m = Intraday!Candidate(d) /\ m # Intraday!None
                                 /\ ~Intraday!Stale(m),
           setup' = m, lost' = Intraday!Losing(m),
           close' = close, bos' = bos, mss' = mss, taken' = taken
    PROVE  IntradayInv'
<1>1. EventsDiffer'
  <2>1. CASE m = setup
    BY <2>1 DEF IntradayInv, EventsDiffer, Printed
  <2>2. CASE m = Intraday!None
    <3>1. 0 <= close
      BY IntradayAssumption DEF IntradayInv, Intraday!Closes
    <3>2. Printed(Intraday!None)
      BY <3>1, NoneHasNoSide DEF Printed
    <3>3. \A e \in {bos, mss} : Printed(e) /\ (e.at = 0 => e.dir = 0)
      BY DEF IntradayInv, EventsDiffer, Printed
    <3> HIDE DEF Intraday!None
    <3> QED
      BY <2>2, <3>2, <3>3, NoneHasNoSide DEF IntradayInv, EventsDiffer, Printed
  <2>3. ASSUME NEW d \in {-1, 1}, m = Intraday!Candidate(d), m # Intraday!None
        PROVE  EventsDiffer'
    <3>1. /\ Printed(m)
          /\ m.at = bos.at => m.dir = bos.dir
          /\ m.at = mss.at => m.dir = mss.dir
      BY <2>3, CandidateIs
    <3> QED
      BY <3>1 DEF IntradayInv, EventsDiffer, Printed
  <2> QED
    BY <2>1, <2>2, <2>3
<1>2. TradedIsKnown'
  BY LosingKeeps DEF IntradayInv, TradedIsKnown
<1>3. Intraday!OnceUnlessForgotten'
  BY LosingKeeps DEF IntradayInv, TradedOnce, Intraday!OnceUnlessForgotten
<1>4. ASSUME m # Intraday!None, m.at \notin Intraday!Losing(m)
      PROVE  m.consumed <=> taken[m.at] > 0
  <2>1. m.at \notin lost
    BY <1>4, LosingKeeps
  <2>2. CASE m = setup
    BY <1>4, <2>1, <2>2, Zenon DEF IntradayInv, TradedOnce, Intraday!ConsumedMeansTraded
  <2>3. ASSUME NEW d \in {-1, 1}, m = Intraday!Candidate(d), ~Intraday!Stale(m), m # setup
        PROVE  m.consumed <=> taken[m.at] > 0
    <3>1. ~m.consumed
      BY <1>4, <2>3, CandidateIs
    <3>2. taken[m.at] = 0
      BY <1>4, <2>1, <2>3, <3>1, OpenIsUntraded DEF Intraday!Open
    <3> QED
      BY <3>1, <3>2
  <2> QED
    BY <1>4, <2>2, <2>3, Zenon
<1>5. Intraday!ConsumedMeansTraded'
  BY <1>4, Zenon DEF Intraday!ConsumedMeansTraded
<1> QED
  BY <1>1, <1>2, <1>3, <1>5 DEF IntradayInv, TradedOnce

\* An entry is taken on what is open: a second one on the same takes a lost memory.
LEMMA EntryKeeps ==
    ASSUME IntradayInv, NEW d \in {-1, 1}, Intraday!Candidate(d) # Intraday!None,
           Intraday!Open(Intraday!Candidate(d)),
           Intraday!Filled(Intraday!Candidate(d)),
           \/ /\ setup' = [Intraday!Candidate(d) EXCEPT !.consumed = TRUE]
              /\ lost' = Intraday!Losing(setup')
           \/ /\ setup' = Intraday!Candidate(d)
              /\ lost' = Intraday!Losing(setup') \cup {Intraday!Candidate(d).at},
           close' = close, bos' = bos, mss' = mss
    PROVE  IntradayInv'
<1> DEFINE e == Intraday!Candidate(d)
<1>1. /\ Printed(e) /\ e.dir = d /\ e.at # 0
      /\ e.at = bos.at => e.dir = bos.dir
      /\ e.at = mss.at => e.dir = mss.dir
  BY CandidateIs
<1>2. e.at \notin lost => taken[e.at] = 0
  BY OpenIsUntraded
<1>3. taken' = [taken EXCEPT ![e.at] = @ + 1]
  BY DEF Intraday!Filled
<1>4. \/ /\ setup' = [e EXCEPT !.consumed = TRUE]
         /\ lost' = Intraday!Losing(setup')
      \/ /\ setup' = e
         /\ lost' = Intraday!Losing(setup') \cup {e.at}
  OBVIOUS
<1> HIDE DEF e
<1>5. e \in Intraday!Setups /\ e.at \in Intraday!Closes /\ 0 \in Intraday!Closes
  BY <1>1, SetupFields, IntradayAssumption DEF Printed, Intraday!Closes
<1>6. /\ setup' \in Intraday!Setups /\ setup'.at = e.at /\ setup'.dir = e.dir
      /\ setup'.consumed \/ e.at \in lost'
  BY <1>4, <1>5 DEF Intraday!Setups
<1>7. EventsDiffer'
  BY <1>1, <1>6 DEF IntradayInv, EventsDiffer, Printed
<1>8. /\ taken' \in [Intraday!Closes -> Nat] /\ taken'[e.at] > 0
      /\ \A t \in Intraday!Closes : t # e.at => taken'[t] = taken[t]
      /\ taken'[e.at] > 1 => taken[e.at] # 0
  BY <1>3, <1>5 DEF IntradayInv
<1>9. /\ lost \subseteq lost'
      /\ \A t \in Intraday!Closes : taken[t] > 0 => t \in lost' \/ setup'.at = t \/ close - t > MaxAge
  BY <1>4, LosingKeeps
<1>10. TradedIsKnown'
  <2>1. taken'[0] = 0
    BY <1>1, <1>5, <1>8 DEF IntradayInv, TradedIsKnown
  <2>2. \A t \in Intraday!Closes :
          taken'[t] > 0 => t \in lost' \/ setup'.at = t \/ close - t > MaxAge
    BY <1>6, <1>8, <1>9
  <2> QED
    BY <2>1, <2>2 DEF TradedIsKnown
<1>11. Intraday!OnceUnlessForgotten'
  <2> SUFFICES ASSUME NEW t \in Intraday!Closes, taken'[t] > 1
               PROVE  t \in lost'
    BY DEF Intraday!OnceUnlessForgotten
  <2>1. CASE t = e.at
    BY <1>2, <1>8, <1>9, <2>1
  <2>2. CASE t # e.at
    BY <1>8, <1>9, <2>2 DEF IntradayInv, TradedOnce, Intraday!OnceUnlessForgotten
  <2> QED
    BY <2>1, <2>2
<1>12. Intraday!ConsumedMeansTraded'
  BY <1>6, <1>8, Zenon DEF Intraday!ConsumedMeansTraded
<1> QED
  BY <1>7, <1>8, <1>10, <1>11, <1>12 DEF IntradayInv, TradedOnce

\* An expansion that was traded stays the one remembered, or was lost, or is past.
LEMMA IntradayStep ==
    ASSUME IntradayInv, [Intraday!Next]_intradayVars
    PROVE  IntradayInv'
<1>1. CASE Intraday!BarCloses
  <2>1. /\ close < MaxNow /\ close' = close + 1
        /\ setup' = setup /\ taken' = taken /\ lost' = lost
        /\ \/ bos' = bos /\ mss' = mss
           \/ \E d \in {-1, 1} : bos' = Intraday!Event(d, close + 1) /\ mss' = mss
           \/ \E d \in {-1, 1} : mss' = Intraday!Event(d, close + 1) /\ bos' = bos
    BY <1>1 DEF Intraday!BarCloses, Intraday!Sides
  <2>2. close \in Nat /\ MaxNow \in Nat /\ close' \in Intraday!Closes /\ MaxAge \in Nat
    BY <2>1, IntradayAssumption DEF IntradayInv, Intraday!Closes
  <2>3. ASSUME NEW e, Printed(e) PROVE Printed(e)' /\ e.at # close + 1
    <3>1. e.at \in Intraday!Closes
      BY <2>3, SetupFields DEF Printed
    <3>2. e.at \in Int /\ e.at <= close
      BY <2>3, <3>1 DEF Printed, Intraday!Closes
    <3> QED
      BY <2>1, <2>2, <2>3, <3>2 DEF Printed
  <2>4. ASSUME NEW d \in {-1, 1}, NEW e, e = Intraday!Event(d, close + 1)
        PROVE  Printed(e)' /\ e.at = close + 1 /\ e.dir = d /\ ~e.consumed
    <3>1. /\ close' \in Intraday!Closes /\ close' = close + 1
          /\ close + 1 # 0 /\ close + 1 <= close'
      BY <2>1, <2>2
    <3>2. e \in Intraday!Setups /\ e.at = close + 1 /\ e.dir = d /\ ~e.consumed
      BY <2>4, <3>1 DEF Intraday!Event, Intraday!Setups, Intraday!Signs
    <3> QED
      BY <3>1, <3>2 DEF Printed
  <2>5. EventsDiffer'
    <3>1. CASE bos' = bos /\ mss' = mss
      BY <2>1, <2>3, <3>1 DEF IntradayInv, EventsDiffer
    <3>2. ASSUME NEW d \in {-1, 1}, bos' = Intraday!Event(d, close + 1), mss' = mss
          PROVE  EventsDiffer'
      <4>1. /\ Printed(mss)' /\ Printed(bos)' /\ ~bos'.consumed
            /\ bos'.at = close + 1
        BY <2>3, <2>4, <3>2 DEF IntradayInv, EventsDiffer, Printed
      <4>2. Printed(setup)' /\ setup'.at # close + 1 /\ mss'.at # close + 1
        BY <2>1, <2>3, <3>2 DEF IntradayInv, EventsDiffer, Printed
      <4> QED
        BY <2>1, <3>2, <4>1, <4>2 DEF IntradayInv, EventsDiffer
    <3>3. ASSUME NEW d \in {-1, 1}, mss' = Intraday!Event(d, close + 1), bos' = bos
          PROVE  EventsDiffer'
      <4>1. /\ Printed(mss)' /\ Printed(bos)' /\ ~mss'.consumed
            /\ mss'.at = close + 1
        BY <2>3, <2>4, <3>3 DEF IntradayInv, EventsDiffer, Printed
      <4>2. Printed(setup)' /\ setup'.at # close + 1 /\ bos'.at # close + 1
        BY <2>1, <2>3, <3>3 DEF IntradayInv, EventsDiffer, Printed
      <4> QED
        BY <2>1, <3>3, <4>1, <4>2 DEF IntradayInv, EventsDiffer
    <3> QED
      BY <2>1, <3>1, <3>2, <3>3
  <2>6. TradedIsKnown'
    <3>1. \A t \in Intraday!Closes : close - t > MaxAge => close' - t > MaxAge
      BY <2>1, <2>2 DEF Intraday!Closes
    <3> QED
      BY <2>1, <3>1 DEF IntradayInv, TradedIsKnown
  <2>7. TradedOnce'
    BY <2>1 DEF IntradayInv, TradedOnce, Intraday!OnceUnlessForgotten, Intraday!ConsumedMeansTraded
  <2> QED
    BY <2>1, <2>2, <2>5, <2>6, <2>7 DEF IntradayInv
<1>2. CASE \/ Intraday!Vetoed
           \/ Intraday!PositionCloses
           \/ UNCHANGED intradayVars
  <2>1. /\ close' = close /\ bos' = bos /\ mss' = mss /\ setup' = setup
        /\ taken' = taken /\ lost' = lost
    BY <1>2 DEF Intraday!Vetoed, Intraday!PositionCloses, intradayVars
  <2> QED
    BY <2>1
       DEF IntradayInv, EventsDiffer, Printed, TradedIsKnown, TradedOnce,
           Intraday!OnceUnlessForgotten, Intraday!ConsumedMeansTraded
<1>3. CASE Intraday!Restart
  BY <1>3, RememberKeeps DEF Intraday!Restart, Intraday!Remember
<1>4. ASSUME NEW s \in Intraday!Snapshots, Intraday!Waits(s)
      PROVE  IntradayInv'
  <2> DEFINE d == Intraday!Bias(s)
             m == Intraday!Remembered(d)
  <2>1. /\ setup' = m /\ lost' = Intraday!Losing(m)
        /\ close' = close /\ bos' = bos /\ mss' = mss /\ taken' = taken
    BY <1>4 DEF Intraday!Waits, Intraday!Remember
  <2>2. d \in {-1, 0, 1}
    BY DEF Intraday!Bias, Intraday!Snapshots, Intraday!Signs
  <2> HIDE DEF d
  <2>3. \/ m = Intraday!None
        \/ m = setup
        \/ d # 0 /\ m = Intraday!Candidate(d) /\ m # Intraday!None /\ ~Intraday!Stale(m)
    BY DEF Intraday!Remembered
  <2> HIDE DEF m
  <2> QED
    BY <2>1, <2>2, <2>3, RememberKeeps
<1>5. ASSUME NEW s \in Intraday!Snapshots, Intraday!Ready(s)
      PROVE  /\ Intraday!Bias(s) \in {-1, 1}
             /\ Intraday!Candidate(Intraday!Bias(s)) # Intraday!None
             /\ Intraday!Open(Intraday!Candidate(Intraday!Bias(s)))
  <2>1. Intraday!Bias(s) \in {-1, 0, 1}
    BY DEF Intraday!Bias, Intraday!Snapshots, Intraday!Signs
  <2> QED
    BY <1>5, <2>1 DEF Intraday!Ready
<1>6. ASSUME NEW s \in Intraday!Snapshots, Intraday!Refused(s)
      PROVE  IntradayInv'
  <2> DEFINE m == Intraday!Candidate(Intraday!Bias(s))
  <2>1. /\ setup' = m /\ lost' = Intraday!Losing(m)
        /\ close' = close /\ bos' = bos /\ mss' = mss /\ taken' = taken
        /\ Intraday!Ready(s)
    BY <1>6 DEF Intraday!Refused, Intraday!Remember, Intraday!AfterRefusal
  <2>2. m # Intraday!None /\ ~Intraday!Stale(m) /\ Intraday!Bias(s) \in {-1, 1}
    BY <1>5, <2>1 DEF Intraday!Open
  <2> QED
    BY <2>1, <2>2, RememberKeeps
<1>7. ASSUME NEW s \in Intraday!Snapshots, Intraday!Enters(s)
      PROVE  IntradayInv'
  BY <1>5, <1>7, EntryKeeps DEF Intraday!Enters, Intraday!Remember
<1>8. ASSUME NEW s \in Intraday!Snapshots, Intraday!EntersUnrecorded(s)
      PROVE  IntradayInv'
  BY <1>5, <1>8, EntryKeeps DEF Intraday!EntersUnrecorded
<1> QED
  BY <1>1, <1>2, <1>3, <1>4, <1>6, <1>7, <1>8 DEF Intraday!Next, Intraday!Cycle

\* An expansion is traded once unless the memory of it was lost, and what is
\* remembered of it is true.
THEOREM ExpansionsTradedOnce == DeskSpec => []TradedOnce
<1>1. DeskInit => IntradayInv
  BY IntradayStart DEF DeskInit
<1>2. IntradayInv /\ [DeskNext]_deskVars => IntradayInv'
  BY PartsMove, IntradayStep
<1>3. IntradayInv => TradedOnce
  BY DEF IntradayInv
<1> QED
  BY <1>1, <1>2, <1>3, PTL DEF DeskSpec

-----------------------------------------------------------------------------
(* The feed.                                                               *)

Clock ==
    /\ now \in 0..FeedHorizon
    /\ ticks \subseteq 0..now /\ 0 \in ticks

\* The bars of a view are the end of what a view over the whole history shows.
IsEnd(bars, at) ==
    /\ bars \subseteq Feed!Replay(at)
    /\ \A b \in Feed!Replay(at) \ bars : \A c \in bars : b.ts < c.ts

\* What a decision has is of its instant, as far as it has come.
FeedInv ==
    /\ Clock
    /\ cycle.pc \in {"idle", "woken", "quoted", "seen", "sending"}
    /\ cycle.pc # "idle" => cycle.at \in 0..now
    /\ cycle.pc \in {"quoted", "seen", "sending"} =>
         \E t \in ticks : Feed!Server(t) = cycle.quote
    /\ cycle.pc \in {"seen", "sending"} => IsEnd(cycle.bars, cycle.at)
    /\ cycle.pc = "sending" => cycle.at - cycle.quote <= MaxQuoteAge /\ cycle.bars # {}

\* An instance counts as the library does.
LEMMA FeedSame == \A S : Feed!Cardinality(S) = Cardinality(S)
BY DEF Feed!Cardinality, Cardinality

\* The last tick of the market is its latest.
LEMMA LastTickIs ==
    ASSUME Clock
    PROVE  Feed!LastTick \in ticks /\ \A t \in ticks : t <= Feed!LastTick
<1>1. ticks \in SUBSET Int /\ ticks # {} /\ now \in Int /\ \A t \in ticks : t <= now
  BY DEF Clock
<1>2. PICK m \in ticks : \A t \in ticks : t <= m
  BY <1>1, LargestExists
<1>3. \E x \in ticks : \A t \in ticks : x >= t
  BY <1>1, <1>2
<1>4. Feed!LastTick \in ticks /\ \A t \in ticks : Feed!LastTick >= t
  BY <1>3 DEF Feed!LastTick, Feed!Max
<1> QED
  BY <1>1, <1>4

\* The bar of an instant, on a clock that is not behind UTC.
LEMMA BarOfIs ==
    ASSUME ClockAhead \in Nat, NEW t \in Nat
    PROVE  /\ Feed!BarOf(t) \in Nat
           /\ t + ClockAhead < (Feed!BarOf(t) + 1) * BarLength
           /\ Feed!BarOf(t) <= t + ClockAhead
<1>1. BarLength \in Nat \ {0}
  BY FeedAssumption
<1> DEFINE s == t + ClockAhead
           k == s \div BarLength
<1>0. s \in Nat
  OBVIOUS
<1>2. k \in Int /\ k * BarLength <= s /\ s < (k + 1) * BarLength
  <2> HIDE DEF s
  <2> QED
    BY <1>0, <1>1, Quotient
<1>3. Feed!BarOf(t) = k
  BY DEF Feed!BarOf, Feed!Server
<1> HIDE DEF k, s
<1>4. 0 * BarLength < (k + 1) * BarLength
  BY <1>0, <1>1, <1>2
<1>5. 0 < k + 1
  BY <1>1, <1>2, <1>4, Products
<1>6. k <= k * BarLength
  BY <1>1, <1>2, <1>5
<1>7. k * BarLength \in Int
  BY <1>1, <1>2
<1>8. k \in Nat /\ k <= s
  BY <1>0, <1>2, <1>5, <1>6, <1>7
<1> QED
  BY <1>2, <1>3, <1>8 DEF s

\* A tick falls into a bar that is not later than now.
LEMMA TicksHaveBars ==
    ASSUME ClockAhead \in Nat, Clock, NEW t \in ticks
    PROVE  Feed!BarOf(t) \in Nat /\ Feed!BarOf(t) <= now + ClockAhead
<1>1. t \in Nat /\ now \in Nat /\ t <= now
  BY FeedAssumption DEF Clock
<1>2. Feed!BarOf(t) \in Nat /\ Feed!BarOf(t) <= t + ClockAhead
  BY <1>1, BarOfIs
<1> QED
  BY <1>1, <1>2

\* A bar of the replay, and a bar of the terminal that is visible.
LEMMA ReplayBars ==
    ASSUME ClockAhead \in Nat, Clock, NEW at \in 0..now
    PROVE  /\ \A k \in {Feed!BarOf(t) : t \in ticks} :
                k \in Nat /\ Feed!RateOf(k, now).ts = k * BarLength
           /\ \A b : b \in Feed!Replay(at) <=>
                \E k \in {Feed!BarOf(t) : t \in ticks} :
                    (k + 1) * BarLength <= at /\ b = Feed!RateOf(k, now)
<1>1. \A k \in {Feed!BarOf(t) : t \in ticks} : k \in Nat
  BY TicksHaveBars
<1> QED
  BY <1>1 DEF Feed!Replay, Feed!RateOf

\* However many ticks come, what closed before an instant stays.
LEMMA ReplayStays ==
    ASSUME ClockAhead \in Nat, Clock, NEW at \in 0..now, now' = now + 1,
           ticks' = ticks \/ ticks' = ticks \cup {now + 1}
    PROVE  Feed!Replay(at)' = Feed!Replay(at)
<1> DEFINE K == {Feed!BarOf(t) : t \in ticks}
           KK == {Feed!BarOf(t) : t \in ticks'}
           C == {k \in K : (k + 1) * BarLength <= at}
           CC == {k \in KK : (k + 1) * BarLength <= at}
<1>1. BarLength \in Nat \ {0} /\ now \in Nat /\ at \in Nat /\ at <= now
  BY FeedAssumption DEF Clock
<1>3. ASSUME NEW k \in Int, Feed!BarOf(now + 1) = k
      PROVE  ~((k + 1) * BarLength <= at)
  <2>1. now + 1 + ClockAhead < (k + 1) * BarLength
    BY <1>1, <1>3, BarOfIs
  <2>2. (k + 1) * BarLength \in Int
    BY <1>1
  <2> QED
    BY <1>1, <2>1, <2>2
<1>4. Feed!BarOf(now + 1) \in Int
  BY <1>1, BarOfIs
<1>5. CC = C
  <2>1. K \subseteq KK /\ KK \subseteq K \cup {Feed!BarOf(now + 1)}
    OBVIOUS
  <2> HIDE DEF K, KK
  <2> QED
    BY <1>3, <1>4, <2>1
<1>6. \A k \in C : Feed!RateOf(k, now)' = Feed!RateOf(k, now)
  <2> SUFFICES ASSUME NEW k \in C PROVE Feed!RateOf(k, now)' = Feed!RateOf(k, now)
    OBVIOUS
  <2>1. k \in Int /\ (k + 1) * BarLength <= at
    BY TicksHaveBars
  <2> DEFINE U == {u \in ticks : u <= now /\ Feed!BarOf(u) = k}
             UU == {u \in ticks' : u <= now + 1 /\ Feed!BarOf(u) = k}
  <2>2. Feed!BarOf(now + 1) # k
    BY <1>3, <2>1
  <2>3. \A u \in ticks : u \in Int /\ u <= now
    BY DEF Clock
  <2>4. UU = U
    BY <1>1, <2>2, <2>3
  <2> QED
    BY <2>4 DEF Feed!RateOf, Feed!BarOf, Feed!Server
<1> QED
  BY <1>5, <1>6 DEF Feed!Replay, Feed!BarOf, Feed!Server

\* Bars that are fetched after an instant show, once cut at it, the end of the
\* replay.
LEMMA FetchedIsEnd ==
    ASSUME ClockAhead \in Nat, Clock, NEW at \in 0..now
    PROVE  IsEnd(Feed!Visible(Feed!Rates, at), at) /\ IsEnd(Feed!Visible({}, at), at)
<1> DEFINE K == {Feed!BarOf(t) : t \in ticks}
           Later(k) == {j \in K : j > k}
           New == {k \in K : Feed!Cardinality(Later(k)) < Count}
           B == Feed!Visible(Feed!Rates, at)
<1>1. BarLength \in Nat \ {0} /\ now \in Nat /\ at \in Nat /\ Count \in Nat
  BY FeedAssumption DEF Clock
<1>2. \A b : b \in B <=> \E k \in New : b = Feed!RateOf(k, now) /\ b.ts <= at - BarLength
  BY DEF Feed!Rates, Feed!Visible
<1>3. IsFiniteSet(K)
  <2>1. IsFiniteSet(0..now)
    BY <1>1, FS_Interval
  <2>2. IsFiniteSet(ticks)
    BY <2>1, FS_Subset DEF Clock
  <2> DEFINE bar == [t \in ticks |-> Feed!BarOf(t)]
  <2>3. bar \in Surjection(ticks, K)
    BY DEF Surjection
  <2> HIDE DEF bar, K
  <2> QED
    BY <2>2, <2>3, FS_Surjection
<1>4. /\ \A k \in K : k \in Nat /\ Feed!RateOf(k, now).ts = k * BarLength
      /\ \A b : b \in Feed!Replay(at) <=>
           \E k \in K : (k + 1) * BarLength <= at /\ b = Feed!RateOf(k, now)
  BY ReplayBars
<1> HIDE DEF K, B
<1>5. \A k \in Nat : (k + 1) * BarLength <= at <=> k * BarLength <= at - BarLength
  BY <1>1
<1>6. B \subseteq Feed!Replay(at)
  BY <1>2, <1>4, <1>5
<1>7. ASSUME NEW i \in K, NEW j \in K, j <= i
      PROVE  Feed!Cardinality(Later(i)) <= Feed!Cardinality(Later(j))
  <2>1. Later(i) \subseteq Later(j) /\ IsFiniteSet(Later(j))
    BY <1>3, <1>4, <1>7, FS_Subset
  <2> HIDE DEF Later
  <2> QED
    BY <2>1, FS_Subset, FeedSame
<1>8. \A k \in K : Feed!Cardinality(Later(k)) \in Int
  <2> SUFFICES ASSUME NEW k \in K PROVE Feed!Cardinality(Later(k)) \in Int
    OBVIOUS
  <2>1. IsFiniteSet(Later(k))
    BY <1>3, FS_Subset
  <2> HIDE DEF Later
  <2> QED
    BY <2>1, FS_CardinalityType, FeedSame
<1>9. ASSUME NEW b \in Feed!Replay(at) \ B, NEW c \in B
      PROVE  b.ts < c.ts
  <2>1. PICK i \in K : (i + 1) * BarLength <= at /\ b = Feed!RateOf(i, now)
    BY <1>4, <1>9
  <2>2. PICK j \in New : c = Feed!RateOf(j, now)
    BY <1>2
  <2>3. i \in Nat /\ j \in Nat /\ j \in K /\ b.ts = i * BarLength /\ c.ts = j * BarLength
    BY <1>4, <2>1, <2>2
  <2>4. ~(Feed!Cardinality(Later(i)) < Count)
    BY <1>2, <1>5, <1>9, <2>1, <2>3
  <2>5. Feed!Cardinality(Later(j)) < Count
    OBVIOUS
  <2> HIDE DEF New, Later
  <2>6. ~(j <= i)
    BY <1>1, <1>7, <1>8, <2>3, <2>4, <2>5
  <2> QED
    BY <1>1, <2>3, <2>6, Products
<1> QED
  BY <1>6, <1>9 DEF IsEnd, B, Feed!Visible

\* The newest bar of the replay is in every end of it that is not empty.
LEMMA NewestIsIn ==
    ASSUME ClockAhead \in Nat, Clock, NEW at \in 0..now, NEW bars, IsEnd(bars, at), bars # {}
    PROVE  Feed!Newest(Feed!Replay(at)) \in bars
<1> DEFINE K == {k \in {Feed!BarOf(t) : t \in ticks} : (k + 1) * BarLength <= at}
           R == Feed!Replay(at)
<1>1. /\ \A k \in K : k \in Nat /\ Feed!RateOf(k, now).ts = k * BarLength
      /\ \A b : b \in R <=> \E k \in K : b = Feed!RateOf(k, now)
  BY ReplayBars
<1>2. BarLength \in Nat \ {0} /\ now \in Nat
  BY FeedAssumption DEF Clock
<1>3. \A k \in K : k <= now + ClockAhead
  BY TicksHaveBars
<1> HIDE DEF K, R
<1>4. K # {}
  BY <1>1 DEF IsEnd, R
<1>5. PICK m \in K : \A k \in K : k <= m
  <2>1. K \in SUBSET Int /\ now + ClockAhead \in Int
    BY <1>1, <1>2
  <2> QED
    BY <1>3, <1>4, <2>1, LargestExists
<1>6. \A k \in K : k * BarLength <= m * BarLength
  BY <1>1, <1>2, <1>5, Products
<1>7. \E b \in R : \A c \in R : c.ts <= b.ts
  BY <1>1, <1>6
<1> DEFINE new == Feed!Newest(R)
<1>8. new \in R /\ \A c \in R : c.ts <= new.ts
  BY <1>7 DEF Feed!Newest
<1>9. \A b \in R : b.ts \in Int
  BY <1>1, <1>2
<1> HIDE DEF new
<1>10. ASSUME new \notin bars PROVE FALSE
  <2>1. PICK c \in bars : c \in R
    BY DEF IsEnd, R
  <2>2. new.ts < c.ts
    BY <1>8, <1>10, <2>1 DEF IsEnd, R
  <2> QED
    BY <1>8, <1>9, <2>1, <2>2
<1> QED
  BY <1>10 DEF new, R

\* The feed knows nothing at the start.
LEMMA FeedStart ==
    ASSUME Feed!FeedInit
    PROVE  FeedInv
<1>1. now = 0 /\ ticks = {0} /\ FeedHorizon \in Nat
  BY FeedAssumption DEF Feed!FeedInit
<1>2. cycle.pc = "idle"
  BY DEF Feed!FeedInit, Feed!Idle
<1> QED
  BY <1>1, <1>2 DEF FeedInv, Clock

\* What was decided on is of an instant that passed, and what closed before it
\* does not change.
LEMMA FeedStays ==
    ASSUME ClockAhead \in Nat, FeedInv, Feed!TimePasses
    PROVE  FeedInv'
<1>1. now' = now + 1 /\ now < FeedHorizon /\ cycle' = cycle
  BY DEF Feed!TimePasses
<1>2. ticks' = ticks \/ ticks' = ticks \cup {now + 1}
  BY Zenon DEF Feed!TimePasses
<1>3. Clock /\ FeedHorizon \in Nat
  BY FeedAssumption DEF FeedInv
<1>4. Clock'
  <2>1. now \in Int /\ now' \in 0..FeedHorizon
    BY <1>1, <1>3 DEF Clock
  <2>2. \A t \in ticks' : t \in 0..now \/ t = now + 1
    BY <1>2, <1>3 DEF Clock
  <2>3. 0 \in ticks'
    BY <1>2, <1>3 DEF Clock
  <2>4. \A t : t \in 0..now \/ t = now + 1 => t \in 0..now'
    BY <1>1, <2>1
  <2> QED
    BY <2>1, <2>2, <2>3, <2>4 DEF Clock
<1>5. cycle.pc # "idle" => cycle.at \in 0..now /\ cycle.at \in 0..now'
  BY <1>1, <1>3 DEF FeedInv, Clock
<1>6. cycle.pc \in {"quoted", "seen", "sending"} =>
        \E t \in ticks' : t + ClockAhead = cycle.quote
  BY <1>2 DEF FeedInv, Feed!Server
<1>7. ASSUME cycle.pc \in {"seen", "sending"}
      PROVE  IsEnd(cycle.bars, cycle.at)'
  <2>1. PICK at, bars : at \in 0..now /\ at = cycle.at /\ bars = cycle.bars
    BY <1>5, <1>7
  <2>2. IsEnd(bars, at)
    BY <1>7, <2>1 DEF FeedInv
  <2>3. Feed!Replay(at)' = Feed!Replay(at)
    BY <1>1, <1>2, <1>3, <2>1, ReplayStays
  <2>4. IsEnd(bars, at)'
    BY <2>2, <2>3 DEF IsEnd
  <2> QED
    BY <1>1, <2>1, <2>4 DEF IsEnd, Feed!Replay
<1> QED
  BY <1>1, <1>4, <1>5, <1>6, <1>7 DEF FeedInv, Feed!Server

\* No tick and no fetch changes what had closed, and a decision is made on what is new.
LEMMA FeedStep ==
    ASSUME ClockAhead \in Nat, FeedInv, [Feed!FeedNext]_feedVars
    PROVE  FeedInv'
<1>1. CASE Feed!TimePasses
  BY <1>1, FeedStays
<1> USE DEF FeedInv
<1>2. CASE UNCHANGED <<now, ticks, cycle>>
  BY <1>2 DEF Clock, IsEnd, Feed!Replay, Feed!RateOf, Feed!BarOf, Feed!Server
<1>3. ASSUME UNCHANGED <<now, ticks>>, cycle'.pc = "idle"
      PROVE  FeedInv'
  BY <1>3 DEF Clock
<1>4. Feed!Idle.pc = "idle"
  BY DEF Feed!Idle
<1>5. CASE Feed!Wake
  <2>1. /\ UNCHANGED <<now, ticks>>
        /\ cycle' = [Feed!Idle EXCEPT !.pc = "woken", !.at = now]
    BY <1>5 DEF Feed!Wake
  <2>2. cycle'.pc = "woken" /\ cycle'.at = now
    BY <2>1 DEF Feed!Idle
  <2> QED
    BY <2>1, <2>2 DEF Clock
<1>6. CASE Feed!TakeQuote
  <2>1. UNCHANGED <<now, ticks>> /\ cycle.pc = "woken"
    BY <1>6 DEF Feed!TakeQuote
  <2>2. CASE cycle' = [cycle EXCEPT !.pc = "quoted", !.quote = Feed!Quote]
    <3>1. cycle'.pc = "quoted" /\ cycle'.at = cycle.at /\ cycle'.quote = Feed!Quote
      BY <2>2
    <3>2. Feed!LastTick \in ticks /\ Feed!Quote = Feed!Server(Feed!LastTick)
      BY LastTickIs DEF Feed!Quote
    <3> QED
      BY <2>1, <3>1, <3>2 DEF Clock, Feed!Server
  <2> QED
    BY <1>3, <1>4, <1>6, <2>1, <2>2 DEF Feed!TakeQuote
<1>7. CASE Feed!TakeBars
  <2>1. UNCHANGED <<now, ticks>> /\ cycle.pc = "quoted"
    BY <1>7 DEF Feed!TakeBars
  <2>2. PICK rates \in {Feed!Rates, {}} :
            cycle' = [cycle EXCEPT !.pc = "seen", !.bars = Feed!Visible(rates, cycle.at)]
    BY <1>7 DEF Feed!TakeBars
  <2>3. PICK at \in 0..now : at = cycle.at
    BY <2>1
  <2>4. IsEnd(Feed!Visible(rates, at), at)
    BY FetchedIsEnd
  <2>5. /\ cycle'.pc = "seen" /\ cycle'.at = at /\ cycle'.quote = cycle.quote
        /\ cycle'.bars = Feed!Visible(rates, at)
    BY <2>2, <2>3
  <2>6. IsEnd(cycle.bars, cycle.at)'
    BY <2>1, <2>4, <2>5 DEF IsEnd, Feed!Replay, Feed!RateOf, Feed!BarOf, Feed!Server
  <2>7. Clock'
    BY <2>1 DEF Clock
  <2> QED
    BY <2>1, <2>3, <2>5, <2>6, <2>7 DEF Feed!Server
<1>8. CASE Feed!Decide
  <2>1. UNCHANGED <<now, ticks>> /\ cycle.pc = "seen"
    BY <1>8 DEF Feed!Decide
  <2>2. CASE Feed!Permitted /\ cycle' = [cycle EXCEPT !.pc = "sending"]
    <3>1. /\ cycle'.pc = "sending" /\ cycle'.at = cycle.at /\ cycle'.quote = cycle.quote
          /\ cycle'.bars = cycle.bars
      BY <2>2
    <3>2. cycle.at - cycle.quote <= MaxQuoteAge /\ cycle.bars # {}
      BY <2>2 DEF Feed!Permitted, Feed!BarIsCurrent
    <3>3. IsEnd(cycle.bars, cycle.at)'
      BY <2>1, <3>1 DEF IsEnd, Feed!Replay, Feed!RateOf, Feed!BarOf, Feed!Server
    <3>4. Clock'
      BY <2>1 DEF Clock
    <3> QED
      BY <2>1, <3>1, <3>2, <3>3, <3>4 DEF Feed!Server
  <2> QED
    BY <1>3, <1>4, <1>8, <2>1, <2>2 DEF Feed!Decide
<1>9. CASE Feed!Send
  BY <1>3, <1>4, <1>9 DEF Feed!Send
<1>10. CASE Feed!Observe
  BY <1>2, <1>10 DEF Feed!Observe
<1> QED
  BY <1>1, <1>2, <1>5, <1>6, <1>7, <1>8, <1>9, <1>10 DEF Feed!FeedNext, feedVars

\* What was decided on is the market's, and what was analysed the thread's own.
THEOREM LiveViewIsReplay ==
    ASSUME ClockAhead \in Nat
    PROVE  DeskSpec => []LiveIsReplay
<1>1. DeskInit => FeedInv /\ CacheInv
  BY FeedStart, CacheStart DEF DeskInit
<1>2. FeedInv /\ CacheInv /\ [DeskNext]_deskVars => FeedInv' /\ CacheInv'
  BY PartsMove, FeedStep, CacheStep
<1>3. FeedInv => Feed!LiveIsReplay
  BY DEF FeedInv, IsEnd, Feed!LiveIsReplay
<1>4. FeedInv /\ CacheInv => LiveIsReplay
  BY <1>3, CacheIsOwn DEF LiveIsReplay
<1> QED
  BY <1>1, <1>2, <1>4, PTL DEF DeskSpec

\* An order is decided on the last bar that had closed, by its stamp, and on a
\* quote of the market that is older than the limit by no more than the clock of
\* the server is ahead of UTC.
THEOREM DecisionsOnTheMarket ==
    ASSUME ClockAhead \in Nat
    PROVE  DeskSpec => []Feed!DecidedWithin(ClockAhead)
<1>1. DeskInit => FeedInv
  BY FeedStart DEF DeskInit
<1>2. FeedInv /\ [DeskNext]_deskVars => FeedInv'
  BY PartsMove, FeedStep
<1>3. FeedInv => Feed!DecidedWithin(ClockAhead)
  <2> SUFFICES ASSUME FeedInv, cycle.pc = "sending"
               PROVE  /\ \E t \in ticks : /\ t >= cycle.at - MaxQuoteAge - ClockAhead
                                            /\ Feed!Server(t) = cycle.quote
                      /\ Feed!Newest(Feed!Replay(cycle.at)) \in cycle.bars
    BY DEF Feed!DecidedWithin
  <2>1. PICK at, bars : at \in 0..now /\ at = cycle.at /\ bars = cycle.bars
    BY DEF FeedInv
  <2>2. Clock /\ IsEnd(bars, at) /\ bars # {}
    BY <2>1 DEF FeedInv
  <2>3. Feed!Newest(Feed!Replay(at)) \in bars
    BY <2>1, <2>2, NewestIsIn
  <2>4. PICK t \in ticks : Feed!Server(t) = cycle.quote
    BY DEF FeedInv
  <2>5. cycle.at - cycle.quote <= MaxQuoteAge /\ t \in Int /\ MaxQuoteAge \in Nat
    BY <2>2, FeedAssumption DEF FeedInv, Clock
  <2>6. t >= at - MaxQuoteAge - ClockAhead
    BY <2>1, <2>2, <2>4, <2>5 DEF Feed!Server, Clock
  <2> QED
    BY <2>1, <2>3, <2>4, <2>6
<1> QED
  BY <1>1, <1>2, <1>3, PTL DEF DeskSpec

-----------------------------------------------------------------------------
(* The hours of the sessions.                                              *)

HoursInv == halfHour \in 0..Hours!Week - 1 /\ summer \in Hours!Seasons

\* Time moves within the week and the season stays.
LEMMA HoursStay ==
    ASSUME HoursInv, [Hours!SessionsNext]_hourVars
    PROVE  HoursInv'
<1>1. CASE Hours!TimePasses
  BY <1>1 DEF HoursInv, Hours!TimePasses, Hours!Week, Hours!Day
<1>2. CASE Hours!NewWeek
  BY <1>2 DEF HoursInv, Hours!NewWeek, Hours!Week, Hours!Day
<1>3. CASE UNCHANGED hourVars
  BY <1>3 DEF HoursInv, hourVars
<1> QED
  BY <1>1, <1>2, <1>3 DEF Hours!SessionsNext

\* A day is 48 half hours, whatever the offset.
LEMMA OfADay ==
    ASSUME NEW u \in Int
    PROVE  /\ u \div 48 \in Int /\ u % 48 \in 0..47 /\ u = 48 * (u \div 48) + (u % 48)
           /\ \A k \in Int, r \in 0..47 : u = 48 * k + r => u % 48 = r /\ u \div 48 = k
<1> DEFINE q == u \div 48
           m == u % 48
<1>1. q \in Int /\ m \in 0..47 /\ u = 48 * q + m
  OBVIOUS
<1> HIDE DEF q, m
<1>2. \A k \in Int, r \in 0..47 : u = 48 * k + r => m = r /\ q = k
  BY <1>1
<1> QED
  BY <1>1, <1>2 DEF q, m

\* A window of the day that holds now: its opening is now less the time since that
\* hour, it holds all since, and not what was before.
LEMMA SinceOpening ==
    ASSUME NEW from \in 0..47, NEW to \in 0..47, NEW off \in Int, NEW t \in Int,
           Hours!Within((t + off) % 48, from, to)
    PROVE  LET start == t - ((((t + off) % 48) - from) % 48)
           IN /\ start \in Int /\ start <= t
              /\ \A i \in start..t : Hours!Within((i + off) % 48, from, to)
              /\ ~Hours!Within((start - 1 + off) % 48, from, to)
<1> DEFINE l == (t + off) % 48
           k == (t + off) \div 48
           e == (l - from) % 48
           start == t - e
<1>1. l \in 0..47 /\ k \in Int /\ t + off = 48 * k + l
  BY OfADay
<1>2. IF l >= from THEN e = l - from ELSE e = l - from + 48
  <2>1. CASE l >= from
    BY <1>1, <2>1, OfADay
  <2>2. CASE l < from
    <3> HIDE DEF l
    <3>1. l - from \in Int /\ l - from + 48 \in 0..47 /\ l - from = 48 * (-1) + (l - from + 48)
      BY <1>1, <2>2
    <3>2. (l - from) % 48 = l - from + 48
      BY <3>1, OfADay
    <3> QED
      BY <1>1, <2>2, <3>2
  <2> QED
    BY <1>1, <2>1, <2>2
<1>3. from <= to => from <= l /\ l < to
  BY DEF Hours!Within
<1>4. ~(from <= to) => l >= from \/ l < to
  BY DEF Hours!Within
<1> HIDE DEF l, k, e
<1>5. start \in Int /\ start <= t
  BY <1>1, <1>2
<1>6. ASSUME NEW i \in start..t
      PROVE  Hours!Within((i + off) % 48, from, to)
  <2> DEFINE r == i + off - 48 * k
             j == (i + off) % 48
  <2>1. i \in Int /\ start <= i /\ i <= t
    BY <1>5
  <2>2. r \in Int /\ i + off = 48 * k + r /\ i + off = 48 * (k - 1) + (r + 48) /\ r <= l /\ l - e <= r
    BY <1>1, <1>2, <2>1
  <2>3. IF r >= 0 THEN j = r ELSE j = r + 48
    <3> HIDE DEF r
    <3>1. CASE r >= 0
      <4>1. r \in 0..47 /\ i + off \in Int /\ k \in Int
        BY <1>1, <2>1, <2>2, <3>1
      <4>2. (i + off) % 48 = r
        BY <2>2, <4>1, OfADay, ZenonT(30)
      <4> QED
        BY <3>1, <4>2
    <3>2. CASE r < 0
      <4>1. r + 48 \in 0..47 /\ i + off \in Int /\ k - 1 \in Int
        BY <1>1, <1>2, <2>1, <2>2, <3>2
      <4> QED
        BY <2>2, <3>2, <4>1, OfADay
    <3> QED
      BY <2>2, <3>1, <3>2
  <2> HIDE DEF r, j
  <2>4. IF from <= to THEN from <= j /\ j < to ELSE j >= from \/ j < to
    BY <1>1, <1>2, <1>3, <1>4, <2>2, <2>3
  <2> QED
    BY <2>4 DEF Hours!Within, j
<1>7. ~Hours!Within((start - 1 + off) % 48, from, to)
  <2> DEFINE j == (start - 1 + off) % 48
             r == l - e - 1
  <2>1. r \in Int /\ start - 1 + off = 48 * k + r /\ start - 1 + off = 48 * (k - 1) + (r + 48)
    BY <1>1, <1>2
  <2>2. r = from - 1 \/ r = from - 49
    BY <1>1, <1>2
  <2>3. j = IF from = 0 THEN 47 ELSE from - 1
    <3> DEFINE u == start - 1 + off
    <3>1. u \in Int
      BY <1>5
    <3>2. \E h \in Int : u = 48 * h + (from - 1)
      <4>1. u = 48 * k + (from - 1) \/ u = 48 * (k - 1) + (from - 1)
        BY <1>1, <2>1, <2>2
      <4>2. k - 1 \in Int
        BY <1>1
      <4> HIDE DEF u
      <4> QED
        BY <1>1, <4>1, <4>2
    <3> HIDE DEF u, r
    <3>3. PICK h \in Int : u = 48 * h + (from - 1)
      BY <3>2
    <3>4. CASE from = 0
      <4>1. h - 1 \in Int /\ 47 \in 0..47 /\ u = 48 * (h - 1) + 47
        BY <3>1, <3>3, <3>4
      <4> QED
        BY <3>1, <3>4, <4>1, OfADay DEF u
    <3>5. CASE from # 0
      <4>1. from - 1 \in 0..47
        BY <3>5
      <4> QED
        BY <3>1, <3>3, <3>5, <4>1, OfADay DEF u
    <3> QED
      BY <3>4, <3>5
  <2> HIDE DEF j
  <2>4. ~(IF from <= to THEN from <= j /\ j < to ELSE j >= from \/ j < to)
    BY <2>3
  <2> QED
    BY <2>4 DEF Hours!Within, j
<1> QED
  BY <1>5, <1>6, <1>7 DEF l, e

\* What a city's clock is ahead of UTC.
LEMMA Offsets ==
    ASSUME HoursInv
    PROVE  Hours!Offset("London") \in {0, 2} /\ Hours!Offset("NewYork") \in {-10, -8}
<1>1. ~("London" = "NewYork")
  OBVIOUS
<1>2. Hours!Hour(5) = 10 /\ Hours!Hour(1) = 2
  BY DEF Hours!Hour
<1> QED
  BY <1>1, <1>2 DEF Hours!Offset

\* A window of a city, from its last opening on.
LEMMA CityIsOpen ==
    ASSUME HoursInv, NEW city \in {"London", "NewYork"}, NEW from \in 0..47, NEW to \in 0..47,
           Hours!Within(Hours!Local(city, halfHour), from, to)
    PROVE  LET start == Hours!Opening(halfHour, city, from)
           IN /\ start <= halfHour /\ (Hours!Local(city, halfHour) - from) % Hours!Day = halfHour - start
              /\ \A t \in start..halfHour : Hours!Within(Hours!Local(city, t), from, to)
              /\ ~Hours!Within(Hours!Local(city, start - 1), from, to)
<1> DEFINE off == Hours!Offset(city)
           start == halfHour - ((((halfHour + off) % 48) - from) % 48)
<1>1. off \in Int
  BY Offsets
<1>2. halfHour \in Int
  BY DEF HoursInv, Hours!Week, Hours!Day
<1>3. /\ \A t : Hours!Local(city, t) = (t + off) % 48
      /\ Hours!Opening(halfHour, city, from) = start
      /\ (Hours!Local(city, halfHour) - from) % Hours!Day = (((halfHour + off) % 48) - from) % 48
  BY DEF Hours!Local, Hours!Opening, Hours!Day
<1>4. (((halfHour + off) % 48) - from) % 48 = halfHour - start
  <2> DEFINE e == (((halfHour + off) % 48) - from) % 48
  <2>1. e \in Int
    <3>1. (halfHour + off) % 48 \in Int
      BY <1>1, <1>2, OfADay
    <3> QED
      BY <3>1, OfADay
  <2> HIDE DEF e
  <2> QED
    BY <1>2, <2>1 DEF e
<1> HIDE DEF off
<1>5. /\ start <= halfHour
      /\ \A i \in start..halfHour : Hours!Within((i + off) % 48, from, to)
      /\ ~Hours!Within((start - 1 + off) % 48, from, to)
  <2>1. Hours!Within((halfHour + off) % 48, from, to)
    BY <1>3, Zenon
  <2> QED
    BY <1>1, <1>2, <2>1, SinceOpening, ZenonT(30)
<1> HIDE DEF start
<1> QED
  BY <1>3, <1>4, <1>5, Zenon

\* The range that is read begins where the running session did.
LEMMA RangeHolds ==
    ASSUME HoursInv, AsiaEnd <= AsiaStart
    PROVE  Hours!RangeIsSession
<1> DEFINE s == Hours!SessionFor(halfHour)
           start == Hours!RangeStart(halfHour)
           Sound(into) == /\ start <= halfHour /\ into = halfHour - start
                          /\ \A t \in start..halfHour : Hours!HoursOf(s, t)
                          /\ ~Hours!HoursOf(s, start - 1)
<1>1. /\ AsiaStart \in 0..47 /\ AsiaEnd \in 0..47 /\ LondonStart \in 0..47 /\ LondonEnd \in 0..47
      /\ NewYorkStart \in 0..47 /\ NewYorkEnd \in 0..47
  BY SessionAssumption
<1>2. /\ s \in {"LONDON", "OVERLAP"} => Hours!InLondon(halfHour)
      /\ s = "NEW_YORK" => Hours!InNewYork(halfHour)
      /\ s = "ASIA" => Hours!InAsia(halfHour)
      /\ s \in {"LONDON", "OVERLAP", "NEW_YORK", "ASIA", "OFF"}
  BY DEF Hours!SessionFor
<1>3. SUFFICES ASSUME s # "OFF" PROVE Sound(Hours!Into(halfHour, s))
  BY DEF Hours!RangeIsSession
<1>4. CASE s \in {"LONDON", "OVERLAP"}
  <2>1. /\ start = Hours!Opening(halfHour, "London", LondonStart)
        /\ Hours!Into(halfHour, s) = (Hours!Local("London", halfHour) - LondonStart) % Hours!Day
        /\ \A t : Hours!HoursOf(s, t) = Hours!Within(Hours!Local("London", t), LondonStart, LondonEnd)
    BY <1>4 DEF Hours!RangeStart, Hours!SessionStart, Hours!Into, Hours!HoursOf, Hours!InLondon
  <2>2. Hours!Within(Hours!Local("London", halfHour), LondonStart, LondonEnd)
    BY <1>2, <1>4 DEF Hours!InLondon
  <2> HIDE DEF s, start
  <2> QED
    BY <1>1, <2>1, <2>2, CityIsOpen, Zenon
<1>5. CASE s = "NEW_YORK"
  <2>1. /\ start = Hours!Opening(halfHour, "NewYork", NewYorkStart)
        /\ Hours!Into(halfHour, s) = (Hours!Local("NewYork", halfHour) - NewYorkStart) % Hours!Day
        /\ \A t : Hours!HoursOf(s, t) = Hours!Within(Hours!Local("NewYork", t), NewYorkStart, NewYorkEnd)
    BY <1>5 DEF Hours!RangeStart, Hours!SessionStart, Hours!Into, Hours!HoursOf, Hours!InNewYork
  <2>2. Hours!Within(Hours!Local("NewYork", halfHour), NewYorkStart, NewYorkEnd)
    BY <1>2, <1>5 DEF Hours!InNewYork
  <2> HIDE DEF s, start
  <2> QED
    BY <1>1, <2>1, <2>2, CityIsOpen, Zenon
<1>6. CASE s = "ASIA"
  <2> DEFINE l == halfHour % 48
             e == (l - AsiaStart) % 48
  <2>1. /\ start = halfHour - l + AsiaStart - (IF l < AsiaEnd THEN 48 ELSE 0)
        /\ Hours!Into(halfHour, s) = e
        /\ \A t : Hours!HoursOf(s, t) = Hours!Within(t % 48, AsiaStart, AsiaEnd)
    BY <1>6 DEF Hours!RangeStart, Hours!SessionStart, Hours!Into, Hours!HoursOf, Hours!InAsia,
                Hours!OfDay, Hours!Day
  <2>2. Hours!Within(l, AsiaStart, AsiaEnd)
    BY <1>2, <1>6 DEF Hours!InAsia, Hours!OfDay, Hours!Day
  <2>3. halfHour \in Int /\ l \in 0..47
    BY OfADay DEF HoursInv, Hours!Week, Hours!Day
  <2>4. e = IF l >= AsiaStart THEN l - AsiaStart ELSE l - AsiaStart + 48
    <3> HIDE DEF l
    <3>1. CASE l >= AsiaStart
      BY <1>1, <2>3, <3>1, OfADay
    <3>2. CASE l < AsiaStart
      <4>1. l - AsiaStart \in Int /\ l - AsiaStart + 48 \in 0..47
            /\ l - AsiaStart = 48 * (-1) + (l - AsiaStart + 48)
        BY <1>1, <2>3, <3>2
      <4> QED
        BY <1>1, <2>3, <3>2, <4>1, OfADay
    <3> QED
      BY <1>1, <2>3, <3>1, <3>2
  <2>5. \/ l >= AsiaStart /\ ~(l < AsiaEnd)
        \/ l < AsiaEnd /\ ~(l >= AsiaStart)
    <3> HIDE DEF l
    <3> QED
      BY <1>1, <2>2, <2>3 DEF Hours!Within
  <2>6. start = halfHour - e
    <3> HIDE DEF l, e, start, s
    <3> QED
      BY <1>1, <2>1, <2>3, <2>4, <2>5
  <2>7. \A t \in Int : (t + 0) % 48 = t % 48
    OBVIOUS
  <2>8. /\ start \in Int /\ start <= halfHour
        /\ \A t \in start..halfHour : Hours!Within(t % 48, AsiaStart, AsiaEnd)
        /\ ~Hours!Within((start - 1) % 48, AsiaStart, AsiaEnd)
    <3> DEFINE begin == halfHour - ((((halfHour + 0) % 48) - AsiaStart) % 48)
    <3>1. begin = start
      <4> HIDE DEF start
      <4> QED
        BY <2>3, <2>6, <2>7
    <3>2. Hours!Within((halfHour + 0) % 48, AsiaStart, AsiaEnd)
      BY <2>2, <2>3, <2>7
    <3>3. /\ begin \in Int /\ begin <= halfHour
          /\ \A i \in begin..halfHour : Hours!Within((i + 0) % 48, AsiaStart, AsiaEnd)
          /\ ~Hours!Within((begin - 1 + 0) % 48, AsiaStart, AsiaEnd)
      <4>1. 0 \in Int
        OBVIOUS
      <4> QED
        BY <1>1, <2>3, <3>2, <4>1, SinceOpening, Zenon
    <3> HIDE DEF begin, start, l, s
    <3>4. /\ \A i \in start..halfHour : i \in Int
          /\ start - 1 \in Int
      BY <3>1, <3>3
    <3> QED
      BY <2>7, <3>1, <3>3, <3>4, Zenon
  <2>9. e = halfHour - start
    <3>1. e \in Int
      <4> HIDE DEF l
      <4> QED
        BY <1>1, <2>3, <2>4
    <3> HIDE DEF e, start
    <3> QED
      BY <2>3, <2>6, <3>1
  <2> HIDE DEF s, start, e, l
  <2> QED
    BY <2>1, <2>8, <2>9, Zenon
<1> HIDE DEF s, start
<1> QED
  BY <1>2, <1>3, <1>4, <1>5, <1>6

\* Whenever entries are allowed the market trades an hour before and two after.
LEMMA EdgesHold ==
    ASSUME HoursInv, Weekdays \subseteq 0..4, BlockLast >= 4
    PROVE  Hours!EdgesQuiet
<1>1. halfHour \in 0..335
  BY DEF HoursInv, Hours!Week, Hours!Day
<1>2. SUFFICES ASSUME Hours!IsTradableWindow(halfHour), NEW t \in halfHour - 2..halfHour + 3
               PROVE  Hours!Trades(t)
  <2>1. halfHour - Hours!Hour(1) = halfHour - 2 /\ halfHour + Hours!Hour(2) - 1 = halfHour + 3
    BY <1>1 DEF Hours!Hour
  <2> QED
    BY <2>1, Zenon DEF Hours!EdgesQuiet
<1> DEFINE off == Hours!Offset("NewYork")
           d == halfHour \div 48
<1>3. off \in {-10, -8}
  BY Offsets
<1>4. d \in 0..6 /\ 48 * d <= halfHour /\ halfHour < 48 * d + 48
  BY <1>1, OfADay
<1>5. (d + 6) % 7 \in 0..4 /\ (d + 6) % 7 = Hours!Weekday(halfHour)
  BY <1>2 DEF Hours!IsTradableWindow, Hours!Weekday, Hours!Day
<1>6. d \in 1..5
  <2> HIDE DEF d
  <2> QED
    BY <1>4, <1>5
<1>7. halfHour <= 278
  <2>1. d = 5 => halfHour < 282
    <3>1. d = 5 => Hours!Weekday(halfHour) = 4
      <4> HIDE DEF d
      <4> QED
        BY <1>4, <1>5
    <3>2. Hours!OfDay(halfHour) = halfHour - 48 * d
      <4>1. Hours!OfDay(halfHour) = halfHour % 48
        BY DEF Hours!OfDay, Hours!Day
      <4> QED
        BY <1>1, <4>1, OfADay
    <3> HIDE DEF d
    <3> QED
      BY <1>1, <1>2, <3>1, <3>2 DEF Hours!IsTradableWindow, Hours!IsMarketOpen, Hours!Hour
  <2>2. Hours!ToWeekClose(halfHour) = (282 - halfHour) % 336 /\ Hours!ToWeekClose(halfHour) >= 4
    <3>1. Hours!ToWeekClose(halfHour) = (282 - halfHour) % 336
      BY DEF Hours!ToWeekClose, Hours!Hour, Hours!Week, Hours!Day
    <3>2. Hours!ToWeekClose(halfHour) >= BlockLast
      BY <1>2 DEF Hours!IsTradableWindow
    <3>3. (282 - halfHour) % 336 \in Int /\ BlockLast \in Int
      BY <1>1, SessionAssumption
    <3> QED
      BY <3>1, <3>2, <3>3
  <2> HIDE DEF d
  <2>3. halfHour < 282
    BY <1>1, <1>4, <1>6, <2>1
  <2>4. (282 - halfHour) % 336 = 282 - halfHour
    BY <1>1, <2>3
  <2> QED
    BY <1>1, <2>2, <2>4
<1> HIDE DEF off, d
<1>8. t \in Int /\ 46 <= t /\ t <= 281
  BY <1>1, <1>4, <1>6, <1>7
<1> DEFINE u == t + off
           k == u \div 48
           m == u % 48
<1>9. u \in 36..273
  BY <1>3, <1>8
<1>10. k \in Int /\ m \in 0..47 /\ u = 48 * k + m
  BY <1>9, OfADay
<1>11. (u + 336) \div 48 = k + 7
  <2>1. u + 336 = 48 * (k + 7) + m /\ u + 336 \in Int /\ k + 7 \in Int
    <3> HIDE DEF u, k, m
    <3> QED
      BY <1>9, <1>10
  <2> HIDE DEF u, k, m
  <2> QED
    BY <1>10, <2>1, OfADay
<1>12. Hours!Local("NewYork", t) = m /\ Hours!Weekday(t + Hours!Offset("NewYork") + Hours!Week) = (k + 13) % 7
  <2>1. Hours!Local("NewYork", t) = m
    BY DEF Hours!Local, Hours!Day, off
  <2>2. Hours!Weekday(t + Hours!Offset("NewYork") + Hours!Week) = ((u + 336) \div 48 + 6) % 7
    BY DEF Hours!Weekday, Hours!Week, Hours!Day, off
  <2>3. k + 7 + 6 = k + 13
    <3> HIDE DEF k
    <3> QED
      BY <1>10
  <2> HIDE DEF u, k, m
  <2> QED
    BY <1>11, <2>1, <2>2, <2>3, Zenon
<1> HIDE DEF u, k, m
<1>13. /\ (k + 13) % 7 # 5 /\ ((k + 13) % 7 = 6 => m >= 36) /\ ((k + 13) % 7 = 4 => m < 34)
  <2>1. k \in 0..5
    BY <1>9, <1>10
  <2>2. k = 0 => m >= 36
    BY <1>9, <1>10
  <2>3. k = 5 => m < 34
    BY <1>9, <1>10
  <2>4. /\ (k + 13) % 7 = 4 => k = 5
        /\ (k + 13) % 7 = 6 => k = 0
        /\ (k + 13) % 7 # 5
    BY <2>1
  <2> QED
    BY <2>2, <2>3, <2>4, Zenon
<1> QED
  BY <1>12, <1>13 DEF Hours!Trades, Hours!Hour

\* In every season the high and the low of a session are taken over that session,
\* all of it and nothing else, and nothing is entered in the first hour or the last
\* two of the week: for all hours of the cities, if the Asian session is one that
\* crosses midnight, only Monday to Friday are traded, and the last two hours are
\* blocked.  The hours that the configuration blocks after the opening do not
\* matter: there is none between it and Monday.
THEOREM SessionsHold ==
    AsiaEnd <= AsiaStart /\ Weekdays \subseteq 0..4 /\ BlockLast >= 4 => (DeskSpec => []SessionsSound)
<1> SUFFICES ASSUME AsiaEnd <= AsiaStart, Weekdays \subseteq 0..4, BlockLast >= 4
             PROVE  DeskSpec => []SessionsSound
  OBVIOUS
<1>1. DeskInit => HoursInv
  BY DEF DeskInit, HoursInv, Hours!SessionsInit
<1>2. HoursInv /\ [DeskNext]_deskVars => HoursInv'
  BY PartsMove, HoursStay
<1>3. HoursInv => SessionsSound
  BY RangeHolds, EdgesHold DEF SessionsSound
<1> QED
  BY <1>1, <1>2, <1>3, PTL DEF DeskSpec

-----------------------------------------------------------------------------
(* The features that a scan reads, and what is one of them upside down.    *)

\* The fields of a feature, by its kind.
Well(f) ==
    /\ f.kind = "sweep" => /\ f.dir \in Scalps!Directions /\ f.pool \in Scalps!Prices /\ f.pen \in Int
                           /\ f.quality \in Int /\ f.after \in Int /\ f.age \in Int
    /\ f.kind = "shift" => f.dir \in Scalps!Directions /\ f.age \in Int /\ f.size \in Int
    /\ f.kind = "bos" => /\ f.dir \in Scalps!Directions /\ f.price \in Scalps!Prices /\ f.age \in Int
                         /\ f.size \in Int /\ f.body \in Int
    /\ f.kind \in {"gap", "block"} => /\ f.dir \in Scalps!Directions /\ f.top \in Scalps!Prices
                                      /\ f.bottom \in Scalps!Prices /\ f.size \in Int
    /\ f.kind = "level" => f.price \in Scalps!Prices /\ f.half \in Int
    /\ f.kind = "pool" => f.price \in Scalps!Prices
    /\ f.kind = "bias" => f.dir \in Scalps!Directions \cup {"none"}
    /\ f.kind = "range" => f.high \in Int /\ f.low \in Int
    /\ f.kind = "position" => f.dir \in Scalps!Directions /\ f.stop \in Scalps!Stops

\* The one feature is the other upside down.
Upturned(f, g) ==
    /\ g.kind = f.kind
    /\ f.kind \in {"sweep", "shift", "bos", "gap", "block", "bias", "position"} =>
         g.dir = Scalps!Opposite(f.dir)
    /\ f.kind \in {"gap", "block", "level", "pool", "bias"} => g.tf = f.tf
    /\ f.kind = "sweep" => /\ g.pool = 0 - f.pool /\ g.pen = f.pen /\ g.quality = f.quality
                           /\ g.after = f.after /\ g.age = f.age
    /\ f.kind = "shift" => g.age = f.age /\ g.size = f.size
    /\ f.kind = "bos" => /\ g.price = 0 - f.price /\ g.age = f.age /\ g.size = f.size /\ g.body = f.body
    /\ f.kind \in {"gap", "block"} => /\ g.top = 0 - f.bottom /\ g.bottom = 0 - f.top
                                      /\ g.size = f.size /\ (g.tradable <=> f.tradable)
    /\ f.kind = "level" => g.price = 0 - f.price /\ g.half = f.half
    /\ f.kind = "pool" => g.price = 0 - f.price /\ (g.resting <=> f.resting)
    /\ f.kind = "range" => g.high = 0 - f.low /\ g.low = 0 - f.high
    /\ f.kind = "position" => g.owner = f.owner /\ g.stop = Scalps!Negated(f.stop)

\* The two sides.
LEMMA Opposites ==
    /\ Scalps!Opposite("LONG") = "SHORT" /\ Scalps!Opposite("SHORT") = "LONG"
    /\ Scalps!Opposite("none") = "none"
    /\ \A d \in Scalps!Directions :
         /\ Scalps!Opposite(d) \in Scalps!Directions /\ Scalps!Opposite(Scalps!Opposite(d)) = d
         /\ Scalps!Opposite(d) # d
BY DEF Scalps!Opposite, Scalps!Directions

\* A price is turned over, what stands for none is not.
LEMMA Negatives ==
    /\ \A p \in Scalps!Prices : Scalps!Negated(p) = 0 - p /\ 0 - p \in Scalps!Prices /\ p \in Int
    /\ \A p \in Scalps!Stops : /\ Scalps!Negated(p) \in Scalps!Stops /\ Scalps!Negated(Scalps!Negated(p)) = p
                        /\ p \in Int
    /\ Scalps!Negated(Scalps!NoPrice) = Scalps!NoPrice
    /\ \A p \in Scalps!Prices, x \in Int : x - p <= 300 /\ p - x <= 300 =>
         Scalps!Negated(x) = 0 - x /\ Scalps!Negated(0 - x) = x /\ x \in Scalps!Nearby
    /\ \A x \in Scalps!Nearby : Scalps!Negated(x) = 0 - x
<1>1. Scalps!NoPrice \in Int /\ Scalps!Naked \in Int /\ Scalps!NoPrice > 9500 /\ Scalps!Naked > Scalps!NoPrice
  <2>1. Scalps!NoPrice \in Int /\ Scalps!NoPrice > 9500
    BY DEF Scalps!NoPrice
  <2>2. Scalps!Naked \in Int /\ Scalps!Naked > 10000
    BY DEF Scalps!Naked
  <2> QED
    BY <2>1, <2>2 DEF Scalps!NoPrice
<1> DEFINE bound == 9500
           least == 0 - bound
<1>2. bound \in Int /\ bound < Scalps!NoPrice
  BY <1>1
<1>3. \A n, p \in Int : p \in (0 - n)..n => 0 - p \in (0 - n)..n /\ 0 - (0 - p) = p /\ p <= n
  OBVIOUS
<1>4. \A p \in Scalps!Prices : p \in Int /\ 0 - p \in Scalps!Prices /\ p <= bound
  <2> DEFINE n == 9000
  <2>1. n \in Int /\ n <= bound /\ Scalps!Prices = (0 - n)..n
    BY DEF Scalps!Prices
  <2> HIDE DEF n, bound
  <2>2. bound \in Int
    BY <1>2
  <2> QED
    BY <1>3, <2>1, <2>2
<1>5. \A p \in least..bound : p \in Int /\ 0 - p \in least..bound /\ 0 - (0 - p) = p /\ p <= bound
  <2> HIDE DEF bound
  <2> QED
    BY <1>2, <1>3
<1>6. Scalps!Nearby = least..bound /\ Scalps!Stops = least..bound \cup {Scalps!Naked}
  <2>1. Scalps!Nearby = least..bound
    BY DEF Scalps!Nearby
  <2> HIDE DEF bound, least
  <2> QED
    BY <2>1, Zenon DEF Scalps!Stops
<1> HIDE DEF bound, least
<1>7. \A p \in Int : p <= bound => Scalps!Negated(p) = 0 - p
  BY <1>1, <1>2 DEF Scalps!Negated
<1>8. ASSUME NEW p \in Scalps!Stops
      PROVE  Scalps!Negated(p) \in Scalps!Stops /\ Scalps!Negated(Scalps!Negated(p)) = p /\ p \in Int
  <2>1. CASE p = Scalps!Naked
    BY <1>1, <1>6, <2>1 DEF Scalps!Negated
  <2>2. CASE p \in least..bound
    <3>1. Scalps!Negated(p) = 0 - p /\ Scalps!Negated(0 - p) = 0 - (0 - p)
      BY <1>5, <1>7, <2>2
    <3> QED
      BY <1>5, <1>6, <2>2, <3>1
  <2> QED
    BY <1>6, <2>1, <2>2
<1>9. Scalps!Negated(Scalps!NoPrice) = Scalps!NoPrice
  BY DEF Scalps!Negated
<1>10. ASSUME NEW p \in Scalps!Prices, NEW x \in Int, x - p <= 300, p - x <= 300
       PROVE  Scalps!Negated(x) = 0 - x /\ Scalps!Negated(0 - x) = x /\ x \in Scalps!Nearby
  <2>1. x \in least..bound
    <3> DEFINE n == 9000
    <3>1. Scalps!Prices = (0 - n)..n /\ n \in Int /\ n + 300 <= bound
      BY DEF Scalps!Prices, bound
    <3> HIDE DEF n
    <3>2. p \in Int /\ 0 - n <= p /\ p <= n
      BY <3>1
    <3> QED
      BY <1>2, <1>10, <3>1, <3>2 DEF least
  <2>2. x \in Int /\ x <= bound /\ 0 - x \in Int /\ 0 - x <= bound /\ 0 - (0 - x) = x
    BY <1>5, <2>1
  <2> QED
    BY <1>6, <1>7, <2>1, <2>2
<1>11. \A x \in Scalps!Nearby : Scalps!Negated(x) = 0 - x
  BY <1>5, <1>6, <1>7
<1> QED
  BY <1>4, <1>7, <1>8, <1>9, <1>10, <1>11

\* A sweep is turned over.
LEMMA SweepUp == \A f \in Scalps!SweepSights : Upturned(f, Scalps!MirrorOf(f)) /\ Well(f)
<1> SUFFICES ASSUME NEW f \in Scalps!SweepSights PROVE Upturned(f, Scalps!MirrorOf(f)) /\ Well(f)
  OBVIOUS
<1> DEFINE g == Scalps!MirrorOf(f)
<1>1. DOMAIN f = {"kind", "dir", "pool", "pen", "quality", "after", "age"} /\ f.kind = "sweep"
  BY DEF Scalps!SweepSights
<1>2. /\ g.kind = f.kind /\ g.dir = Scalps!Opposite(f.dir) /\ g.pool = Scalps!Negated(f.pool)
      /\ g.pen = f.pen /\ g.quality = f.quality /\ g.after = f.after /\ g.age = f.age
  BY <1>1 DEF Scalps!MirrorOf
<1>3. Well(f)
  BY <1>1 DEF Well, Scalps!SweepSights
<1>4. Scalps!Negated(f.pool) = 0 - f.pool
  BY <1>1, <1>3, Negatives DEF Well
<1> HIDE DEF g
<1>5. Upturned(f, g)
  BY <1>1, <1>2, <1>4 DEF Upturned
<1> QED
  BY <1>3, <1>5 DEF g

\* A shift is turned over.
LEMMA ShiftUp == \A f \in Scalps!ShiftSights : Upturned(f, Scalps!MirrorOf(f)) /\ Well(f)
<1> SUFFICES ASSUME NEW f \in Scalps!ShiftSights PROVE Upturned(f, Scalps!MirrorOf(f)) /\ Well(f)
  OBVIOUS
<1> DEFINE g == Scalps!MirrorOf(f)
<1>1. DOMAIN f = {"kind", "dir", "age", "size"} /\ f.kind = "shift"
  BY DEF Scalps!ShiftSights
<1>2. g.kind = f.kind /\ g.dir = Scalps!Opposite(f.dir) /\ g.age = f.age /\ g.size = f.size
  BY <1>1 DEF Scalps!MirrorOf
<1>3. Well(f)
  BY <1>1 DEF Well, Scalps!ShiftSights
<1> HIDE DEF g
<1>4. Upturned(f, g)
  BY <1>1, <1>2 DEF Upturned
<1> QED
  BY <1>3, <1>4 DEF g

\* A break of structure is turned over.
LEMMA BreakUp == \A f \in Scalps!BreakSights : Upturned(f, Scalps!MirrorOf(f)) /\ Well(f)
<1> SUFFICES ASSUME NEW f \in Scalps!BreakSights PROVE Upturned(f, Scalps!MirrorOf(f)) /\ Well(f)
  OBVIOUS
<1> DEFINE g == Scalps!MirrorOf(f)
<1>1. DOMAIN f = {"kind", "dir", "price", "age", "size", "body"} /\ f.kind = "bos"
  BY DEF Scalps!BreakSights
<1>2. /\ g.kind = f.kind /\ g.dir = Scalps!Opposite(f.dir) /\ g.price = Scalps!Negated(f.price)
      /\ g.age = f.age /\ g.size = f.size /\ g.body = f.body
  BY <1>1 DEF Scalps!MirrorOf
<1>3. Well(f)
  BY <1>1 DEF Well, Scalps!BreakSights
<1>4. Scalps!Negated(f.price) = 0 - f.price
  BY <1>1, <1>3, Negatives DEF Well
<1> HIDE DEF g
<1>5. Upturned(f, g)
  BY <1>1, <1>2, <1>4 DEF Upturned
<1> QED
  BY <1>3, <1>5 DEF g

\* A gap and a block are turned over: their top becomes the bottom.
LEMMA ZoneUp == \A f \in Scalps!ZoneSights : Upturned(f, Scalps!MirrorOf(f)) /\ Well(f)
<1> SUFFICES ASSUME NEW f \in Scalps!ZoneSights PROVE Upturned(f, Scalps!MirrorOf(f)) /\ Well(f)
  OBVIOUS
<1> DEFINE g == Scalps!MirrorOf(f)
<1>1. DOMAIN f = {"kind", "tf", "dir", "top", "bottom", "tradable", "size"} /\ f.kind \in {"gap", "block"}
  BY DEF Scalps!ZoneSights
<1>2. /\ g.kind = f.kind /\ g.tf = f.tf /\ g.dir = Scalps!Opposite(f.dir)
      /\ g.top = 0 - f.bottom /\ g.bottom = 0 - f.top /\ g.tradable = f.tradable /\ g.size = f.size
  BY <1>1 DEF Scalps!MirrorOf
<1>3. Well(f)
  BY <1>1 DEF Well, Scalps!ZoneSights
<1> HIDE DEF g
<1>4. Upturned(f, g)
  BY <1>1, <1>2 DEF Upturned
<1> QED
  BY <1>3, <1>4 DEF g

\* A level is turned over.
LEMMA LevelUp == \A f \in Scalps!LevelSights : Upturned(f, Scalps!MirrorOf(f)) /\ Well(f)
<1> SUFFICES ASSUME NEW f \in Scalps!LevelSights PROVE Upturned(f, Scalps!MirrorOf(f)) /\ Well(f)
  OBVIOUS
<1> DEFINE g == Scalps!MirrorOf(f)
<1>1. DOMAIN f = {"kind", "tf", "price", "half"} /\ f.kind = "level"
  BY DEF Scalps!LevelSights
<1>2. g.kind = f.kind /\ g.tf = f.tf /\ g.price = Scalps!Negated(f.price) /\ g.half = f.half
  BY <1>1 DEF Scalps!MirrorOf
<1>3. Well(f)
  BY <1>1 DEF Well, Scalps!LevelSights
<1>4. Scalps!Negated(f.price) = 0 - f.price
  BY <1>1, <1>3, Negatives DEF Well
<1> HIDE DEF g
<1>5. Upturned(f, g)
  BY <1>1, <1>2, <1>4 DEF Upturned
<1> QED
  BY <1>3, <1>5 DEF g

\* A pool is turned over.
LEMMA PoolUp == \A f \in Scalps!PoolSights : Upturned(f, Scalps!MirrorOf(f)) /\ Well(f)
<1> SUFFICES ASSUME NEW f \in Scalps!PoolSights PROVE Upturned(f, Scalps!MirrorOf(f)) /\ Well(f)
  OBVIOUS
<1> DEFINE g == Scalps!MirrorOf(f)
<1>1. DOMAIN f = {"kind", "tf", "price", "resting"} /\ f.kind = "pool"
  BY DEF Scalps!PoolSights
<1>2. /\ g.kind = f.kind /\ g.tf = f.tf
      /\ g.price = Scalps!Negated(f.price) /\ g.resting = f.resting
  BY <1>1 DEF Scalps!MirrorOf
<1>3. Well(f)
  BY <1>1 DEF Well, Scalps!PoolSights
<1>4. Scalps!Negated(f.price) = 0 - f.price
  BY <1>1, <1>3, Negatives DEF Well
<1> HIDE DEF g
<1>5. Upturned(f, g)
  BY <1>1, <1>2, <1>4 DEF Upturned
<1> QED
  BY <1>3, <1>5 DEF g

\* A bias is turned over; where there is none, there is none.
LEMMA BiasUp == \A f \in Scalps!BiasSights : Upturned(f, Scalps!MirrorOf(f)) /\ Well(f)
<1> SUFFICES ASSUME NEW f \in Scalps!BiasSights PROVE Upturned(f, Scalps!MirrorOf(f)) /\ Well(f)
  OBVIOUS
<1> DEFINE g == Scalps!MirrorOf(f)
<1>1. DOMAIN f = {"kind", "tf", "dir"} /\ f.kind = "bias"
  BY DEF Scalps!BiasSights
<1>2. g.kind = f.kind /\ g.tf = f.tf /\ g.dir = Scalps!Opposite(f.dir)
  BY <1>1 DEF Scalps!MirrorOf
<1>3. Well(f)
  BY <1>1 DEF Well, Scalps!BiasSights
<1> HIDE DEF g
<1>4. Upturned(f, g)
  BY <1>1, <1>2 DEF Upturned
<1> QED
  BY <1>3, <1>4 DEF g

\* A range is turned over: its high becomes the low.
LEMMA RangeUp == \A f \in Scalps!RangeSights : Upturned(f, Scalps!MirrorOf(f)) /\ Well(f)
<1> SUFFICES ASSUME NEW f \in Scalps!RangeSights PROVE Upturned(f, Scalps!MirrorOf(f)) /\ Well(f)
  OBVIOUS
<1> DEFINE g == Scalps!MirrorOf(f)
<1>1. DOMAIN f = {"kind", "high", "low"} /\ f.kind = "range"
  BY DEF Scalps!RangeSights
<1>2. g.kind = f.kind /\ g.high = 0 - f.low /\ g.low = 0 - f.high
  BY <1>1 DEF Scalps!MirrorOf
<1>3. Well(f)
  BY <1>1 DEF Well, Scalps!RangeSights
<1> HIDE DEF g
<1>4. Upturned(f, g)
  BY <1>1, <1>2 DEF Upturned
<1> QED
  BY <1>3, <1>4 DEF g

\* A position is turned over; a missing stop stays missing.
LEMMA PositionUp == \A f \in Scalps!PositionSights : Upturned(f, Scalps!MirrorOf(f)) /\ Well(f)
<1> SUFFICES ASSUME NEW f \in Scalps!PositionSights PROVE Upturned(f, Scalps!MirrorOf(f)) /\ Well(f)
  OBVIOUS
<1> DEFINE g == Scalps!MirrorOf(f)
<1>1. DOMAIN f = {"kind", "owner", "dir", "stop"} /\ f.kind = "position"
  BY DEF Scalps!PositionSights
<1>2. /\ g.kind = f.kind /\ g.owner = f.owner
      /\ g.dir = Scalps!Opposite(f.dir) /\ g.stop = Scalps!Negated(f.stop)
  BY <1>1 DEF Scalps!MirrorOf
<1>3. Well(f)
  BY <1>1 DEF Well, Scalps!PositionSights
<1> HIDE DEF g
<1>4. Upturned(f, g)
  BY <1>1, <1>2 DEF Upturned
<1> QED
  BY <1>3, <1>4 DEF g

\* Every feature is turned over, whatever its kind.
LEMMA SightUp ==
    ASSUME NEW f \in Scalps!Sights
    PROVE  /\ Upturned(f, Scalps!MirrorOf(f)) /\ Well(f)
           /\ f.kind = "position" => f \in Scalps!PositionSights
<1>1. CASE f \in Scalps!PositionSights
  BY <1>1, PositionUp
<1>2. CASE f \in Scalps!SweepSights
  BY <1>2, SweepUp DEF Scalps!SweepSights
<1>3. CASE f \in Scalps!ShiftSights
  BY <1>3, ShiftUp DEF Scalps!ShiftSights
<1>4. CASE f \in Scalps!BreakSights
  BY <1>4, BreakUp DEF Scalps!BreakSights
<1>5. CASE f \in Scalps!ZoneSights
  BY <1>5, ZoneUp DEF Scalps!ZoneSights
<1>6. CASE f \in Scalps!LevelSights
  BY <1>6, LevelUp DEF Scalps!LevelSights
<1>7. CASE f \in Scalps!PoolSights
  BY <1>7, PoolUp DEF Scalps!PoolSights
<1>8. CASE f \in Scalps!BiasSights
  BY <1>8, BiasUp DEF Scalps!BiasSights
<1>9. CASE f \in Scalps!RangeSights
  BY <1>9, RangeUp DEF Scalps!RangeSights
<1> QED
  BY <1>1, <1>2, <1>3, <1>4, <1>5, <1>6, <1>7, <1>8, <1>9 DEF Scalps!Sights

-----------------------------------------------------------------------------
(* The scalps: what worsens the market does not make a trade of it.        *)

\* A feature that a rule can calculate with.
Readable(f) ==
    /\ f.kind = "sweep" => /\ f.pool \in Int /\ f.pen \in Int /\ f.quality \in Int
                           /\ f.after \in Int /\ f.age \in Int
    /\ f.kind = "shift" => f.age \in Int /\ f.size \in Int
    /\ f.kind = "bos" => f.price \in Int /\ f.age \in Int /\ f.size \in Int /\ f.body \in Int
    /\ f.kind \in {"gap", "block"} => f.top \in Int /\ f.bottom \in Int /\ f.size \in Int
    /\ f.kind = "level" => f.price \in Int /\ f.half \in Int
    /\ f.kind = "pool" => f.price \in Int

\* The invariant of the scalps.
ScalpInv ==
    /\ IsFiniteSet(market) /\ conditions \in ScalpSettings
    /\ \A f \in market : Readable(f)

\* The features that may appear have numbers where a rule reads numbers.
LEMMA SightsAreReadable == \A f \in ScalpSights : Readable(f)
<1> SUFFICES ASSUME NEW f \in ScalpSights PROVE Readable(f)
  OBVIOUS
<1>1. f \in Scalps!Sights
  BY ScalpAssumption
<1>2. Well(f)
  BY <1>1, SightUp
<1>3. \A p \in Scalps!Prices : p \in Int
  BY Negatives
<1> QED
  BY <1>2, <1>3 DEF Readable, Well

\* A market is empty at the start.
LEMMA ScalpStart ==
    ASSUME Scalps!MarketInit
    PROVE  ScalpInv
BY FS_EmptySet DEF ScalpInv, Scalps!MarketInit

\* What appears is a feature that may, and a scan adds a position.
LEMMA ScalpStep ==
    ASSUME ScalpInv, [Scalps!ScalpNext]_scalpVars
    PROVE  ScalpInv'
<1>1. CASE Scalps!Scan
  <2>1. PICK p : market' = market \cup {p} /\ p.kind = "position" /\ conditions' = conditions
    BY <1>1 DEF Scalps!Scan
  <2>2. Readable(p)
    BY <2>1 DEF Readable
  <2> QED
    BY <2>1, <2>2, FS_AddElement DEF ScalpInv
<1>2. CASE Scalps!Appears
  <2>1. PICK f \in ScalpSights : market' = market \cup {f} /\ conditions' = conditions
    BY <1>2 DEF Scalps!Appears
  <2>2. Readable(f)
    BY SightsAreReadable
  <2> QED
    BY <2>1, <2>2, FS_AddElement DEF ScalpInv
<1>3. CASE Scalps!Vanishes
  <2>1. PICK f \in market : market' = market \ {f} /\ conditions' = conditions
    BY <1>3 DEF Scalps!Vanishes
  <2> QED
    BY <2>1, FS_RemoveElement DEF ScalpInv
<1>4. CASE UNCHANGED scalpVars
  BY <1>4 DEF ScalpInv, scalpVars
<1> QED
  BY <1>1, <1>2, <1>3, <1>4 DEF Scalps!ScalpNext

\* The target in parts: what is wanted, where that ends, and the walls before it.
Wish(base, stop) ==
    LET risk == Scalps!AbsOf(base - stop)
    IN IF Reach < (3 * risk) \div 2 THEN Reach ELSE (3 * risk) \div 2
End(d, base, stop) == IF d = "LONG" THEN base + Wish(base, stop) ELSE base - Wish(base, stop)
Before(d, base, stop, W) ==
    IF d = "LONG"
    THEN {w \in W : 4 * (w - base) >= 3 * Scalps!AbsOf(base - stop) /\ w <= End(d, base, stop)}
    ELSE {w \in W : 4 * (base - w) >= 3 * Scalps!AbsOf(base - stop) /\ w >= End(d, base, stop)}

\* The target: the nearest wall from three quarters of the risk on, if it is not
\* beyond the ideal.
LEMMA TargetIs ==
    ASSUME NEW base \in Int, NEW stop \in Int, NEW d \in {"LONG", "SHORT"}, NEW W,
           \A w \in W : w \in Int, 5 * Scalps!AbsOf(base - stop) >= 160
    PROVE  LET risk == Scalps!AbsOf(base - stop)
               before == Before(d, base, stop, W)
               target == Scalps!Target(base, stop, d, W)
           IN /\ risk \in Nat /\ risk >= 32 /\ Wish(base, stop) \in Nat
              /\ before = {} => target = End(d, base, stop)
              /\ before # {} => /\ target \in before
                                /\ \A w \in before : IF d = "LONG" THEN target <= w ELSE w <= target
<1> DEFINE risk == Scalps!AbsOf(base - stop)
           wanted == IF Reach < (3 * risk) \div 2 THEN Reach ELSE (3 * risk) \div 2
           far == IF d = "LONG" THEN base + wanted ELSE base - wanted
           ahead == IF d = "LONG" THEN {w \in W : 4 * (w - base) >= 3 * risk /\ w <= far}
                                  ELSE {w \in W : 4 * (base - w) >= 3 * risk /\ w >= far}
           target == Scalps!Target(base, stop, d, W)
<1>1. risk \in Nat /\ risk >= 32
  BY DEF Scalps!AbsOf
<1>2. Reach \in Nat
  BY ScalpAssumption
<1> HIDE DEF risk
<1>3. wanted \in Nat
  BY <1>1, <1>2
<1>4. target = IF ahead = {} THEN far ELSE IF d = "LONG" THEN Scalps!Min(ahead) ELSE Scalps!Max(ahead)
  BY DEF Scalps!Target, risk
<1>5. wanted = Wish(base, stop) /\ far = End(d, base, stop)
  BY DEF Wish, End, risk
<1>6. ahead = Before(d, base, stop, W)
  BY <1>5 DEF Before, risk
<1>7. CASE ahead # {} /\ d = "LONG"
  <2>1. \A w \in ahead : w \in Nat \/ w < 0
    OBVIOUS
  <2> DEFINE T == {w - base : w \in ahead}
  <2>2. \A w \in ahead : w \in Int /\ w - base \in Nat
    BY <1>1, <1>7
  <2> HIDE DEF ahead
  <2>3. T \in SUBSET Nat /\ T # {}
    BY <1>7, <2>2
  <2>4. PICK x \in T : \A y \in T : x <= y
    <3> HIDE DEF T
    <3> QED
      BY <2>3, SmallestExists
  <2>5. PICK m \in ahead : x = m - base
    OBVIOUS
  <2>6. \A w \in ahead : m <= w
    <3> SUFFICES ASSUME NEW w \in ahead PROVE m <= w
      OBVIOUS
    <3>1. x <= w - base
      BY <2>4
    <3> QED
      BY <2>2, <2>5, <3>1
  <2>7. Scalps!Min(ahead) \in ahead /\ \A w \in ahead : Scalps!Min(ahead) <= w
    BY <2>6, Zenon DEF Scalps!Min
  <2>8. target = Scalps!Min(ahead)
    BY <1>4, <1>7
  <2> HIDE DEF target, wanted, far
  <2> QED
    BY <1>1, <1>3, <1>5, <1>6, <1>7, <2>7, <2>8, Zenon DEF risk, target
<1>8. CASE ahead # {} /\ d = "SHORT"
  <2> DEFINE T == {base - w : w \in ahead}
  <2>1. ~(d = "LONG")
    BY <1>8
  <2>2. \A w \in ahead : w \in Int /\ base - w \in Nat
    BY <1>1, <1>8
  <2> HIDE DEF ahead
  <2>3. T \in SUBSET Nat /\ T # {}
    BY <1>8, <2>2
  <2>4. PICK x \in T : \A y \in T : x <= y
    <3> HIDE DEF T
    <3> QED
      BY <2>3, SmallestExists
  <2>5. PICK m \in ahead : x = base - m
    OBVIOUS
  <2>6. \A w \in ahead : w <= m
    <3> SUFFICES ASSUME NEW w \in ahead PROVE w <= m
      OBVIOUS
    <3>1. x <= base - w
      BY <2>4
    <3> QED
      BY <2>2, <2>5, <3>1
  <2>7. Scalps!Max(ahead) \in ahead /\ \A w \in ahead : w <= Scalps!Max(ahead)
    <3>1. \A w \in ahead : m >= w
      BY <2>2, <2>6
    <3>2. Scalps!Max(ahead) \in ahead /\ \A w \in ahead : Scalps!Max(ahead) >= w
      BY <3>1, Zenon DEF Scalps!Max
    <3> QED
      BY <2>2, <3>2
  <2>8. target = Scalps!Max(ahead)
    BY <1>4, <1>8
  <2> HIDE DEF target, wanted, far
  <2> QED
    BY <1>1, <1>3, <1>5, <1>6, <1>8, <2>1, <2>7, <2>8, Zenon DEF risk, target
<1>9. CASE ahead = {}
  <2> HIDE DEF ahead, far, wanted, target
  <2> QED
    BY <1>1, <1>3, <1>4, <1>5, <1>6, <1>9, Zenon DEF risk, target
<1> HIDE DEF ahead, target, far, wanted
<1> QED
  BY <1>7, <1>8, <1>9, Zenon

\* With fewer walls the target is as far or farther.
LEMMA FewerWalls ==
    ASSUME NEW base \in Int, NEW stop \in Int, NEW d \in {"LONG", "SHORT"}, NEW W, NEW V \in SUBSET W,
           \A w \in W : w \in Int, 5 * Scalps!AbsOf(base - stop) >= 160
    PROVE  LET near == Scalps!Target(base, stop, d, W)
               wide == Scalps!Target(base, stop, d, V)
           IN /\ near \in Int /\ wide \in Int
              /\ near # base => wide # base
              /\ Scalps!AbsOf(near - base) <= Scalps!AbsOf(wide - base)
<1> DEFINE risk == Scalps!AbsOf(base - stop)
           wanted == Wish(base, stop)
           far == End(d, base, stop)
           ahead(X) == Before(d, base, stop, X)
           near == Scalps!Target(base, stop, d, W)
           wide == Scalps!Target(base, stop, d, V)
<1>1. /\ risk \in Nat /\ risk >= 32 /\ wanted \in Nat
      /\ ahead(W) = {} => near = far
      /\ ahead(W) # {} => /\ near \in ahead(W)
                          /\ \A w \in ahead(W) : IF d = "LONG" THEN near <= w ELSE w <= near
  BY TargetIs, Zenon
<1>2. /\ ahead(V) = {} => wide = far
      /\ ahead(V) # {} => wide \in ahead(V)
  <2>1. \A w \in V : w \in Int
    OBVIOUS
  <2> QED
    BY <2>1, TargetIs, Zenon
<1> HIDE DEF near, wide, wanted, risk
<1>3. ahead(V) \subseteq ahead(W)
  BY DEF Before
<1>4. CASE d = "LONG"
  <2>1. far = base + wanted
    BY <1>4 DEF End, wanted
  <2>2. \A w \in ahead(W) : w \in Int /\ w > base /\ w <= far
    BY <1>1, <1>4 DEF Before, risk
  <2> HIDE DEF far, ahead
  <2>3. /\ near \in Int /\ wide \in Int /\ base <= near /\ near <= wide
    BY <1>1, <1>2, <1>3, <1>4, <2>1, <2>2
  <2> QED
    BY <2>3 DEF Scalps!AbsOf, near, wide
<1>5. CASE d = "SHORT"
  <2>1. far = base - wanted
    BY <1>5 DEF End, wanted
  <2>2. \A w \in ahead(W) : w \in Int /\ w < base /\ far <= w
    BY <1>1, <1>5 DEF Before, risk
  <2> HIDE DEF far, ahead
  <2>3. /\ near \in Int /\ wide \in Int /\ near <= base /\ wide <= near
    BY <1>1, <1>2, <1>3, <1>5, <2>1, <2>2
  <2> QED
    BY <2>3 DEF Scalps!AbsOf, near, wide
<1> QED
  BY <1>4, <1>5 DEF near, wide

\* The walls of a market that can be read are numbers.
LEMMA WallsAre ==
    ASSUME NEW m, \A f \in m : Readable(f), NEW d, NEW base
    PROVE  \A w \in Scalps!Walls(m, d, base) : w \in Int
<1>1. \A l \in Scalps!Kind(m, "level") : l.price \in Int /\ l.half \in Int
  BY DEF Scalps!Kind, Readable
<1>2. \A p \in Scalps!Kind(m, "pool") : p.price \in Int
  BY DEF Scalps!Kind, Readable
<1>3. \A k \in {"gap", "block"} : \A z \in Scalps!HigherZones(m, k) : z.top \in Int /\ z.bottom \in Int
  BY DEF Scalps!HigherZones, Scalps!Kind, Readable
<1>4. \A w \in Scalps!HigherWalls(m, d, base) : w \in Int
  <2> SUFFICES ASSUME NEW w \in Scalps!HigherWalls(m, d, base) PROVE w \in Int
    OBVIOUS
  <2>1. \/ \E l \in Scalps!Kind(m, "level") : w = IF d = "LONG" THEN l.price - l.half ELSE l.price + l.half
        \/ \E p \in Scalps!Kind(m, "pool") : w = p.price
        \/ \E z \in Scalps!HigherZones(m, "gap") \cup Scalps!HigherZones(m, "block") :
             w = IF d = "LONG" THEN z.bottom ELSE z.top
    BY DEF Scalps!HigherWalls
  <2>2. CASE \E l \in Scalps!Kind(m, "level") : w = IF d = "LONG" THEN l.price - l.half ELSE l.price + l.half
    BY <1>1, <2>2
  <2>3. CASE \E p \in Scalps!Kind(m, "pool") : w = p.price
    BY <1>2, <2>3
  <2>4. CASE \E z \in Scalps!HigherZones(m, "gap") \cup Scalps!HigherZones(m, "block") :
               w = IF d = "LONG" THEN z.bottom ELSE z.top
    BY <1>3, <2>4
  <2> QED
    BY <2>1, <2>2, <2>3, <2>4
<1> QED
  BY <1>1, <1>2, <1>4 DEF Scalps!Walls

\* What is not there is no wall.
LEMMA WallsOfLess ==
    ASSUME NEW m, NEW f, NEW d, NEW base
    PROVE  /\ Scalps!Walls(m \ {f}, d, base) \subseteq Scalps!Walls(m, d, base)
           /\ f.kind = "pool" /\ ~f.resting =>
                Scalps!Walls(m \ {f}, d, base) = Scalps!Walls(m, d, base)
<1> DEFINE n == m \ {f}
<1>1. \A k : Scalps!Kind(n, k) \subseteq Scalps!Kind(m, k)
  BY DEF Scalps!Kind
<1>2. \A k : Scalps!HigherZones(n, k) \subseteq Scalps!HigherZones(m, k)
  BY <1>1 DEF Scalps!HigherZones
<1> DEFINE Resting(r) == {x \in Scalps!Kind(r, "pool") : x.tf \in Scalps!HigherFrames /\ x.resting}
           Micro(r) == {x \in Scalps!Kind(r, "pool") : x.tf = "M5" /\ x.resting}
<1>3. Resting(n) \subseteq Resting(m) /\ Micro(n) \subseteq Micro(m)
  BY <1>1
<1> HIDE DEF n
<1>4. Scalps!Walls(n, d, base) \subseteq Scalps!Walls(m, d, base)
  <2>1. Scalps!HigherWalls(n, d, base) \subseteq Scalps!HigherWalls(m, d, base)
    BY <1>1, <1>2 DEF Scalps!HigherWalls
  <2> QED
    BY <1>1, <2>1 DEF Scalps!Walls
<1>5. ASSUME f.kind = "pool", ~f.resting
      PROVE  Scalps!Walls(n, d, base) = Scalps!Walls(m, d, base)
  <2>1. \A k : k # "pool" => Scalps!Kind(n, k) = Scalps!Kind(m, k)
    BY <1>5 DEF Scalps!Kind, n
  <2>2. Resting(n) = Resting(m) /\ Micro(n) = Micro(m)
    BY <1>5 DEF Scalps!Kind, n
  <2>3. Scalps!Kind(n, "level") = Scalps!Kind(m, "level")
    BY <2>1
  <2>4. /\ Scalps!HigherZones(n, "gap") = Scalps!HigherZones(m, "gap")
        /\ Scalps!HigherZones(n, "block") = Scalps!HigherZones(m, "block")
    BY <2>1 DEF Scalps!HigherZones
  <2>5. Scalps!HigherWalls(n, d, base) = Scalps!HigherWalls(m, d, base)
    BY <2>2, <2>3, <2>4, Zenon DEF Scalps!HigherWalls
  <2> QED
    BY <2>2, <2>3, <2>5, Zenon DEF Scalps!Walls
<1> QED
  BY <1>4, <1>5 DEF n

\* A market with other positions has the same walls and the same higher timeframes.
LEMMA PositionsAreNoWalls ==
    ASSUME NEW m, NEW n, \A k : k # "position" => Scalps!Kind(n, k) = Scalps!Kind(m, k),
           NEW d, NEW base
    PROVE  /\ Scalps!Walls(n, d, base) = Scalps!Walls(m, d, base)
           /\ Scalps!HtfFactor(n, d, base) = Scalps!HtfFactor(m, d, base)
<1>1. /\ Scalps!Kind(n, "level") = Scalps!Kind(m, "level")
      /\ Scalps!Kind(n, "pool") = Scalps!Kind(m, "pool")
      /\ Scalps!Kind(n, "bias") = Scalps!Kind(m, "bias")
      /\ Scalps!Kind(n, "range") = Scalps!Kind(m, "range")
      /\ Scalps!Kind(n, "gap") = Scalps!Kind(m, "gap")
      /\ Scalps!Kind(n, "block") = Scalps!Kind(m, "block")
  OBVIOUS
<1>2. /\ Scalps!HigherZones(n, "gap") = Scalps!HigherZones(m, "gap")
      /\ Scalps!HigherZones(n, "block") = Scalps!HigherZones(m, "block")
  BY <1>1, Zenon DEF Scalps!HigherZones
<1>3. Scalps!HigherWalls(n, d, base) = Scalps!HigherWalls(m, d, base)
  BY <1>1, <1>2, Zenon DEF Scalps!HigherWalls
<1>4. Scalps!Walls(n, d, base) = Scalps!Walls(m, d, base)
  BY <1>1, <1>3, Zenon DEF Scalps!Walls
<1>5. Scalps!Alignment(n, d) = Scalps!Alignment(m, d)
  <2>1. \A tf : Scalps!Agreement(n, d, tf) = Scalps!Agreement(m, d, tf)
    BY <1>1, Zenon DEF Scalps!Agreement
  <2>2. /\ Scalps!Agreement(n, d, "M15") = Scalps!Agreement(m, d, "M15")
        /\ Scalps!Agreement(n, d, "H1") = Scalps!Agreement(m, d, "H1")
        /\ Scalps!Agreement(n, d, "H4") = Scalps!Agreement(m, d, "H4")
        /\ Scalps!Agreement(n, d, "D1") = Scalps!Agreement(m, d, "D1")
    BY <2>1
  <2> QED
    BY <2>2 DEF Scalps!Alignment
<1>6. Scalps!Confluence(n, d, base) = Scalps!Confluence(m, d, base)
  <2>1. \A k \in {"gap", "block"} : Scalps!HigherZones(n, k) = Scalps!HigherZones(m, k)
    BY <1>2
  <2>2. /\ \A k \in {"level"} : Scalps!Kind(n, k) = Scalps!Kind(m, k)
        /\ \A k \in {"range"} : Scalps!Kind(n, k) = Scalps!Kind(m, k)
    BY <1>1
  <2>3. {k \in {"gap", "block"} : \E z \in Scalps!HigherZones(n, k) : z.dir = d /\ Scalps!Near(base, z)}
          = {k \in {"gap", "block"} : \E z \in Scalps!HigherZones(m, k) : z.dir = d /\ Scalps!Near(base, z)}
    BY <2>1, Zenon
  <2>4. {k \in {"level"} : \E l \in Scalps!Kind(n, k) : l.tf \in Scalps!HigherFrames /\ Scalps!Supports(d, base, l)}
          = {k \in {"level"} : \E l \in Scalps!Kind(m, k) : l.tf \in Scalps!HigherFrames /\ Scalps!Supports(d, base, l)}
    BY <2>2, Zenon
  <2>5. {k \in {"range"} : \E r \in Scalps!Kind(n, k) : Scalps!GoodHalf(d, base, r)}
          = {k \in {"range"} : \E r \in Scalps!Kind(m, k) : Scalps!GoodHalf(d, base, r)}
    BY <2>2, Zenon
  <2> QED
    BY <2>3, <2>4, <2>5, Zenon DEF Scalps!Confluence
<1>7. Scalps!HtfFactor(n, d, base) = Scalps!HtfFactor(m, d, base)
  BY <1>5, <1>6, Zenon DEF Scalps!HtfFactor
<1> QED
  BY <1>4, <1>7

\* The factor of the higher timeframes is a number.
LEMMA FactorIs ==
    ASSUME NEW m, NEW d, NEW base
    PROVE  Scalps!HtfFactor(m, d, base) \in Int
<1>1. \A tf : Scalps!Agreement(m, d, tf) \in Int
  BY DEF Scalps!Agreement
<1>2. Scalps!Alignment(m, d) \in Int
  <2> DEFINE a1 == Scalps!Agreement(m, d, "M15")
             a2 == Scalps!Agreement(m, d, "H1")
             a3 == Scalps!Agreement(m, d, "H4")
             a4 == Scalps!Agreement(m, d, "D1")
  <2>1. a1 \in Int /\ a2 \in Int /\ a3 \in Int /\ a4 \in Int
    BY <1>1
  <2>2. Scalps!Alignment(m, d) = (35 * a1 + 30 * a2 + 25 * a3 + 10 * a4) \div 100
    BY DEF Scalps!Alignment
  <2> HIDE DEF a1, a2, a3, a4
  <2> QED
    BY <2>1, <2>2
<1>3. Scalps!Confluence(m, d, base) \in Int
  <2> DEFINE hits == {k \in {"gap", "block"} : \E z \in Scalps!HigherZones(m, k) : z.dir = d /\ Scalps!Near(base, z)}
                     \cup {k \in {"level"} : \E l \in Scalps!Kind(m, k) : l.tf \in Scalps!HigherFrames /\ Scalps!Supports(d, base, l)}
                     \cup {k \in {"range"} : \E r \in Scalps!Kind(m, k) : Scalps!GoodHalf(d, base, r)}
             all == {"gap"} \cup {"block"} \cup {"level"} \cup {"range"}
  <2>1. IsFiniteSet(all)
    BY FS_Singleton, FS_Union
  <2>2. hits \in SUBSET all
    OBVIOUS
  <2>3. Scalps!Confluence(m, d, base) = 25 * Scalps!Cardinality(hits)
    BY DEF Scalps!Confluence
  <2>4. \A S : Scalps!Cardinality(S) = Cardinality(S)
    BY DEF Scalps!Cardinality, Scalps!IsFiniteSet, Cardinality, IsFiniteSet
  <2> HIDE DEF hits, all
  <2>5. Cardinality(hits) \in Nat
    BY <2>1, <2>2, FS_Subset, FS_CardinalityType
  <2> QED
    BY <2>3, <2>4, <2>5
<1> DEFINE a == Scalps!Alignment(m, d)
           h == Scalps!Confluence(m, d, base)
<1>4. Scalps!HtfFactor(m, d, base) = (65 * a + 35 * h) \div 100
  BY DEF Scalps!HtfFactor
<1> HIDE DEF a, h
<1> QED
  BY <1>2, <1>3, <1>4 DEF a, h

\* What is finished: the arguments, with the target of the market's walls.
LEMMA FinishIs ==
    ASSUME NEW m, NEW model, NEW d, NEW base, NEW stop, NEW ref, NEW parts, NEW s
    PROVE  s \in Scalps!Finish(m, model, d, base, stop, ref, parts) <=>
             /\ s = [model |-> model, dir |-> d, entry |-> base, stop |-> stop,
                     target |-> Scalps!Target(base, stop, d, Scalps!Walls(m, d, base)),
                     ref |-> ref, parts |-> parts, htf |-> Scalps!HtfFactor(m, d, base)]
             /\ 5 * Scalps!AbsOf(base - stop) >= 160 /\ 2 * Scalps!AbsOf(base - stop) <= 280
             /\ IF d = "LONG" THEN stop < base ELSE stop > base
             /\ Scalps!Target(base, stop, d, Scalps!Walls(m, d, base)) # base
<1> DEFINE target == Scalps!Target(base, stop, d, Scalps!Walls(m, d, base))
           risk == Scalps!AbsOf(base - stop)
           usable == /\ 5 * risk >= 160 /\ 2 * risk <= 280
                     /\ IF d = "LONG" THEN stop < base ELSE stop > base
                     /\ target # base
           fits == /\ 5 * risk >= 4 * Scalps!ATR /\ 2 * risk <= 7 * Scalps!ATR
                   /\ IF d = "LONG" THEN stop < base ELSE stop > base
                   /\ target # base
           r == [model |-> model, dir |-> d, entry |-> base, stop |-> stop, target |-> target,
                 ref |-> ref, parts |-> parts, htf |-> Scalps!HtfFactor(m, d, base)]
<1>1. 4 * Scalps!ATR = 160 /\ 7 * Scalps!ATR = 280
  BY DEF Scalps!ATR
<1>2. Scalps!Finish(m, model, d, base, stop, ref, parts) = {r : x \in {y \in {0} : fits}}
  BY DEF Scalps!Finish
<1> HIDE DEF r, target, risk
<1>3. s \in {r : x \in {y \in {0} : fits}} <=> s = r /\ usable
  BY <1>1
<1> HIDE DEF usable, fits
<1>4. s \in Scalps!Finish(m, model, d, base, stop, ref, parts) <=> s = r /\ usable
  BY <1>2, <1>3, Zenon
<1> QED
  BY <1>4, Zenon DEF r, usable, risk, target

\* Where a signal comes from: its model finishes it from an entry and a stop, and
\* what another market makes of these is among the signals of that market.
\* The factors of a model can be weighed.
Scored(p) ==
    p.structure \in Int /\ p.liquidity \in Int /\ p.momentum \in Int /\ p.location \in Int

\* The signal s of market m comes from arguments of Finish that give, in market n,
\* signals of S.
Finishes(s, m, n, model, d, S) ==
    \E b \in Int, stop \in Int : \E ref, parts :
        /\ s \in Scalps!Finish(m, model, d, b, stop, ref, parts)
        /\ Scalps!Finish(n, model, d, b, stop, ref, parts) \subseteq S
        /\ Scored(parts)

\* The factors of a model are between 0 and 100.
LEMMA PartsAreScored ==
    ASSUME NEW a \in Int, NEW b \in Int, NEW c \in Int, NEW e \in Int
    PROVE  Scored(Scalps!Parts(a, b, c, e))
<1>1. \A x \in Int : Scalps!Clamp(x) \in Int
  BY DEF Scalps!Clamp
<1> QED
  BY <1>1 DEF Scalps!Parts, Scored

\* The shares of which the parts are made.
LEMMA SharesAre ==
    ASSUME NEW x \in Int
    PROVE  /\ (100 * x) \div 150 \in Int /\ (100 * x) \div 120 \in Int /\ x \div 2 \in Int
           /\ Scalps!AbsOf(x) \in Int
           /\ 100 - (100 * Scalps!AbsOf(x)) \div (2 * Scalps!ATR) \in Int
           /\ 100 - (100 * Scalps!AbsOf(x)) \div ((3 * Scalps!ATR) \div 2) \in Int
           /\ 100 - (100 * Scalps!AbsOf(x)) \div (Scalps!ATR \div 2) \in Int
           /\ 100 - (100 * Scalps!AbsOf(x)) \div ((5 * Scalps!ATR) \div 2) \in Int
<1>1. Scalps!AbsOf(x) \in Int
  BY DEF Scalps!AbsOf
<1> DEFINE v == 100 * Scalps!AbsOf(x)
<1>2. v \in Int
  BY <1>1
<1>3. /\ 2 * Scalps!ATR = 80 /\ (3 * Scalps!ATR) \div 2 = 60 /\ Scalps!ATR \div 2 = 20
      /\ (5 * Scalps!ATR) \div 2 = 100
  BY DEF Scalps!ATR
<1> HIDE DEF v
<1>4. /\ 100 - v \div 80 \in Int /\ 100 - v \div 60 \in Int
      /\ 100 - v \div 20 \in Int /\ 100 - v \div 100 \in Int
  BY <1>2
<1>5. (100 * x) \div 150 \in Int /\ (100 * x) \div 120 \in Int /\ x \div 2 \in Int
  OBVIOUS
<1> QED
  BY <1>1, <1>3, <1>4, <1>5 DEF v

\* A shift has an age and a size.
LEMMA ShiftIs ==
    ASSUME NEW m, \A f \in m : Readable(f), NEW d, NEW t \in Scalps!RecentShift(m, d)
    PROVE  t.age \in Int /\ t.size \in Int
<1>1. t \in m /\ t.kind = "shift"
  BY DEF Scalps!RecentShift, Scalps!Facing, Scalps!Kind
<1> QED
  BY <1>1 DEF Readable

\* A sweep that reverses is finished in any market with the same sweeps and shifts.
LEMMA SweepingFinishes ==
    ASSUME NEW m, NEW n, \A f \in m : Readable(f), NEW d \in Scalps!Directions,
           Scalps!Kind(n, "sweep") = Scalps!Kind(m, "sweep"),
           Scalps!Kind(n, "shift") = Scalps!Kind(m, "shift"), NEW s \in Scalps!Sweeping(m, d)
    PROVE  Finishes(s, m, n, "sweep_reversal", d, Scalps!Sweeping(n, d))
<1> DEFINE fresh(r) == {x \in Scalps!Facing(r, "sweep", d) : x.age <= Scalps!ShiftWindow /\ x.quality >= 35}
           best(r) == {x \in fresh(r) : \A t \in fresh(r) : t.quality <= x.quality}
           extreme(x) == IF d = "LONG" THEN x.pool - x.pen ELSE x.pool + x.pen
           stop(x) == IF d = "LONG" THEN extreme(x) - Scalps!ATR \div 4 ELSE extreme(x) + Scalps!ATR \div 4
           shifts(r, x) == {u \in Scalps!RecentShift(r, d) : u.age <= x.age}
           parts(x, t) == Scalps!Parts((100 * t.size) \div 150, x.quality, x.after,
                                       100 - (100 * Scalps!AbsOf(x.pool)) \div (2 * Scalps!ATR))
           made(r, x, t) == Scalps!Finish(r, "sweep_reversal", d, 0, stop(x), x.pool, parts(x, t))
<1>1. \A r : Scalps!Sweeping(r, d) = UNION {UNION {made(r, x, t) : t \in shifts(r, x)} : x \in best(r)}
  BY DEF Scalps!Sweeping
<1>2. Scalps!RecentShift(n, d) = Scalps!RecentShift(m, d) /\ fresh(n) = fresh(m)
  BY Zenon DEF Scalps!RecentShift, Scalps!Facing
<1>3. /\ \A x : x \in best(m) => x \in best(n)
      /\ \A x, t : t \in shifts(m, x) => t \in shifts(n, x)
  <2> HIDE DEF fresh
  <2> QED
    BY <1>2
<1> HIDE DEF best, shifts, made
<1>4. PICK x \in best(m) : \E t \in shifts(m, x) : s \in made(m, x, t)
  BY <1>1
<1>5. PICK t \in shifts(m, x) : s \in made(m, x, t)
  BY <1>4
<1>6. made(n, x, t) \subseteq Scalps!Sweeping(n, d)
  <2>1. x \in best(n) /\ t \in shifts(n, x)
    BY <1>3, <1>5
  <2> QED
    BY <1>1, <2>1
<1>7. /\ x.pool \in Int /\ x.pen \in Int /\ x.quality \in Int /\ x.after \in Int
      /\ t.size \in Int
  <2>1. x \in m /\ x.kind = "sweep"
    BY DEF best, Scalps!Facing, Scalps!Kind
  <2>2. t \in Scalps!RecentShift(m, d)
    BY DEF shifts
  <2>3. t.size \in Int
    BY <2>2, ShiftIs
  <2> QED
    BY <2>1, <2>3 DEF Readable
<1>8. stop(x) \in Int
  BY <1>7 DEF Scalps!ATR
<1>9. Scored(parts(x, t))
  <2>1. (100 * t.size) \div 150 \in Int /\ 100 - (100 * Scalps!AbsOf(x.pool)) \div (2 * Scalps!ATR) \in Int
    BY <1>7, SharesAre, ZenonT(60)
  <2> QED
    BY <1>7, <2>1, PartsAreScored, Zenon
<1>10. 0 \in Int
  OBVIOUS
<1> HIDE DEF stop, parts
<1> QED
  BY <1>5, <1>6, <1>8, <1>9, <1>10, Zenon DEF Finishes, made

\* What the rules make of a zone is made of numbers.
LEMMA ZonesFinish ==
    ASSUME NEW m, \A f \in m : Readable(f), NEW d \in Scalps!Directions, NEW k \in {"gap", "block"},
           NEW z \in Scalps!NearestZone(m, k, d)
    PROVE  /\ Scalps!ZoneEntry(d, z) \in Int /\ Scalps!ZoneStop(d, z) \in Int
           /\ Scalps!ZoneLocation(d, z) \in Int /\ z.size \in Int
<1>1. z \in m /\ z.kind = k
  BY DEF Scalps!NearestZone, Scalps!Facing, Scalps!Kind
<1>2. z.top \in Int /\ z.bottom \in Int /\ z.size \in Int
  BY <1>1 DEF Readable
<1>3. Scalps!ZoneEntry(d, z) \in Int
  BY <1>2 DEF Scalps!ZoneEntry
<1>4. Scalps!ZoneStop(d, z) \in Int
  BY <1>2 DEF Scalps!ZoneStop, Scalps!ATR
<1>5. Scalps!ZoneLocation(d, z) \in Int
  BY <1>3, SharesAre DEF Scalps!ZoneLocation
<1> QED
  BY <1>2, <1>3, <1>4, <1>5

\* A gap that is retraced is finished wherever it is the nearest.
LEMMA RetracingFinishes ==
    ASSUME NEW m, NEW n, \A f \in m : Readable(f), NEW d \in Scalps!Directions,
           Scalps!NearestZone(n, "gap", d) = Scalps!NearestZone(m, "gap", d),
           Scalps!Kind(n, "shift") = Scalps!Kind(m, "shift"), NEW s \in Scalps!Retracing(m, d)
    PROVE  Finishes(s, m, n, "fvg_retracement", d, Scalps!Retracing(n, d))
<1> DEFINE structure(r) == IF Scalps!RecentShift(r, d) # {} THEN 100 ELSE 50
           parts(r, z) == Scalps!Parts(structure(r), 40, z.size \div 2, Scalps!ZoneLocation(d, z))
           made(r, q, z) == Scalps!Finish(r, "fvg_retracement", d, Scalps!ZoneEntry(d, z), Scalps!ZoneStop(d, z),
                                          Scalps!NoPrice, parts(q, z))
<1>1. \A r : Scalps!Retracing(r, d) = UNION {made(r, r, z) : z \in Scalps!NearestZone(r, "gap", d)}
  BY DEF Scalps!Retracing
<1>2. structure(n) = structure(m)
  BY ZenonT(60) DEF Scalps!RecentShift, Scalps!Facing
<1>3. structure(m) \in Int
  OBVIOUS
<1> HIDE DEF structure
<1>4. \A z : made(n, n, z) = made(n, m, z)
  BY <1>2, Zenon
<1> HIDE DEF made
<1>5. PICK z \in Scalps!NearestZone(m, "gap", d) : s \in made(m, m, z)
  BY <1>1
<1>6. made(n, m, z) \subseteq Scalps!Retracing(n, d)
  BY <1>1, <1>4
<1>7. /\ Scalps!ZoneEntry(d, z) \in Int /\ Scalps!ZoneStop(d, z) \in Int
      /\ Scalps!ZoneLocation(d, z) \in Int /\ z.size \in Int
  BY ZonesFinish
<1>8. Scored(parts(m, z))
  <2>1. z.size \div 2 \in Int /\ 40 \in Int
    BY <1>7, SharesAre
  <2> QED
    BY <1>3, <1>7, <2>1, PartsAreScored, Zenon
<1> HIDE DEF parts
<1> QED
  BY <1>5, <1>6, <1>7, <1>8, Zenon DEF Finishes, made

\* A block that price reacts to is finished wherever it is the nearest.
LEMMA ReactingFinishes ==
    ASSUME NEW m, NEW n, \A f \in m : Readable(f), NEW d \in Scalps!Directions,
           Scalps!NearestZone(n, "block", d) = Scalps!NearestZone(m, "block", d), NEW s \in Scalps!Reacting(m, d)
    PROVE  Finishes(s, m, n, "ob_reaction", d, Scalps!Reacting(n, d))
<1> DEFINE parts(z) == Scalps!Parts((100 * z.size) \div 150, 45, 50, Scalps!ZoneLocation(d, z))
           made(r, z) == Scalps!Finish(r, "ob_reaction", d, Scalps!ZoneEntry(d, z), Scalps!ZoneStop(d, z),
                                       Scalps!NoPrice, parts(z))
<1>1. \A r : Scalps!Reacting(r, d) = UNION {made(r, z) : z \in Scalps!NearestZone(r, "block", d)}
  BY DEF Scalps!Reacting
<1> HIDE DEF made
<1>2. PICK z \in Scalps!NearestZone(m, "block", d) : s \in made(m, z)
  BY <1>1
<1>3. made(n, z) \subseteq Scalps!Reacting(n, d)
  BY <1>1
<1>4. /\ Scalps!ZoneEntry(d, z) \in Int /\ Scalps!ZoneStop(d, z) \in Int
      /\ Scalps!ZoneLocation(d, z) \in Int /\ z.size \in Int
  BY ZonesFinish
<1>5. Scored(parts(z))
  <2>1. (100 * z.size) \div 150 \in Int /\ 45 \in Int /\ 50 \in Int
    BY <1>4, SharesAre, SMTT(60)
  <2> QED
    BY <1>4, <2>1, PartsAreScored, Zenon
<1> HIDE DEF parts
<1> QED
  BY <1>2, <1>3, <1>4, <1>5, Zenon DEF Finishes, made

\* A break has a price, a size and a body.
LEMMA BreakIs ==
    ASSUME NEW m, \A f \in m : Readable(f), NEW b \in Scalps!Kind(m, "bos")
    PROVE  b.price \in Int /\ b.size \in Int /\ b.body \in Int
BY DEF Readable, Scalps!Kind

\* A break that is retested is finished in any market with the same breaks.
LEMMA RetestingFinishes ==
    ASSUME NEW m, NEW n, \A f \in m : Readable(f), NEW d \in Scalps!Directions,
           Scalps!Kind(n, "bos") = Scalps!Kind(m, "bos"), NEW s \in Scalps!Retesting(m, d)
    PROVE  Finishes(s, m, n, "breakout_retest", d, Scalps!Retesting(n, d))
<1> DEFINE latest(r) == Scalps!Latest({x \in Scalps!Facing(r, "bos", d) : x.age <= Scalps!ShiftWindow})
           near(r) == {c \in latest(r) : Scalps!AbsOf(c.price) <= Scalps!ATR \div 2}
           stop(b) == IF d = "LONG" THEN b.price - (7 * Scalps!ATR) \div 20 ELSE b.price + (7 * Scalps!ATR) \div 20
           parts(b) == Scalps!Parts((100 * b.size) \div 150, 35, b.body,
                                    100 - (100 * Scalps!AbsOf(b.price)) \div (Scalps!ATR \div 2))
           made(r, b) == Scalps!Finish(r, "breakout_retest", d, 0, stop(b), b.price, parts(b))
<1>1. \A r : Scalps!Retesting(r, d) = UNION {made(r, b) : b \in near(r)}
  BY DEF Scalps!Retesting
<1>2. near(n) = near(m)
  BY Zenon DEF Scalps!Facing
<1>3. \A b \in near(m) : b \in Scalps!Kind(m, "bos")
  BY DEF Scalps!Latest, Scalps!Facing
<1> HIDE DEF near, made
<1>4. PICK b \in near(m) : s \in made(m, b)
  BY <1>1
<1>5. made(n, b) \subseteq Scalps!Retesting(n, d)
  BY <1>1, <1>2
<1>6. b.price \in Int /\ b.size \in Int /\ b.body \in Int
  BY <1>3, BreakIs
<1>7. stop(b) \in Int
  BY <1>6 DEF Scalps!ATR
<1>8. Scored(parts(b))
  <2>1. (100 * b.size) \div 150 \in Int /\ 100 - (100 * Scalps!AbsOf(b.price)) \div (Scalps!ATR \div 2) \in Int
    BY <1>6, SharesAre, ZenonT(60)
  <2>2. 35 \in Int
    OBVIOUS
  <2> QED
    BY <1>6, <2>1, <2>2, PartsAreScored, ZenonT(60)
<1>9. 0 \in Int
  OBVIOUS
<1> HIDE DEF stop, parts
<1> QED
  BY <1>4, <1>5, <1>7, <1>8, <1>9, Zenon DEF Finishes, made

\* A continuation is finished under any conditions of the same strong regime.
LEMMA ContinuingFinishes ==
    ASSUME NEW m, NEW n, \A f \in m : Readable(f), NEW d \in Scalps!Directions, NEW c, NEW e,
           Scalps!Regime(c) \in {"STRONG_BULL", "STRONG_BEAR"} => Scalps!Regime(e) = Scalps!Regime(c),
           Scalps!Kind(n, "bos") = Scalps!Kind(m, "bos"),
           Scalps!Kind(n, "shift") = Scalps!Kind(m, "shift"), NEW s \in Scalps!Continuing(m, d, c)
    PROVE  Finishes(s, m, n, "momentum_continuation", d, Scalps!Continuing(n, d, e))
<1> DEFINE strong == IF d = "LONG" THEN "STRONG_BULL" ELSE "STRONG_BEAR"
           latest(r) == Scalps!Latest(Scalps!Kind(r, "bos"))
           with(r, g) == {x \in latest(r) : x.dir = d /\ Scalps!Regime(g) = strong}
           stop(b) == IF d = "LONG" THEN b.price - (3 * Scalps!ATR) \div 10 ELSE b.price + (3 * Scalps!ATR) \div 10
           parts(b, t) == Scalps!Parts((100 * b.size) \div 150, 30, (100 * t.size) \div 120,
                                       100 - (100 * Scalps!AbsOf(b.price)) \div ((5 * Scalps!ATR) \div 2))
           made(r, b, t) == Scalps!Finish(r, "momentum_continuation", d, 0, stop(b), b.price, parts(b, t))
<1>1. \A r, g : Scalps!Continuing(r, d, g) =
                  UNION {UNION {made(r, b, t) : t \in Scalps!RecentShift(r, d)} : b \in with(r, g)}
  BY DEF Scalps!Continuing
<1>2. Scalps!RecentShift(n, d) = Scalps!RecentShift(m, d) /\ latest(n) = latest(m)
  BY Zenon DEF Scalps!RecentShift, Scalps!Facing
<1>3. \A b \in with(m, c) : b \in Scalps!Kind(m, "bos")
  BY DEF Scalps!Latest
<1>4. with(m, c) \subseteq with(n, e)
  BY <1>2
<1> HIDE DEF with, made
<1>5. PICK b \in with(m, c), t \in Scalps!RecentShift(m, d) : s \in made(m, b, t)
  BY <1>1
<1>6. made(n, b, t) \subseteq Scalps!Continuing(n, d, e)
  <2>1. b \in with(n, e) /\ t \in Scalps!RecentShift(n, d)
    BY <1>2, <1>4
  <2> QED
    BY <1>1, <2>1
<1>7. b.price \in Int /\ b.size \in Int /\ t.size \in Int
  BY <1>3, BreakIs, ShiftIs
<1>8. stop(b) \in Int
  BY <1>7 DEF Scalps!ATR
<1>9. Scored(parts(b, t))
  <2>1. /\ (100 * b.size) \div 150 \in Int /\ (100 * t.size) \div 120 \in Int
        /\ 100 - (100 * Scalps!AbsOf(b.price)) \div ((5 * Scalps!ATR) \div 2) \in Int
    BY <1>7, SharesAre, ZenonT(60)
  <2>2. 30 \in Int
    OBVIOUS
  <2> QED
    BY <2>1, <2>2, PartsAreScored, ZenonT(60)
<1>10. 0 \in Int
  OBVIOUS
<1> HIDE DEF stop, parts
<1> QED
  BY <1>5, <1>6, <1>8, <1>9, <1>10, Zenon DEF Finishes, made

\* What is made of a signal in another market, or under other conditions, is a
\* signal there if the models read the same.
LEMMA SignalFinishes ==
    ASSUME NEW m, NEW n, \A f \in m : Readable(f), NEW c, NEW e,
           Scalps!Regime(c) \in {"STRONG_BULL", "STRONG_BEAR"} => Scalps!Regime(e) = Scalps!Regime(c),
           Scalps!Kind(n, "sweep") = Scalps!Kind(m, "sweep"),
           Scalps!Kind(n, "shift") = Scalps!Kind(m, "shift"),
           Scalps!Kind(n, "bos") = Scalps!Kind(m, "bos"),
           \A k \in {"gap", "block"}, d \in Scalps!Directions :
             Scalps!NearestZone(n, k, d) = Scalps!NearestZone(m, k, d),
           NEW s \in Scalps!Signals(m, c)
    PROVE  \E d \in Scalps!Directions : \E model : Finishes(s, m, n, model, d, Scalps!Signals(n, e))
<1> DEFINE all(r, d, g) == Scalps!Sweeping(r, d) \cup Scalps!Retracing(r, d) \cup Scalps!Reacting(r, d)
                           \cup Scalps!Retesting(r, d) \cup Scalps!Continuing(r, d, g)
<1>1. \A r, g, t : t \in Scalps!Signals(r, g) <=>
                     t.model \in ScalpModels /\ \E d \in Scalps!Directions : t \in all(r, d, g)
  BY DEF Scalps!Signals
<1>2. PICK d \in Scalps!Directions : s \in all(m, d, c)
  BY <1>1
<1>3. s.model \in ScalpModels
  BY <1>1
<1>4. ASSUME NEW model, NEW S \in SUBSET all(n, d, e), Finishes(s, m, n, model, d, S)
      PROVE  \E di \in Scalps!Directions : \E mo : Finishes(s, m, n, mo, di, Scalps!Signals(n, e))
  <2>1. PICK b \in Int, stop \in Int : \E ref, parts :
           /\ s \in Scalps!Finish(m, model, d, b, stop, ref, parts)
           /\ Scalps!Finish(n, model, d, b, stop, ref, parts) \subseteq S
           /\ Scored(parts)
    BY <1>4, Zenon DEF Finishes
  <2>2. PICK ref, parts :
           /\ s \in Scalps!Finish(m, model, d, b, stop, ref, parts)
           /\ Scalps!Finish(n, model, d, b, stop, ref, parts) \subseteq S
           /\ Scored(parts)
    BY <2>1, Zenon
  <2>3. s.model = model
    BY <2>2, FinishIs
  <2>4. ASSUME NEW t \in Scalps!Finish(n, model, d, b, stop, ref, parts)
        PROVE  t \in Scalps!Signals(n, e)
    <3>1. t.model = model
      BY FinishIs
    <3>2. t \in all(n, d, e)
      BY <2>2
    <3> HIDE DEF all
    <3> QED
      BY <1>1, <1>3, <2>3, <3>1, <3>2, Zenon
  <2>5. Scalps!Finish(n, model, d, b, stop, ref, parts) \subseteq Scalps!Signals(n, e)
    BY <2>4
  <2>6. Finishes(s, m, n, model, d, Scalps!Signals(n, e))
    BY <2>2, <2>5, Zenon DEF Finishes
  <2>7. \E mo : Finishes(s, m, n, mo, d, Scalps!Signals(n, e))
    BY <2>6, Zenon
  <2> QED
    BY <2>7, Zenon
<1>5. CASE s \in Scalps!Sweeping(m, d)
  <2>1. Scalps!Sweeping(n, d) \in SUBSET all(n, d, e)
    OBVIOUS
  <2> HIDE DEF all
  <2> QED
    BY <1>4, <1>5, <2>1, SweepingFinishes, Zenon
<1>6. CASE s \in Scalps!Retracing(m, d)
  <2>1. Scalps!Retracing(n, d) \in SUBSET all(n, d, e)
    OBVIOUS
  <2> HIDE DEF all
  <2>2. Scalps!NearestZone(n, "gap", d) = Scalps!NearestZone(m, "gap", d)
    OBVIOUS
  <2> QED
    BY <1>4, <1>6, <2>1, <2>2, RetracingFinishes, Zenon
<1>7. CASE s \in Scalps!Reacting(m, d)
  <2>1. Scalps!Reacting(n, d) \in SUBSET all(n, d, e)
    OBVIOUS
  <2> HIDE DEF all
  <2>2. Scalps!NearestZone(n, "block", d) = Scalps!NearestZone(m, "block", d)
    OBVIOUS
  <2> QED
    BY <1>4, <1>7, <2>1, <2>2, ReactingFinishes, Zenon
<1>8. CASE s \in Scalps!Retesting(m, d)
  <2>1. Scalps!Retesting(n, d) \in SUBSET all(n, d, e)
    OBVIOUS
  <2> HIDE DEF all
  <2> QED
    BY <1>4, <1>8, <2>1, RetestingFinishes, Zenon
<1>9. CASE s \in Scalps!Continuing(m, d, c)
  <2>1. Scalps!Continuing(n, d, e) \in SUBSET all(n, d, e)
    OBVIOUS
  <2> HIDE DEF all
  <2>2. Finishes(s, m, n, "momentum_continuation", d, Scalps!Continuing(n, d, e))
    BY <1>9, ContinuingFinishes, Zenon
  <2> QED
    BY <1>4, <2>1, <2>2, Zenon
<1> QED
  BY <1>2, <1>5, <1>6, <1>7, <1>8, <1>9

\* Without one of the walls ahead there is the same signal, and it aims as far or farther.
LEMMA WallsShorten ==
    ASSUME ScalpInv
    PROVE  Scalps!WallsOnlyShorten
<1> SUFFICES ASSUME NEW f \in market, Scalps!IsWall(f), NEW s \in Scalps!Signals(market, conditions)
             PROVE  \E t \in Scalps!Signals(market \ {f}, conditions) :
                      /\ Scalps!Same(s, t)
                      /\ Scalps!Reward(s) <= Scalps!Reward(t)
                      /\ f.kind = "pool" /\ ~f.resting => Scalps!Reward(s) = Scalps!Reward(t)
  BY DEF Scalps!WallsOnlyShorten
<1> DEFINE n == market \ {f}
<1>1. \A g \in market : Readable(g)
  BY DEF ScalpInv
<1>2. /\ Scalps!Kind(n, "sweep") = Scalps!Kind(market, "sweep")
      /\ Scalps!Kind(n, "shift") = Scalps!Kind(market, "shift")
      /\ Scalps!Kind(n, "bos") = Scalps!Kind(market, "bos")
  BY DEF Scalps!IsWall, Scalps!Kind
<1>3. \A k \in {"gap", "block"}, d \in Scalps!Directions :
        Scalps!NearestZone(n, k, d) = Scalps!NearestZone(market, k, d)
  <2> SUFFICES ASSUME NEW k \in {"gap", "block"}, NEW d \in Scalps!Directions
               PROVE  Scalps!NearestZone(n, k, d) = Scalps!NearestZone(market, k, d)
    OBVIOUS
  <2>1. {z \in Scalps!Facing(n, k, d) : z.tf = "M5" /\ z.tradable}
          = {z \in Scalps!Facing(market, k, d) : z.tf = "M5" /\ z.tradable}
    BY DEF Scalps!IsWall, Scalps!Facing, Scalps!Kind
  <2> HIDE DEF n
  <2> QED
    BY <2>1, Zenon DEF Scalps!NearestZone
<1>4. PICK d \in Scalps!Directions :
        \E model : Finishes(s, market, n, model, d, Scalps!Signals(n, conditions))
  <2> HIDE DEF n
  <2> QED
    BY <1>1, <1>2, <1>3, SignalFinishes, Zenon
<1>5. PICK model : Finishes(s, market, n, model, d, Scalps!Signals(n, conditions))
  BY <1>4
<1>6. PICK b \in Int, stop \in Int : \E ref, parts :
        /\ s \in Scalps!Finish(market, model, d, b, stop, ref, parts)
        /\ Scalps!Finish(n, model, d, b, stop, ref, parts) \subseteq Scalps!Signals(n, conditions)
  BY <1>5, Zenon DEF Finishes
<1>7. PICK ref, parts :
        /\ s \in Scalps!Finish(market, model, d, b, stop, ref, parts)
        /\ Scalps!Finish(n, model, d, b, stop, ref, parts) \subseteq Scalps!Signals(n, conditions)
  BY <1>6, Zenon
<1> DEFINE W == Scalps!Walls(market, d, b)
           V == Scalps!Walls(n, d, b)
           near == Scalps!Target(b, stop, d, W)
           wide == Scalps!Target(b, stop, d, V)
           t == [model |-> model, dir |-> d, entry |-> b, stop |-> stop, target |-> wide,
                 ref |-> ref, parts |-> parts, htf |-> Scalps!HtfFactor(n, d, b)]
<1>8. /\ s = [model |-> model, dir |-> d, entry |-> b, stop |-> stop, target |-> near,
              ref |-> ref, parts |-> parts, htf |-> Scalps!HtfFactor(market, d, b)]
      /\ 5 * Scalps!AbsOf(b - stop) >= 160 /\ 2 * Scalps!AbsOf(b - stop) <= 280
      /\ IF d = "LONG" THEN stop < b ELSE stop > b
      /\ near # b
  BY <1>7, FinishIs, ZenonT(60)
<1>9. V \in SUBSET W /\ \A w \in W : w \in Int
  BY <1>1, WallsOfLess, WallsAre, Zenon
<1>10. f.kind = "pool" /\ ~f.resting => wide = near
  <2>1. f.kind = "pool" /\ ~f.resting => V = W
    BY WallsOfLess
  <2> HIDE DEF V, W, n
  <2> QED
    BY <2>1, Zenon
<1>11. d \in {"LONG", "SHORT"}
  BY DEF Scalps!Directions
<1>12. /\ near # b => wide # b
       /\ near \in Int /\ wide \in Int
       /\ Scalps!AbsOf(near - b) <= Scalps!AbsOf(wide - b)
  <2> HIDE DEF V, W
  <2> QED
    BY <1>8, <1>9, <1>11, FewerWalls, Zenon
<1>13. t \in Scalps!Finish(n, model, d, b, stop, ref, parts)
  <2> HIDE DEF n
  <2> QED
    BY <1>8, <1>12, FinishIs, Zenon
<1>14. t \in Scalps!Signals(n, conditions)
  BY <1>7, <1>13
<1>15. /\ s.model = model /\ s.dir = d /\ s.entry = b /\ s.stop = stop /\ s.target = near
       /\ t.model = model /\ t.dir = d /\ t.entry = b /\ t.stop = stop /\ t.target = wide
  <2> HIDE DEF near, wide, n
  <2> QED
    BY <1>8
<1> HIDE DEF t, n, near, wide
<1>16. Scalps!Same(s, t)
  BY <1>15, Zenon DEF Scalps!Same
<1>17. Scalps!Reward(s) = Scalps!AbsOf(near - b) /\ Scalps!Reward(t) = Scalps!AbsOf(wide - b)
  BY <1>15 DEF Scalps!Reward
<1> QED
  BY <1>10, <1>12, <1>14, <1>16, <1>17, Zenon DEF n

\* The score falls with the news, whatever else it counts.
LEMMA ScoreFalls ==
    ASSUME NEW s, Scored(s.parts), s.htf \in Int, NEW c, NEW e,
           e.fast = c.fast, e.session = c.session, c.fast \in Nat,
           c.session \in {"OVERLAP", "LONDON", "NEW_YORK", "ASIA", "OFF"},
           Scalps!NewsFactor(c.news) \in Int, Scalps!NewsFactor(e.news) \in Int,
           Scalps!NewsFactor(c.news) <= Scalps!NewsFactor(e.news),
           Scalps!Score(s, c) >= 100 * MinScore
    PROVE  Scalps!Score(s, e) >= 100 * MinScore
<1> DEFINE v == Scalps!VolatilityFactor(c.fast)
           h == Scalps!SessionFactor(c.session)
           x == Scalps!NewsFactor(c.news)
           y == Scalps!NewsFactor(e.news)
<1>1. v \in Int
  <2> DEFINE ratio == (100 * c.fast) \div 40
  <2>1. ratio \in Int
    OBVIOUS
  <2>2. v = IF ratio < 20 \/ ratio > 90 THEN 20
            ELSE Scalps!Clamp(100 - (100 * Scalps!AbsOf(ratio - 45)) \div 45)
    BY DEF Scalps!VolatilityFactor, Scalps!ATR
  <2> HIDE DEF ratio
  <2> DEFINE share == 100 - (100 * Scalps!AbsOf(ratio - 45)) \div 45
  <2>3. Scalps!AbsOf(ratio - 45) \in Int
    BY <2>1 DEF Scalps!AbsOf
  <2>4. share \in Int
    BY <2>3
  <2> HIDE DEF share
  <2>5. Scalps!Clamp(share) \in Int
    BY <2>4 DEF Scalps!Clamp
  <2> QED
    BY <2>2, <2>5 DEF share
<1>2. h \in Int
  BY DEF Scalps!SessionFactor
<1>3. /\ s.parts.structure \in Int /\ s.parts.liquidity \in Int
      /\ s.parts.momentum \in Int /\ s.parts.location \in Int
  BY DEF Scored
<1>4. /\ Scalps!Score(s, c) = 20 * s.parts.structure + 18 * s.parts.liquidity + 13 * s.parts.momentum
                              + 15 * s.parts.location + 9 * v + 4 * h + 160 + 5 * x + 12 * s.htf
      /\ Scalps!Score(s, e) = 20 * s.parts.structure + 18 * s.parts.liquidity + 13 * s.parts.momentum
                              + 15 * s.parts.location + 9 * v + 4 * h + 160 + 5 * y + 12 * s.htf
  BY DEF Scalps!Score, Scalps!DxyFactor
<1>5. MinScore \in Nat
  BY ScalpAssumption
<1> HIDE DEF v, h, x, y
<1>6. x \in Int /\ y \in Int /\ x <= y
  BY DEF x, y
<1> QED
  BY <1>1, <1>2, <1>3, <1>4, <1>5, <1>6

\* What the worse conditions change.
LEMMA WorseIs ==
    ASSUME conditions \in ScalpSettings, conditions.spread <= MaxSpread,
           conditions.spread <= 4 * MedianSpread, NEW c \in Scalps!Worse(conditions)
    PROVE  /\ c.fast = conditions.fast /\ c.session = conditions.session
           /\ Scalps!NewsFactor(c.news) \in Int /\ Scalps!NewsFactor(conditions.news) \in Int
           /\ Scalps!NewsFactor(c.news) <= Scalps!NewsFactor(conditions.news)
           /\ Scalps!SpreadOf(c.spread) \in Int /\ Scalps!SpreadOf(conditions.spread) \in Int
           /\ Scalps!SpreadOf(conditions.spread) <= Scalps!SpreadOf(c.spread)
           /\ Scalps!Regime(c) \in {"STRONG_BULL", "STRONG_BEAR"} => Scalps!Regime(conditions) = Scalps!Regime(c)
<1> DEFINE k == conditions
           heats == {[k EXCEPT !.heat = 400]}
           news == {[k EXCEPT !.news = x] : x \in IF k.news \in {"LOW", "MODERATE"} THEN {"HIGH", "EXTREME"} ELSE {}}
           spreads == {[k EXCEPT !.spread = w] : w \in {Scalps!Unknown}
                         \cup (IF k.spread = Scalps!Unknown THEN {} ELSE k.spread..MaxSpread)}
<1>1. k \in [enough : BOOLEAN, heat : Nat, adx : Int, lean : {1, -1}, slope : Int, spread : Nat,
             blocked : BOOLEAN, news : {"LOW", "MODERATE", "HIGH", "EXTREME"},
             session : {"OVERLAP", "LONDON", "NEW_YORK", "ASIA", "OFF"}, fast : Nat]
  BY ScalpAssumption DEF Scalps!Settings
<1>2. c \in spreads \/ c \in heats \/ c \in news
  BY DEF Scalps!Worse
<1>3. MaxSpread \in Nat /\ MedianSpread \in Nat
  BY ScalpAssumption
<1>4. \A x \in {"LOW", "MODERATE", "HIGH", "EXTREME"} : Scalps!NewsFactor(x) \in Int
  BY DEF Scalps!NewsFactor
<1>5. k.spread \in Nat /\ k.news \in {"LOW", "MODERATE", "HIGH", "EXTREME"}
  BY <1>1
<1>6. Scalps!SpreadOf(k.spread) \in Int
  BY <1>3, <1>5 DEF Scalps!SpreadOf
<1> DEFINE Alike == c.adx = k.adx /\ c.lean = k.lean /\ c.slope = k.slope
<1>7. ASSUME Alike, Scalps!Abnormal(k) => Scalps!Abnormal(c)
      PROVE  Scalps!Regime(c) \in {"STRONG_BULL", "STRONG_BEAR"} => Scalps!Regime(k) = Scalps!Regime(c)
  <2>1. Scalps!Directional(c) <=> Scalps!Directional(k)
    BY <1>7, Zenon DEF Scalps!Directional
  <2>2. Scalps!Abnormal(c) => Scalps!Regime(c) = "ABNORMAL"
    BY Zenon DEF Scalps!Regime
  <2>3. ASSUME ~Scalps!Abnormal(c), ~Scalps!Abnormal(k)
        PROVE  Scalps!Regime(k) = Scalps!Regime(c)
    BY <1>7, <2>1, <2>3 DEF Scalps!Regime
  <2> QED
    BY <1>7, <2>2, <2>3
<1>8. CASE c \in spreads
  <2>1. PICK w \in {Scalps!Unknown} \cup (IF k.spread = Scalps!Unknown THEN {} ELSE k.spread..MaxSpread) :
          c = [k EXCEPT !.spread = w]
    BY <1>8
  <2>2. /\ c.fast = k.fast /\ c.session = k.session /\ c.news = k.news /\ c.heat = k.heat
        /\ Alike /\ c.spread = w
    BY <1>1, <2>1
  <2>3. c.enough = k.enough
    BY <1>1, <2>1
  <2>4. w \in Nat /\ (w = 0 \/ k.spread <= w)
    BY <1>3, <1>5, <2>1 DEF Scalps!Unknown
  <2>5. /\ Scalps!SpreadOf(w) \in Int /\ Scalps!SpreadOf(k.spread) <= Scalps!SpreadOf(w)
    <3>1. k.spread = 0 => w = 0
      BY <2>1 DEF Scalps!Unknown
    <3> QED
      BY <1>3, <1>5, <2>4, <3>1 DEF Scalps!SpreadOf, Scalps!Unknown
  <2>6. Scalps!Abnormal(k) => Scalps!Abnormal(c)
    <3>1. ~(k.spread > 4 * MedianSpread)
      BY <1>3, <1>5
    <3>2. k.heat > 300 => c.heat > 300
      BY <2>2, Zenon
    <3> QED
      BY <2>3, <3>1, <3>2, Zenon DEF Scalps!Abnormal
  <2>7. Scalps!NewsFactor(c.news) = Scalps!NewsFactor(k.news)
    BY <2>2, Zenon
  <2> QED
    BY <1>4, <1>5, <1>6, <1>7, <2>2, <2>5, <2>6, <2>7
<1>9. CASE c \in heats
  <2>1. c = [k EXCEPT !.heat = 400]
    BY <1>9
  <2>2. /\ c.fast = k.fast /\ c.session = k.session /\ c.news = k.news /\ c.heat = 400
        /\ c.spread = k.spread
    BY <1>1, <2>1
  <2>3. Alike
    BY <1>1, <2>1
  <2>4. 400 > 300
    OBVIOUS
  <2>5. Scalps!Abnormal(c)
    BY <2>2, <2>4, Zenon DEF Scalps!Abnormal
  <2>6. Scalps!NewsFactor(c.news) = Scalps!NewsFactor(k.news) /\ Scalps!SpreadOf(c.spread) = Scalps!SpreadOf(k.spread)
    BY <2>2, Zenon
  <2> QED
    BY <1>4, <1>5, <1>6, <1>7, <2>2, <2>3, <2>5, <2>6
<1>10. CASE c \in news
  <2>1. PICK x \in IF k.news \in {"LOW", "MODERATE"} THEN {"HIGH", "EXTREME"} ELSE {} : c = [k EXCEPT !.news = x]
    BY <1>10
  <2>2. /\ c.fast = k.fast /\ c.session = k.session /\ c.news = x /\ c.heat = k.heat
        /\ c.spread = k.spread
    BY <1>1, <2>1
  <2>3. Alike /\ c.enough = k.enough
    BY <1>1, <2>1
  <2>4. k.news \in {"LOW", "MODERATE"} /\ x \in {"HIGH", "EXTREME"}
    BY <2>1
  <2>5. Scalps!NewsFactor(x) <= Scalps!NewsFactor(k.news) /\ Scalps!NewsFactor(x) \in Int
    BY <2>4 DEF Scalps!NewsFactor
  <2>6. Scalps!Abnormal(k) => Scalps!Abnormal(c)
    BY <2>2, <2>3, Zenon DEF Scalps!Abnormal
  <2>7. Scalps!SpreadOf(c.spread) = Scalps!SpreadOf(k.spread)
    BY <2>2, Zenon
  <2> QED
    BY <1>4, <1>5, <1>6, <1>7, <2>2, <2>3, <2>5, <2>6, <2>7
<1> QED
  BY <1>2, <1>8, <1>9, <1>10

\* A signal has the target, the entry and the stop that its economics are made of.
LEMMA SignalIs ==
    ASSUME ScalpInv, NEW c, NEW s \in Scalps!Signals(market, c)
    PROVE  /\ Scored(s.parts) /\ s.htf \in Int
           /\ Scalps!Risk(s) \in Int /\ Scalps!Reward(s) \in Int
<1>1. \A g \in market : Readable(g)
  BY DEF ScalpInv
<1>2. PICK d \in Scalps!Directions :
        \E model : Finishes(s, market, market, model, d, Scalps!Signals(market, c))
  BY <1>1, SignalFinishes, Zenon
<1>3. PICK model : Finishes(s, market, market, model, d, Scalps!Signals(market, c))
  BY <1>2
<1>4. PICK b \in Int, stop \in Int : \E ref, parts :
        s \in Scalps!Finish(market, model, d, b, stop, ref, parts) /\ Scored(parts)
  BY <1>3, Zenon DEF Finishes
<1>5. PICK ref, parts : s \in Scalps!Finish(market, model, d, b, stop, ref, parts) /\ Scored(parts)
  BY <1>4, Zenon
<1> DEFINE W == Scalps!Walls(market, d, b)
           target == Scalps!Target(b, stop, d, W)
<1>6. /\ s = [model |-> model, dir |-> d, entry |-> b, stop |-> stop, target |-> target,
              ref |-> ref, parts |-> parts, htf |-> Scalps!HtfFactor(market, d, b)]
      /\ 5 * Scalps!AbsOf(b - stop) >= 160 /\ 2 * Scalps!AbsOf(b - stop) <= 280
      /\ IF d = "LONG" THEN stop < b ELSE stop > b
      /\ target # b
  BY <1>5, FinishIs, ZenonT(60)
<1>7. \A w \in W : w \in Int
  BY <1>1, WallsAre, Zenon
<1>8. d \in {"LONG", "SHORT"} /\ W \in SUBSET W
  BY DEF Scalps!Directions
<1>9. target \in Int
  <2> HIDE DEF W
  <2> QED
    BY <1>6, <1>7, <1>8, FewerWalls, Zenon
<1>10. Scalps!HtfFactor(market, d, b) \in Int
  BY FactorIs
<1> HIDE DEF target
<1>11. /\ s.entry = b /\ s.stop = stop /\ s.target = target /\ s.parts = parts
       /\ s.htf = Scalps!HtfFactor(market, d, b)
  BY <1>6
<1>12. \A x \in Int : Scalps!AbsOf(x) \in Int
  BY DEF Scalps!AbsOf
<1>13. Scalps!Risk(s) = Scalps!AbsOf(b - stop) /\ Scalps!Reward(s) = Scalps!AbsOf(target - b)
  BY <1>11 DEF Scalps!Risk, Scalps!Reward
<1>14. b - stop \in Int /\ target - b \in Int
  BY <1>9
<1> QED
  BY <1>5, <1>10, <1>11, <1>12, <1>13, <1>14

\* What a signal costs grows with the spread.
LEMMA CostsGrow ==
    ASSUME NEW s, Scalps!Risk(s) \in Int, Scalps!Reward(s) \in Int, NEW v, NEW w,
           Scalps!SpreadOf(v) \in Int, Scalps!SpreadOf(w) \in Int, Scalps!SpreadOf(v) <= Scalps!SpreadOf(w),
           Scalps!Affordable(s, w)
    PROVE  Scalps!Affordable(s, v)
<1> DEFINE a == Scalps!Risk(s)
           r == Scalps!Reward(s)
           x == Scalps!SpreadOf(v)
           y == Scalps!SpreadOf(w)
<1>1. SlipCost \in Nat /\ CommissionCost \in Nat
  BY ScalpAssumption
<1>2. \A u : Scalps!Affordable(s, u) <=>
          /\ 100 * (Scalps!SpreadOf(u) + SlipCost + CommissionCost + SlipCost) <= 35 * a
          /\ 55 * (r - (Scalps!SpreadOf(u) + SlipCost + CommissionCost))
               >= 50 * (a + (Scalps!SpreadOf(u) + SlipCost + CommissionCost + SlipCost))
  BY DEF Scalps!Affordable, Scalps!CostOnLoss, Scalps!CostOnWin
<1>3. a \in Int /\ r \in Int /\ x \in Int /\ y \in Int /\ x <= y
  OBVIOUS
<1>4. /\ 100 * (y + SlipCost + CommissionCost + SlipCost) <= 35 * a
      /\ 55 * (r - (y + SlipCost + CommissionCost)) >= 50 * (a + (y + SlipCost + CommissionCost + SlipCost))
  BY <1>2
<1> HIDE DEF a, r, x, y
<1>5. /\ 100 * (x + SlipCost + CommissionCost + SlipCost) <= 35 * a
      /\ 55 * (r - (x + SlipCost + CommissionCost)) >= 50 * (a + (x + SlipCost + CommissionCost + SlipCost))
  BY <1>1, <1>3, <1>4
<1> QED
  BY <1>2, <1>5 DEF x

\* What is approved under worse conditions is approved under these.
LEMMA WorseIsRefused ==
    ASSUME ScalpInv, conditions.spread <= MaxSpread, conditions.spread <= 4 * MedianSpread,
           NEW c \in Scalps!Worse(conditions)
    PROVE  Scalps!Approvals(market, c) \subseteq Scalps!Approvals(market, conditions)
<1> SUFFICES ASSUME NEW s \in Scalps!Approvals(market, c)
             PROVE  s \in Scalps!Approvals(market, conditions)
  OBVIOUS
<1>1. s \in Scalps!Signals(market, c) /\ Scalps!Approved(s, market, c)
  BY DEF Scalps!Approvals
<1>2. /\ \A g \in market : Readable(g)
      /\ conditions \in ScalpSettings
  BY DEF ScalpInv
<1>3. /\ c.fast = conditions.fast /\ c.session = conditions.session
      /\ Scalps!NewsFactor(c.news) \in Int /\ Scalps!NewsFactor(conditions.news) \in Int
      /\ Scalps!NewsFactor(c.news) <= Scalps!NewsFactor(conditions.news)
      /\ Scalps!SpreadOf(c.spread) \in Int /\ Scalps!SpreadOf(conditions.spread) \in Int
      /\ Scalps!SpreadOf(conditions.spread) <= Scalps!SpreadOf(c.spread)
      /\ Scalps!Regime(c) \in {"STRONG_BULL", "STRONG_BEAR"} => Scalps!Regime(conditions) = Scalps!Regime(c)
  BY <1>2, WorseIs
<1>4. s \in Scalps!Signals(market, conditions)
  <2>1. PICK d \in Scalps!Directions :
          \E model : Finishes(s, market, market, model, d, Scalps!Signals(market, conditions))
    BY <1>1, <1>2, <1>3, SignalFinishes, Zenon
  <2>2. PICK model : Finishes(s, market, market, model, d, Scalps!Signals(market, conditions))
    BY <2>1
  <2> QED
    BY <2>2, Zenon DEF Finishes
<1>5. /\ Scored(s.parts) /\ s.htf \in Int
      /\ Scalps!Risk(s) \in Int /\ Scalps!Reward(s) \in Int
  BY <1>1, SignalIs
<1>6. Scalps!Score(s, conditions) >= 100 * MinScore
  <2>1. Scalps!Score(s, c) >= 100 * MinScore
    BY <1>1, Zenon DEF Scalps!Approved
  <2>2. /\ conditions.fast \in Nat
        /\ conditions.session \in {"OVERLAP", "LONDON", "NEW_YORK", "ASIA", "OFF"}
    BY <1>2, ScalpAssumption DEF Scalps!Settings
  <2>3. c.fast \in Nat /\ c.session \in {"OVERLAP", "LONDON", "NEW_YORK", "ASIA", "OFF"}
    BY <1>3, <2>2, Zenon
  <2> QED
    BY <1>3, <1>5, <2>1, <2>3, ScoreFalls, Zenon
<1>7. Scalps!Affordable(s, conditions.spread)
  <2>1. Scalps!Affordable(s, c.spread)
    BY <1>1, Zenon DEF Scalps!Approved
  <2> QED
    BY <1>3, <1>5, <2>1, CostsGrow, Zenon
<1> QED
  BY <1>1, <1>4, <1>6, <1>7, Zenon DEF Scalps!Approvals, Scalps!Approved

\* What is approved beside one more position is approved without it.
LEMMA PositionIsRefused ==
    ASSUME ScalpInv, NEW p \in ScalpSights, p.kind = "position"
    PROVE  Scalps!Approvals(market \cup {p}, conditions) \subseteq Scalps!Approvals(market, conditions)
<1> SUFFICES ASSUME NEW s \in Scalps!Approvals(market \cup {p}, conditions)
             PROVE  s \in Scalps!Approvals(market, conditions)
  OBVIOUS
<1> DEFINE m == market \cup {p}
<1>1. s \in Scalps!Signals(m, conditions) /\ Scalps!Approved(s, m, conditions)
  BY DEF Scalps!Approvals
<1>2. \A f \in m : Readable(f)
  BY SightsAreReadable DEF ScalpInv
<1>3. \A k : k # "position" => Scalps!Kind(market, k) = Scalps!Kind(m, k)
  BY DEF Scalps!Kind
<1>4. Scalps!Kind(market, "position") \subseteq Scalps!Kind(m, "position") /\ IsFiniteSet(Scalps!Kind(m, "position"))
  <2>1. IsFiniteSet(m)
    BY FS_AddElement DEF ScalpInv
  <2>2. Scalps!Kind(market, "position") \subseteq Scalps!Kind(m, "position") /\ Scalps!Kind(m, "position") \subseteq m
    BY DEF Scalps!Kind
  <2> HIDE DEF m
  <2> QED
    BY <2>1, <2>2, FS_Subset
<1> HIDE DEF m
<1>5. /\ Scalps!Kind(market, "sweep") = Scalps!Kind(m, "sweep")
      /\ Scalps!Kind(market, "shift") = Scalps!Kind(m, "shift")
      /\ Scalps!Kind(market, "bos") = Scalps!Kind(m, "bos")
      /\ Scalps!Kind(market, "gap") = Scalps!Kind(m, "gap")
      /\ Scalps!Kind(market, "block") = Scalps!Kind(m, "block")
  BY <1>3
<1>6. \A k \in {"gap", "block"}, d \in Scalps!Directions :
        Scalps!NearestZone(market, k, d) = Scalps!NearestZone(m, k, d)
  <2> SUFFICES ASSUME NEW k \in {"gap", "block"}, NEW d \in Scalps!Directions
               PROVE  Scalps!NearestZone(market, k, d) = Scalps!NearestZone(m, k, d)
    OBVIOUS
  <2>1. Scalps!Kind(market, k) = Scalps!Kind(m, k)
    BY <1>5
  <2> QED
    BY <2>1, Zenon DEF Scalps!NearestZone, Scalps!Facing
<1>7. PICK d \in Scalps!Directions :
        \E model : Finishes(s, m, market, model, d, Scalps!Signals(market, conditions))
  BY <1>1, <1>2, <1>5, <1>6, SignalFinishes, Zenon
<1>8. PICK model : Finishes(s, m, market, model, d, Scalps!Signals(market, conditions))
  BY <1>7
<1>9. PICK b \in Int, stop \in Int : \E ref, parts :
        /\ s \in Scalps!Finish(m, model, d, b, stop, ref, parts)
        /\ Scalps!Finish(market, model, d, b, stop, ref, parts) \subseteq Scalps!Signals(market, conditions)
  BY <1>8, Zenon DEF Finishes
<1>10. PICK ref, parts :
        /\ s \in Scalps!Finish(m, model, d, b, stop, ref, parts)
        /\ Scalps!Finish(market, model, d, b, stop, ref, parts) \subseteq Scalps!Signals(market, conditions)
  BY <1>9, Zenon
<1>11. /\ Scalps!Walls(market, d, b) = Scalps!Walls(m, d, b)
       /\ Scalps!HtfFactor(market, d, b) = Scalps!HtfFactor(m, d, b)
  BY <1>3, PositionsAreNoWalls
<1>12. Scalps!Finish(market, model, d, b, stop, ref, parts) = Scalps!Finish(m, model, d, b, stop, ref, parts)
  BY <1>11, Zenon DEF Scalps!Finish
<1>13. s \in Scalps!Signals(market, conditions)
  BY <1>10, <1>12
<1>14. Scalps!Uncorrelated(s, market)
  <2>1. Scalps!Uncorrelated(s, m)
    BY <1>1, Zenon DEF Scalps!Approved
  <2> DEFINE T(r) == {q \in Scalps!Kind(r, "position") : q.dir = s.dir}
  <2>2. T(market) \subseteq T(m) /\ T(m) \subseteq Scalps!Kind(m, "position")
    BY <1>4
  <2>3. \A S : Scalps!Cardinality(S) = Cardinality(S)
    BY DEF Scalps!Cardinality, Scalps!IsFiniteSet, Cardinality, IsFiniteSet
  <2>4. Scalps!Cardinality(T(m)) + 1 <= SideCap
    BY <2>1 DEF Scalps!Uncorrelated
  <2>5. \A x \in Scalps!Exposures(market) : x \in Scalps!Exposures(m)
    BY <1>4 DEF Scalps!Exposures
  <2> HIDE DEF T
  <2>6. Cardinality(T(market)) \in Nat /\ Cardinality(T(m)) \in Nat /\ Cardinality(T(market)) <= Cardinality(T(m))
    BY <1>4, <2>2, FS_Subset, FS_CardinalityType
  <2>7. SideCap \in Nat
    BY ScalpAssumption
  <2>8. Scalps!Cardinality(T(market)) + 1 <= SideCap
    BY <2>3, <2>4, <2>6, <2>7
  <2> QED
    BY <2>1, <2>5, <2>8, Zenon DEF Scalps!Uncorrelated, T
<1>15. Scalps!Tolerated(s, market)
  <2>1. Scalps!Tolerated(s, m)
    BY <1>1, Zenon DEF Scalps!Approved
  <2> QED
    BY <1>4, <2>1 DEF Scalps!Tolerated
<1> QED
  BY <1>1, <1>13, <1>14, <1>15, Zenon DEF Scalps!Approvals, Scalps!Approved

\* What lies ahead shortens a target and never lengthens it, and what is worse never
\* turns a refused scalp into a trade: through the five models, the walls, the score,
\* the costs and the positions, for any market of features and any thresholds.  The
\* spreads of the conditions are supposed to be those that the regime controller lets
\* pass: an unreadable spread is charged as the widest allowed, but the regime takes
\* it for none, so that it helps where the spread was abnormal.
THEOREM ScalpsAreMonotone ==
    (\A c \in ScalpSettings : c.spread <= MaxSpread /\ c.spread <= 4 * MedianSpread)
      => (DeskSpec => []ScalpMonotone)
<1> SUFFICES ASSUME \A c \in ScalpSettings : c.spread <= MaxSpread /\ c.spread <= 4 * MedianSpread
             PROVE  DeskSpec => []ScalpMonotone
  OBVIOUS
<1>1. DeskInit => ScalpInv
  BY ScalpStart DEF DeskInit
<1>2. ScalpInv /\ [DeskNext]_deskVars => ScalpInv'
  BY PartsMove, ScalpStep
<1>3. ScalpInv => ScalpMonotone
  <2> SUFFICES ASSUME ScalpInv PROVE ScalpMonotone
    OBVIOUS
  <2>1. conditions.spread <= MaxSpread /\ conditions.spread <= 4 * MedianSpread
    BY DEF ScalpInv
  <2>2. \A c \in Scalps!Worse(conditions) : Scalps!Approvals(market, c) \subseteq Scalps!Approvals(market, conditions)
    BY <2>1, WorseIsRefused
  <2>3. \A p \in Scalps!Kind(ScalpSights, "position") :
          Scalps!Approvals(market \cup {p}, conditions) \subseteq Scalps!Approvals(market, conditions)
    <3>1. \A p \in Scalps!Kind(ScalpSights, "position") : p \in ScalpSights /\ p.kind = "position"
      BY DEF Scalps!Kind
    <3> QED
      BY <3>1, PositionIsRefused, Zenon
  <2>4. Scalps!WorseNeverApproves
    BY <2>2, <2>3, Zenon DEF Scalps!WorseNeverApproves
  <2> QED
    BY <2>4, WallsShorten, Zenon DEF ScalpMonotone
<1> QED
  BY <1>1, <1>2, <1>3, PTL DEF DeskSpec
-----------------------------------------------------------------------------
(* The scalps upside down: every piece of a model, in a market and in its   *)
(* twin.                                                                   *)

\* What is turned over turns back.
LEMMA UpturnedBack ==
    ASSUME NEW f, NEW g, Well(f), Upturned(f, g)
    PROVE  Well(g) /\ Upturned(g, f)
<1>1. g.kind = f.kind
  BY DEF Upturned
<1>2. CASE f.kind = "sweep"
  BY <1>1, <1>2, Opposites, Negatives DEF Well, Upturned
<1>3. CASE f.kind = "shift"
  BY <1>1, <1>3, Opposites, Negatives DEF Well, Upturned
<1>4. CASE f.kind = "bos"
  BY <1>1, <1>4, Opposites, Negatives DEF Well, Upturned
<1>5. CASE f.kind \in {"gap", "block"}
  BY <1>1, <1>5, Opposites, Negatives DEF Well, Upturned
<1>6. CASE f.kind = "level"
  BY <1>1, <1>6, Opposites, Negatives DEF Well, Upturned
<1>7. CASE f.kind = "pool"
  BY <1>1, <1>7, Opposites, Negatives DEF Well, Upturned
<1>8. CASE f.kind = "bias"
  BY <1>1, <1>8, Opposites, Negatives DEF Well, Upturned
<1>9. CASE f.kind = "range"
  BY <1>1, <1>9, Opposites, Negatives DEF Well, Upturned
<1>10. CASE f.kind = "position"
  BY <1>1, <1>10, Opposites, Negatives DEF Well, Upturned
<1>11. CASE f.kind \notin {"sweep", "shift", "bos", "gap", "block", "level", "pool", "bias", "range", "position"}
  BY <1>1, <1>11 DEF Well, Upturned
<1> QED
  BY <1>2, <1>3, <1>4, <1>5, <1>6, <1>7, <1>8, <1>9, <1>10, <1>11

\* How many positions stand on one side.
Crowd(m, d) == Cardinality({p \in Scalps!Kind(m, "position") : p.dir = d})

\* The one market is the other upside down.
Twins(m, n) ==
    /\ \A f \in m : Well(f)
    /\ \A f \in m : \E g \in n : Upturned(f, g)
    /\ \A g \in n : \E f \in m : Upturned(f, g)
    /\ \A d \in Scalps!Directions : Crowd(n, Scalps!Opposite(d)) = Crowd(m, d)

\* The twin of a twin.
LEMMA TwinsBack ==
    ASSUME NEW m, NEW n, Twins(m, n)
    PROVE  Twins(n, m)
<1>1. \A g \in n : \E f \in m : Upturned(f, g) /\ Well(g) /\ Upturned(g, f)
  BY UpturnedBack, Zenon DEF Twins
<1>2. \A f \in m : \E g \in n : Upturned(g, f)
  BY UpturnedBack, Zenon DEF Twins
<1>3. \A d \in Scalps!Directions : Crowd(m, Scalps!Opposite(d)) = Crowd(n, d)
  BY Opposites, Zenon DEF Twins
<1> QED
  BY <1>1, <1>2, <1>3, Zenon DEF Twins

\* Of every kind the features of twins are pairs.
LEMMA Pairs ==
    ASSUME NEW m, NEW n, Twins(m, n), NEW k
    PROVE  /\ \A f \in Scalps!Kind(m, k) : Well(f) /\ f.kind = k /\ \E g \in Scalps!Kind(n, k) : Upturned(f, g)
           /\ \A g \in Scalps!Kind(n, k) : \E f \in Scalps!Kind(m, k) : Upturned(f, g)
<1>1. \A f, g : Upturned(f, g) => g.kind = f.kind
  BY Zenon DEF Upturned
<1>2. \A r, f : f \in Scalps!Kind(r, k) <=> f \in r /\ f.kind = k
  BY DEF Scalps!Kind
<1>3. /\ \A f \in m : Well(f)
      /\ \A f \in m : \E g \in n : Upturned(f, g)
      /\ \A g \in n : \E f \in m : Upturned(f, g)
  BY Zenon DEF Twins
<1> QED
  BY <1>1, <1>2, <1>3, Zenon

\* Every frame agrees with a direction as it does with the other one upside down.
LEMMA AgreesAlike ==
    ASSUME NEW m, NEW n, Twins(m, n), NEW d \in Scalps!Directions, NEW tf
    PROVE  Scalps!Agreement(n, Scalps!Opposite(d), tf) = Scalps!Agreement(m, d, tf)
<1> DEFINE sides(r) == {b.dir : b \in {x \in Scalps!Kind(r, "bias") : x.tf = tf}}
<1>1. \A x \in sides(m) : x \in {"LONG", "SHORT", "none"} /\ Scalps!Opposite(x) \in sides(n)
  <2> SUFFICES ASSUME NEW f \in Scalps!Kind(m, "bias"), f.tf = tf
               PROVE  f.dir \in {"LONG", "SHORT", "none"} /\ Scalps!Opposite(f.dir) \in sides(n)
    OBVIOUS
  <2>1. PICK g \in Scalps!Kind(n, "bias") : Upturned(f, g)
    BY Pairs
  <2>2. Well(f) /\ f.kind = "bias"
    BY Pairs
  <2>3. g.dir = Scalps!Opposite(f.dir) /\ g.tf = tf
    BY <2>1, <2>2 DEF Upturned
  <2>4. f.dir \in {"LONG", "SHORT", "none"}
    BY <2>2 DEF Well, Scalps!Directions
  <2> QED
    BY <2>3, <2>4
<1>2. \A y \in sides(n) : \E x \in sides(m) : y = Scalps!Opposite(x)
  <2> SUFFICES ASSUME NEW g \in Scalps!Kind(n, "bias"), g.tf = tf
               PROVE  \E x \in sides(m) : g.dir = Scalps!Opposite(x)
    OBVIOUS
  <2>1. PICK f \in Scalps!Kind(m, "bias") : Upturned(f, g)
    BY Pairs
  <2>2. f.kind = "bias"
    BY Pairs
  <2>3. g.dir = Scalps!Opposite(f.dir) /\ f.tf = tf
    BY <2>1, <2>2 DEF Upturned
  <2> QED
    BY <2>3
<1>3. \A r, e : Scalps!Agreement(r, e, tf) = IF sides(r) = {} THEN 25
                                             ELSE IF sides(r) = {e} THEN 100
                                             ELSE IF sides(r) = {"none"} THEN 50 ELSE 0
  BY DEF Scalps!Agreement
<1> HIDE DEF sides
<1>4. d \in {"LONG", "SHORT"}
  BY DEF Scalps!Directions
<1>5. sides(m) = {} <=> sides(n) = {}
  BY <1>1, <1>2
<1>6. sides(m) = {d} <=> sides(n) = {Scalps!Opposite(d)}
  BY <1>1, <1>2, <1>4, Opposites
<1>7. sides(m) = {"none"} <=> sides(n) = {"none"}
  BY <1>1, <1>2, Opposites
<1> QED
  BY <1>3, <1>5, <1>6, <1>7

\* The higher timeframes are aligned with a direction as those upside down with the other.
LEMMA AlignedAlike ==
    ASSUME NEW m, NEW n, Twins(m, n), NEW d \in Scalps!Directions
    PROVE  Scalps!Alignment(n, Scalps!Opposite(d)) = Scalps!Alignment(m, d)
<1>1. \A tf : Scalps!Agreement(n, Scalps!Opposite(d), tf) = Scalps!Agreement(m, d, tf)
  BY AgreesAlike
<1>2. /\ Scalps!Agreement(n, Scalps!Opposite(d), "M15") = Scalps!Agreement(m, d, "M15")
      /\ Scalps!Agreement(n, Scalps!Opposite(d), "H1") = Scalps!Agreement(m, d, "H1")
      /\ Scalps!Agreement(n, Scalps!Opposite(d), "H4") = Scalps!Agreement(m, d, "H4")
      /\ Scalps!Agreement(n, Scalps!Opposite(d), "D1") = Scalps!Agreement(m, d, "D1")
  BY <1>1
<1> QED
  BY <1>2 DEF Scalps!Alignment

\* What price stands near, on or before is the same upside down.
LEMMA NearAlike ==
    ASSUME NEW f, NEW g, Well(f), Upturned(f, g), NEW d \in Scalps!Directions, NEW b \in Int
    PROVE  /\ f.kind \in {"gap", "block"} => (Scalps!Near(0 - b, g) <=> Scalps!Near(b, f))
           /\ f.kind = "level" => (Scalps!Supports(Scalps!Opposite(d), 0 - b, g) <=> Scalps!Supports(d, b, f))
           /\ f.kind = "range" => (Scalps!GoodHalf(Scalps!Opposite(d), 0 - b, g) <=> Scalps!GoodHalf(d, b, f))
<1>1. \A x \in Int : Scalps!AbsOf(x) = IF x < 0 THEN 0 - x ELSE x
  BY DEF Scalps!AbsOf
<1>2. \A x \in Int : Scalps!AbsOf(0 - x) = Scalps!AbsOf(x) /\ Scalps!AbsOf(x) \in Int
  BY <1>1
<1>3. Scalps!ATR \div 2 = 20
  BY DEF Scalps!ATR
<1>4. \/ d = "LONG" /\ Scalps!Opposite(d) = "SHORT"
      \/ d = "SHORT" /\ Scalps!Opposite(d) = "LONG"
  BY Opposites DEF Scalps!Directions
<1>5. ASSUME f.kind \in {"gap", "block"} PROVE Scalps!Near(0 - b, g) <=> Scalps!Near(b, f)
  <2>1. g.top = 0 - f.bottom /\ g.bottom = 0 - f.top
    BY <1>5 DEF Upturned
  <2>2. f.top \in Int /\ f.bottom \in Int
    BY <1>5, Negatives DEF Well
  <2>3. /\ (0 - b) - g.top = 0 - (b - f.bottom) /\ (0 - b) - g.bottom = 0 - (b - f.top)
        /\ b - f.bottom \in Int /\ b - f.top \in Int
    BY <2>1, <2>2
  <2>4. /\ Scalps!AbsOf((0 - b) - g.top) = Scalps!AbsOf(b - f.bottom)
        /\ Scalps!AbsOf((0 - b) - g.bottom) = Scalps!AbsOf(b - f.top)
    BY <1>2, <2>3
  <2>5. (g.bottom <= 0 - b /\ 0 - b <= g.top) <=> (f.bottom <= b /\ b <= f.top)
    BY <2>1, <2>2
  <2> QED
    BY <2>4, <2>5, Zenon DEF Scalps!Near
<1>6. ASSUME f.kind = "level"
      PROVE  Scalps!Supports(Scalps!Opposite(d), 0 - b, g) <=> Scalps!Supports(d, b, f)
  <2>1. g.price = 0 - f.price /\ g.half = f.half
    BY <1>6 DEF Upturned
  <2>2. f.price \in Int /\ f.half \in Int
    BY <1>6, Negatives DEF Well
  <2>3. g.price - (0 - b) = 0 - (f.price - b) /\ f.price - b \in Int
    BY <2>1, <2>2
  <2>4. Scalps!AbsOf(g.price - (0 - b)) = Scalps!AbsOf(f.price - b)
    BY <1>2, <2>3
  <2>5. /\ g.price <= 0 - b <=> f.price >= b
        /\ g.price >= 0 - b <=> f.price <= b
    BY <2>1, <2>2
  <2>6. (IF Scalps!Opposite(d) = "LONG" THEN g.price <= 0 - b ELSE g.price >= 0 - b)
          <=> (IF d = "LONG" THEN f.price <= b ELSE f.price >= b)
    BY <1>4, <2>5
  <2> QED
    BY <2>1, <2>4, <2>6, Zenon DEF Scalps!Supports
<1>7. ASSUME f.kind = "range"
      PROVE  Scalps!GoodHalf(Scalps!Opposite(d), 0 - b, g) <=> Scalps!GoodHalf(d, b, f)
  <2>1. g.high = 0 - f.low /\ g.low = 0 - f.high
    BY <1>7 DEF Upturned
  <2>2. f.high \in Int /\ f.low \in Int
    BY <1>7 DEF Well
  <2> QED
    BY <1>4, <2>1, <2>2 DEF Scalps!GoodHalf
<1> QED
  BY <1>5, <1>6, <1>7

\* The zones of the higher timeframes are pairs.
LEMMA ZonesPair ==
    ASSUME NEW m, NEW n, Twins(m, n), NEW k \in {"gap", "block"}
    PROVE  \A f \in Scalps!HigherZones(m, k) : Well(f) /\ f.kind = k /\ \E g \in Scalps!HigherZones(n, k) : Upturned(f, g)
<1> SUFFICES ASSUME NEW f \in Scalps!HigherZones(m, k)
             PROVE  Well(f) /\ f.kind = k /\ \E g \in Scalps!HigherZones(n, k) : Upturned(f, g)
  OBVIOUS
<1>1. \A r, x : x \in Scalps!HigherZones(r, k) <=> x \in Scalps!Kind(r, k) /\ x.tf \in Scalps!HigherFrames /\ x.tradable
  BY Zenon DEF Scalps!HigherZones
<1>2. f \in Scalps!Kind(m, k)
  BY <1>1
<1>3. Well(f) /\ f.kind = k /\ \E g \in Scalps!Kind(n, k) : Upturned(f, g)
  BY <1>2, Pairs
<1>4. PICK g \in Scalps!Kind(n, k) : Upturned(f, g)
  BY <1>3
<1>5. g.tf = f.tf /\ (g.tradable <=> f.tradable)
  BY <1>3, <1>4 DEF Upturned
<1> QED
  BY <1>1, <1>3, <1>4, <1>5, Zenon

\* What supports an entry supports its image.
LEMMA HitsFollow ==
    ASSUME NEW m, NEW n, Twins(m, n), NEW d \in Scalps!Directions, NEW b \in Int
    PROVE  /\ \A k \in {"gap", "block"} :
                (\E z \in Scalps!HigherZones(m, k) : z.dir = d /\ Scalps!Near(b, z))
                  => \E z \in Scalps!HigherZones(n, k) : z.dir = Scalps!Opposite(d) /\ Scalps!Near(0 - b, z)
           /\ (\E l \in Scalps!Kind(m, "level") : l.tf \in Scalps!HigherFrames /\ Scalps!Supports(d, b, l))
                => \E l \in Scalps!Kind(n, "level") :
                     l.tf \in Scalps!HigherFrames /\ Scalps!Supports(Scalps!Opposite(d), 0 - b, l)
           /\ (\E r \in Scalps!Kind(m, "range") : Scalps!GoodHalf(d, b, r))
                => \E r \in Scalps!Kind(n, "range") : Scalps!GoodHalf(Scalps!Opposite(d), 0 - b, r)
<1>1. ASSUME NEW k \in {"gap", "block"}, NEW f \in Scalps!HigherZones(m, k), f.dir = d, Scalps!Near(b, f)
      PROVE  \E z \in Scalps!HigherZones(n, k) : z.dir = Scalps!Opposite(d) /\ Scalps!Near(0 - b, z)
  <2>1. PICK g \in Scalps!HigherZones(n, k) : Upturned(f, g)
    BY ZonesPair
  <2>2. Well(f) /\ f.kind = k
    BY ZonesPair
  <2>3. g.dir = Scalps!Opposite(d)
    BY <1>1, <2>1, <2>2 DEF Upturned
  <2>4. Scalps!Near(0 - b, g)
    BY <1>1, <2>1, <2>2, NearAlike
  <2> QED
    BY <2>3, <2>4
<1>2. ASSUME NEW f \in Scalps!Kind(m, "level"), f.tf \in Scalps!HigherFrames, Scalps!Supports(d, b, f)
      PROVE  \E l \in Scalps!Kind(n, "level") :
               l.tf \in Scalps!HigherFrames /\ Scalps!Supports(Scalps!Opposite(d), 0 - b, l)
  <2>1. PICK g \in Scalps!Kind(n, "level") : Upturned(f, g)
    BY Pairs
  <2>2. Well(f) /\ f.kind = "level"
    BY Pairs
  <2>3. g.tf = f.tf
    BY <2>1, <2>2 DEF Upturned
  <2>4. Scalps!Supports(Scalps!Opposite(d), 0 - b, g)
    BY <1>2, <2>1, <2>2, NearAlike
  <2> QED
    BY <1>2, <2>3, <2>4
<1>3. ASSUME NEW f \in Scalps!Kind(m, "range"), Scalps!GoodHalf(d, b, f)
      PROVE  \E r \in Scalps!Kind(n, "range") : Scalps!GoodHalf(Scalps!Opposite(d), 0 - b, r)
  <2>1. PICK g \in Scalps!Kind(n, "range") : Upturned(f, g)
    BY Pairs
  <2>2. Well(f) /\ f.kind = "range"
    BY Pairs
  <2> QED
    BY <1>3, <2>1, <2>2, NearAlike
<1> QED
  BY <1>1, <1>2, <1>3, Zenon

\* The confluence of an entry is that of the entry upside down.
LEMMA FactorAlike ==
    ASSUME NEW m, NEW n, Twins(m, n), NEW d \in Scalps!Directions, NEW b \in Int
    PROVE  Scalps!HtfFactor(n, Scalps!Opposite(d), 0 - b) = Scalps!HtfFactor(m, d, b)
<1> DEFINE o == Scalps!Opposite(d)
           zone(r, e, x, k) == \E z \in Scalps!HigherZones(r, k) : z.dir = e /\ Scalps!Near(x, z)
           level(r, e, x, k) == \E l \in Scalps!Kind(r, k) : l.tf \in Scalps!HigherFrames /\ Scalps!Supports(e, x, l)
           range(r, e, x, k) == \E h \in Scalps!Kind(r, k) : Scalps!GoodHalf(e, x, h)
           hits(r, e, x) == {k \in {"gap", "block"} : zone(r, e, x, k)}
                            \cup {k \in {"level"} : level(r, e, x, k)}
                            \cup {k \in {"range"} : range(r, e, x, k)}
<1>1. o \in Scalps!Directions /\ Scalps!Opposite(o) = d /\ 0 - b \in Int /\ 0 - (0 - b) = b
  BY Opposites
<1>2. /\ \A k \in {"gap", "block"} : zone(m, d, b, k) => zone(n, o, 0 - b, k)
      /\ level(m, d, b, "level") => level(n, o, 0 - b, "level")
      /\ range(m, d, b, "range") => range(n, o, 0 - b, "range")
  BY HitsFollow
<1>3. /\ \A k \in {"gap", "block"} : zone(n, o, 0 - b, k) => zone(m, d, b, k)
      /\ level(n, o, 0 - b, "level") => level(m, d, b, "level")
      /\ range(n, o, 0 - b, "range") => range(m, d, b, "range")
  <2>1. Twins(n, m)
    BY TwinsBack
  <2>2. /\ \A k \in {"gap", "block"} : zone(n, o, 0 - b, k) => zone(m, Scalps!Opposite(o), 0 - (0 - b), k)
        /\ level(n, o, 0 - b, "level") => level(m, Scalps!Opposite(o), 0 - (0 - b), "level")
        /\ range(n, o, 0 - b, "range") => range(m, Scalps!Opposite(o), 0 - (0 - b), "range")
    <3> HIDE DEF o
    <3> QED
      BY <1>1, <2>1, HitsFollow
  <2> HIDE DEF o, zone, level, range
  <2> QED
    BY <1>1, <2>2
<1>4. \A r, e, x : Scalps!Confluence(r, e, x) = 25 * Scalps!Cardinality(hits(r, e, x))
  BY DEF Scalps!Confluence
<1> HIDE DEF zone, level, range
<1>5. hits(n, o, 0 - b) = hits(m, d, b)
  BY <1>2, <1>3
<1> HIDE DEF hits
<1>6. Scalps!Confluence(n, o, 0 - b) = Scalps!Confluence(m, d, b)
  BY <1>4, <1>5, Zenon
<1>7. Scalps!Alignment(n, o) = Scalps!Alignment(m, d)
  BY AlignedAlike
<1> QED
  BY <1>6, <1>7, Zenon DEF Scalps!HtfFactor

\* The walls of the one market are those of the other upside down.
LEMMA WallsFollow ==
    ASSUME NEW m, NEW n, Twins(m, n), NEW d \in Scalps!Directions, NEW b \in Int
    PROVE  \A w \in Scalps!Walls(m, d, b) : w \in Int /\ 0 - w \in Scalps!Walls(n, Scalps!Opposite(d), 0 - b)
<1> DEFINE o == Scalps!Opposite(d)
           edge(e, l) == IF e = "LONG" THEN l.price - l.half ELSE l.price + l.half
           side(e, z) == IF e = "LONG" THEN z.bottom ELSE z.top
           zones(r) == Scalps!HigherZones(r, "gap") \cup Scalps!HigherZones(r, "block")
           high(r, e, x, w) ==
             \/ \E l \in Scalps!Kind(r, "level") : l.tf \in Scalps!HigherFrames /\ w = edge(e, l)
             \/ \E p \in Scalps!Kind(r, "pool") : p.tf \in Scalps!HigherFrames /\ p.resting /\ w = p.price
             \/ \E z \in zones(r) : z.dir # e /\ w = side(e, z)
<1>1. \A r, e, x, w : w \in Scalps!HigherWalls(r, e, x) <=>
                        high(r, e, x, w) /\ IF e = "LONG" THEN w > x ELSE w < x
  BY DEF Scalps!HigherWalls
<1>2. \A r, e, x, w : w \in Scalps!Walls(r, e, x) <=>
                        \/ \E p \in Scalps!Kind(r, "pool") : p.tf = "M5" /\ p.resting /\ w = p.price
                        \/ \E l \in Scalps!Kind(r, "level") : w = l.price
                        \/ w \in Scalps!HigherWalls(r, e, x)
  BY DEF Scalps!Walls
<1>3. \/ d = "LONG" /\ o = "SHORT"
      \/ d = "SHORT" /\ o = "LONG"
  BY Opposites DEF Scalps!Directions
<1> HIDE DEF o
<1>4. ASSUME NEW f \in Scalps!Kind(m, "level")
      PROVE  /\ f.price \in Int /\ edge(d, f) \in Int
             /\ \E g \in Scalps!Kind(n, "level") :
                  g.price = 0 - f.price /\ g.tf = f.tf /\ edge(o, g) = 0 - edge(d, f)
  <2>1. PICK g \in Scalps!Kind(n, "level") : Upturned(f, g)
    BY Pairs
  <2>2. Well(f) /\ f.kind = "level"
    BY Pairs
  <2>3. g.price = 0 - f.price /\ g.half = f.half /\ g.tf = f.tf
    BY <2>1, <2>2 DEF Upturned
  <2>4. f.price \in Int /\ f.half \in Int
    BY <2>2, Negatives DEF Well
  <2>5. edge(d, f) \in Int /\ edge(o, g) = 0 - edge(d, f)
    BY <1>3, <2>3, <2>4
  <2> QED
    BY <2>3, <2>4, <2>5
<1>5. ASSUME NEW f \in Scalps!Kind(m, "pool")
      PROVE  /\ f.price \in Int
             /\ \E g \in Scalps!Kind(n, "pool") :
                  g.price = 0 - f.price /\ g.tf = f.tf /\ (g.resting <=> f.resting)
  <2>1. PICK g \in Scalps!Kind(n, "pool") : Upturned(f, g)
    BY Pairs
  <2>2. Well(f) /\ f.kind = "pool"
    BY Pairs
  <2>3. g.price = 0 - f.price /\ g.tf = f.tf /\ (g.resting <=> f.resting)
    BY <2>1, <2>2 DEF Upturned
  <2>4. f.price \in Int
    BY <2>2, Negatives DEF Well
  <2> QED
    BY <2>3, <2>4
<1>6. ASSUME NEW f \in zones(m)
      PROVE  /\ side(d, f) \in Int /\ f.dir \in Scalps!Directions
             /\ \E g \in zones(n) : g.dir = Scalps!Opposite(f.dir) /\ side(o, g) = 0 - side(d, f)
  <2>1. PICK k \in {"gap", "block"} : f \in Scalps!HigherZones(m, k)
    OBVIOUS
  <2>2. PICK g \in Scalps!HigherZones(n, k) : Upturned(f, g)
    BY <2>1, ZonesPair
  <2>3. Well(f) /\ f.kind = k
    BY <2>1, ZonesPair
  <2>4. g \in zones(n)
    BY <2>1
  <2>5. g.top = 0 - f.bottom /\ g.bottom = 0 - f.top /\ g.dir = Scalps!Opposite(f.dir)
    BY <2>1, <2>2, <2>3 DEF Upturned
  <2>6. f.top \in Int /\ f.bottom \in Int /\ f.dir \in Scalps!Directions
    BY <2>1, <2>3, Negatives DEF Well
  <2>7. side(d, f) \in Int /\ side(o, g) = 0 - side(d, f)
    BY <1>3, <2>5, <2>6
  <2> QED
    BY <2>4, <2>5, <2>6, <2>7
<1> HIDE DEF edge, side, zones
<1>7. \A w : high(m, d, b, w) => w \in Int /\ high(n, o, 0 - b, 0 - w)
  <2> SUFFICES ASSUME NEW w, high(m, d, b, w) PROVE w \in Int /\ high(n, o, 0 - b, 0 - w)
    OBVIOUS
  <2>1. CASE \E l \in Scalps!Kind(m, "level") : l.tf \in Scalps!HigherFrames /\ w = edge(d, l)
    BY <1>4, <2>1
  <2>2. CASE \E p \in Scalps!Kind(m, "pool") : p.tf \in Scalps!HigherFrames /\ p.resting /\ w = p.price
    BY <1>5, <2>2
  <2>3. CASE \E z \in zones(m) : z.dir # d /\ w = side(d, z)
    <3>1. PICK z \in zones(m) : z.dir # d /\ w = side(d, z)
      BY <2>3
    <3>2. PICK g \in zones(n) : g.dir = Scalps!Opposite(z.dir) /\ side(o, g) = 0 - w
      BY <1>6, <3>1
    <3>3. g.dir # o
      BY <1>6, <3>1, <3>2, Opposites DEF o
    <3> QED
      BY <1>6, <3>1, <3>2, <3>3
  <2> QED
    BY <2>1, <2>2, <2>3
<1> HIDE DEF high
<1>8. ASSUME NEW w \in Scalps!HigherWalls(m, d, b)
      PROVE  w \in Int /\ 0 - w \in Scalps!HigherWalls(n, o, 0 - b)
  <2>1. w \in Int /\ high(n, o, 0 - b, 0 - w)
    BY <1>1, <1>7
  <2>2. IF d = "LONG" THEN w > b ELSE w < b
    BY <1>1
  <2>3. IF o = "LONG" THEN 0 - w > 0 - b ELSE 0 - w < 0 - b
    BY <1>3, <2>1, <2>2
  <2> QED
    BY <1>1, <2>1, <2>3
<1> SUFFICES ASSUME NEW w \in Scalps!Walls(m, d, b)
             PROVE  w \in Int /\ 0 - w \in Scalps!Walls(n, o, 0 - b)
  BY DEF o
<1>9. CASE \E p \in Scalps!Kind(m, "pool") : p.tf = "M5" /\ p.resting /\ w = p.price
  BY <1>2, <1>5, <1>9
<1>10. CASE \E l \in Scalps!Kind(m, "level") : w = l.price
  BY <1>2, <1>4, <1>10
<1>11. CASE w \in Scalps!HigherWalls(m, d, b)
  BY <1>2, <1>8, <1>11
<1> QED
  BY <1>2, <1>9, <1>10, <1>11

\* The target of the one is that of the other upside down.
LEMMA TargetFollows ==
    ASSUME NEW b \in Int, NEW stop \in Int, NEW d \in Scalps!Directions, NEW W, NEW V,
           \A w \in W : w \in Int /\ 0 - w \in V, \A v \in V : v \in Int /\ 0 - v \in W,
           5 * Scalps!AbsOf(b - stop) >= 160, 2 * Scalps!AbsOf(b - stop) <= 280
    PROVE  LET t == Scalps!Target(b, stop, d, W)
           IN /\ t \in Int /\ t - b <= 210 /\ b - t <= 210
              /\ Scalps!Target(0 - b, 0 - stop, Scalps!Opposite(d), V) = 0 - t
<1> DEFINE o == Scalps!Opposite(d)
           c == 0 - b
           halt == 0 - stop
           risk == Scalps!AbsOf(b - stop)
           t == Scalps!Target(b, stop, d, W)
           u == Scalps!Target(c, halt, o, V)
           near == Before(d, b, stop, W)
           far == Before(o, c, halt, V)
<1>1. \/ d = "LONG" /\ o = "SHORT"
      \/ d = "SHORT" /\ o = "LONG"
  BY Opposites DEF Scalps!Directions
<1>2. Scalps!AbsOf(c - halt) = risk /\ c \in Int /\ halt \in Int
  BY DEF Scalps!AbsOf
<1>3. /\ risk \in Nat /\ risk >= 32 /\ Wish(b, stop) \in Nat
      /\ near = {} => t = End(d, b, stop)
      /\ near # {} => t \in near /\ \A w \in near : IF d = "LONG" THEN t <= w ELSE w <= t
  <2>1. d \in {"LONG", "SHORT"} /\ \A w \in W : w \in Int
    BY <1>1
  <2> QED
    BY <2>1, TargetIs, Zenon
<1>4. /\ far = {} => u = End(o, c, halt)
      /\ far # {} => u \in far /\ \A w \in far : IF o = "LONG" THEN u <= w ELSE w <= u
  <2>1. o \in {"LONG", "SHORT"} /\ \A w \in V : w \in Int
    BY <1>1
  <2>2. 5 * Scalps!AbsOf(c - halt) >= 160
    BY <1>2
  <2> HIDE DEF o, c, halt
  <2> QED
    BY <1>2, <2>1, <2>2, TargetIs, Zenon
<1>5. Wish(b, stop) <= 210
  <2>1. 2 * risk <= 280
    OBVIOUS
  <2> HIDE DEF risk
  <2>2. (3 * risk) \div 2 <= 210 /\ (3 * risk) \div 2 \in Int
    BY <1>3, <2>1
  <2>3. Reach \in Nat
    BY ScalpAssumption
  <2>4. Wish(b, stop) = IF Reach < (3 * risk) \div 2 THEN Reach ELSE (3 * risk) \div 2
    BY DEF Wish, risk
  <2> QED
    BY <2>2, <2>3, <2>4
<1>6. Wish(c, halt) = Wish(b, stop)
  BY <1>2, Zenon DEF Wish
<1>7. /\ End(d, b, stop) \in Int
      /\ End(d, b, stop) = IF d = "LONG" THEN b + Wish(b, stop) ELSE b - Wish(b, stop)
      /\ End(o, c, halt) = 0 - End(d, b, stop)
  <2>1. /\ End(d, b, stop) = IF d = "LONG" THEN b + Wish(b, stop) ELSE b - Wish(b, stop)
        /\ End(o, c, halt) = IF o = "LONG" THEN 0 - b + Wish(b, stop) ELSE 0 - b - Wish(b, stop)
    BY <1>6 DEF End
  <2> HIDE DEF o, c, halt, risk
  <2> QED
    BY <1>1, <1>3, <2>1
<1>8. /\ near = IF d = "LONG" THEN {w \in W : 4 * (w - b) >= 3 * risk /\ w <= End(d, b, stop)}
                              ELSE {w \in W : 4 * (b - w) >= 3 * risk /\ w >= End(d, b, stop)}
      /\ far = IF o = "LONG" THEN {w \in V : 4 * (w - c) >= 3 * risk /\ w <= End(o, c, halt)}
                             ELSE {w \in V : 4 * (c - w) >= 3 * risk /\ w >= End(o, c, halt)}
  BY <1>2 DEF Before
<1> HIDE DEF risk, o, t, u, halt, near, far
<1>9. \A w \in near : w \in Int /\ 0 - w \in far /\ w - b <= 210 /\ b - w <= 210
  <2> SUFFICES ASSUME NEW w \in near PROVE w \in Int /\ 0 - w \in far /\ w - b <= 210 /\ b - w <= 210
    OBVIOUS
  <2>1. w \in W /\ w \in Int /\ 0 - w \in V
    BY <1>8
  <2>2. CASE d = "LONG"
    BY <1>1, <1>3, <1>5, <1>7, <1>8, <2>1, <2>2
  <2>3. CASE d = "SHORT"
    BY <1>1, <1>3, <1>5, <1>7, <1>8, <2>1, <2>3
  <2> QED
    BY <1>1, <2>2, <2>3
<1>10. \A w \in far : w \in Int /\ 0 - w \in near
  <2> SUFFICES ASSUME NEW w \in far PROVE w \in Int /\ 0 - w \in near
    OBVIOUS
  <2>1. w \in V /\ w \in Int /\ 0 - w \in W
    BY <1>8
  <2>2. CASE d = "LONG"
    BY <1>1, <1>3, <1>7, <1>8, <2>1, <2>2
  <2>3. CASE d = "SHORT"
    BY <1>1, <1>3, <1>7, <1>8, <2>1, <2>3
  <2> QED
    BY <1>1, <2>2, <2>3
<1>11. CASE near = {}
  <2>1. far = {}
    BY <1>10, <1>11
  <2>2. t = End(d, b, stop) /\ u = 0 - t
    BY <1>3, <1>4, <1>7, <1>11, <2>1
  <2> HIDE DEF c
  <2>3. t \in Int /\ t - b <= 210 /\ b - t <= 210
    BY <1>1, <1>3, <1>5, <1>7, <2>2
  <2> QED
    BY <2>2, <2>3, Zenon DEF t, u, c, halt, o
<1>12. CASE near # {}
  <2>1. far # {}
    BY <1>9, <1>12
  <2>2. t \in near /\ u \in far
    BY <1>3, <1>4, <1>12, <2>1
  <2>3. t \in Int /\ u \in Int /\ 0 - t \in far /\ 0 - u \in near
    BY <1>9, <1>10, <2>2
  <2>4. /\ IF d = "LONG" THEN t <= 0 - u ELSE 0 - u <= t
        /\ IF o = "LONG" THEN u <= 0 - t ELSE 0 - t <= u
    BY <1>3, <1>4, <1>12, <2>1, <2>3
  <2>5. u = 0 - t
    BY <1>1, <2>3, <2>4
  <2>6. t - b <= 210 /\ b - t <= 210
    BY <1>9, <2>2
  <2> QED
    BY <2>3, <2>5, <2>6, Zenon DEF t, u, c, halt, o
<1> QED
  BY <1>11, <1>12

\* The one signal is the other upside down.
Turned(s, t) ==
    /\ s.dir \in Scalps!Directions /\ t.dir = Scalps!Opposite(s.dir) /\ t.model = s.model
    /\ s.entry \in Int /\ t.entry = 0 - s.entry
    /\ s.stop \in Int /\ s.stop \in Scalps!Nearby /\ t.stop = 0 - s.stop
    /\ s.target \in Int /\ t.target = 0 - s.target
    /\ t.ref = Scalps!Negated(s.ref) /\ t.parts = s.parts /\ t.htf = s.htf

\* What is finished in the one market is finished upside down in the other.
LEMMA FinishFollows ==
    ASSUME NEW m, NEW n, Twins(m, n), NEW model, NEW d \in Scalps!Directions, NEW b \in Scalps!Prices,
           NEW stop \in Int, NEW ref \in Scalps!Prices \cup {Scalps!NoPrice}, NEW parts,
           NEW s \in Scalps!Finish(m, model, d, b, stop, ref, parts)
    PROVE  /\ Scalps!MirrorOf(s) \in Scalps!Finish(n, model, Scalps!Opposite(d), 0 - b, 0 - stop,
                                                   Scalps!Negated(ref), parts)
           /\ Scalps!MirrorOf(Scalps!MirrorOf(s)) = s
           /\ Turned(s, Scalps!MirrorOf(s)) /\ s.model = model
<1> DEFINE o == Scalps!Opposite(d)
           W == Scalps!Walls(m, d, b)
           V == Scalps!Walls(n, o, 0 - b)
           t == Scalps!Target(b, stop, d, W)
           h == Scalps!HtfFactor(m, d, b)
           made(e, x, q, y, z) == [model |-> model, dir |-> e, entry |-> x, stop |-> q, target |-> y,
                                   ref |-> z, parts |-> parts, htf |-> h]
<1>1. /\ s = made(d, b, stop, t, ref)
      /\ 5 * Scalps!AbsOf(b - stop) >= 160 /\ 2 * Scalps!AbsOf(b - stop) <= 280
      /\ IF d = "LONG" THEN stop < b ELSE stop > b
      /\ t # b
  BY FinishIs
<1>2. b \in Int /\ 0 - b \in Int /\ o \in Scalps!Directions /\ Scalps!Opposite(o) = d /\ 0 - (0 - b) = b
  <2>1. b \in Int
    BY Negatives
  <2> QED
    BY <2>1, Opposites
<1>3. \A w \in W : w \in Int /\ 0 - w \in V
  BY <1>2, WallsFollow
<1>4. \A v \in V : v \in Int /\ 0 - v \in W
  <2>1. Twins(n, m)
    BY TwinsBack
  <2>2. \A v \in V : v \in Int /\ 0 - v \in Scalps!Walls(m, Scalps!Opposite(o), 0 - (0 - b))
    <3> HIDE DEF o
    <3> QED
      BY <1>2, <2>1, WallsFollow
  <2> QED
    BY <1>2, <2>2, Zenon
<1>5. t \in Int /\ t - b <= 210 /\ b - t <= 210 /\ Scalps!Target(0 - b, 0 - stop, o, V) = 0 - t
  <2>1. 5 * Scalps!AbsOf(b - stop) >= 160 /\ 2 * Scalps!AbsOf(b - stop) <= 280 /\ b \in Int
    BY <1>1, <1>2
  <2> HIDE DEF W, V, h
  <2>2. /\ Scalps!Target(b, stop, d, W) \in Int
        /\ Scalps!Target(b, stop, d, W) - b <= 210 /\ b - Scalps!Target(b, stop, d, W) <= 210
        /\ Scalps!Target(0 - b, 0 - stop, Scalps!Opposite(d), V) = 0 - Scalps!Target(b, stop, d, W)
    BY <1>3, <1>4, <2>1, TargetFollows
  <2> QED
    BY <2>2
<1>6. Scalps!HtfFactor(n, o, 0 - b) = h
  BY <1>2, FactorAlike
<1> HIDE DEF W, V, t, h
<1>7. stop - b <= 300 /\ b - stop <= 300
  BY <1>1, <1>2 DEF Scalps!AbsOf
<1>8. /\ Scalps!Negated(b) = 0 - b /\ Scalps!Negated(0 - b) = b
      /\ Scalps!Negated(stop) = 0 - stop /\ Scalps!Negated(0 - stop) = stop /\ stop \in Scalps!Nearby
      /\ Scalps!Negated(t) = 0 - t /\ Scalps!Negated(0 - t) = t
      /\ Scalps!Negated(Scalps!Negated(ref)) = ref
  <2>1. b - b <= 300
    BY <1>2
  <2>2. t - b <= 300 /\ b - t <= 300
    BY <1>2, <1>5
  <2>3. CASE ref \in Scalps!Prices
    <3>1. ref \in Int /\ ref - ref <= 300
      BY <2>3, Negatives
    <3> QED
      BY <1>2, <1>5, <1>7, <2>1, <2>2, <2>3, <3>1, Negatives
  <2>4. CASE ref = Scalps!NoPrice
    BY <1>2, <1>5, <1>7, <2>1, <2>2, <2>4, Negatives
  <2> QED
    BY <2>3, <2>4
<1>9. \A e, x, q, y, z :
         Scalps!MirrorOf(made(e, x, q, y, z)) =
           made(Scalps!Opposite(e), Scalps!Negated(x), Scalps!Negated(q), Scalps!Negated(y), Scalps!Negated(z))
  BY DEF Scalps!MirrorOf
<1>10. Scalps!MirrorOf(s) = made(o, 0 - b, 0 - stop, 0 - t, Scalps!Negated(ref))
  BY <1>1, <1>8, <1>9
<1>11. Scalps!MirrorOf(Scalps!MirrorOf(s)) = s
  BY <1>1, <1>2, <1>8, <1>9, <1>10
<1>12. Scalps!MirrorOf(s) \in Scalps!Finish(n, model, o, 0 - b, 0 - stop, Scalps!Negated(ref), parts)
  <2>1. Scalps!AbsOf((0 - b) - (0 - stop)) = Scalps!AbsOf(b - stop)
    BY <1>2 DEF Scalps!AbsOf
  <2>2. IF o = "LONG" THEN 0 - stop < 0 - b ELSE 0 - stop > 0 - b
    BY <1>1, <1>2, Opposites DEF Scalps!Directions
  <2>3. 0 - t # 0 - b
    BY <1>1, <1>2, <1>5
  <2>4. Scalps!Target(0 - b, 0 - stop, o, Scalps!Walls(n, o, 0 - b)) = 0 - t
    BY <1>5 DEF V
  <2>5. Scalps!MirrorOf(s) = [model |-> model, dir |-> o, entry |-> 0 - b, stop |-> 0 - stop, target |-> 0 - t,
                              ref |-> Scalps!Negated(ref), parts |-> parts, htf |-> Scalps!HtfFactor(n, o, 0 - b)]
    BY <1>6, <1>10
  <2> HIDE DEF o
  <2> QED
    BY <1>1, <2>1, <2>2, <2>3, <2>4, <2>5, FinishIs
<1>13. Turned(s, Scalps!MirrorOf(s))
  BY <1>1, <1>2, <1>5, <1>8, <1>10 DEF Turned
<1>14. s.model = model
  BY <1>1
<1> QED
  BY <1>11, <1>12, <1>13, <1>14

\* What faces a direction, and the same kinds of the other market.
LEMMA FacingPairs ==
    ASSUME NEW m, NEW n, Twins(m, n), NEW d \in Scalps!Directions,
           NEW k \in {"sweep", "shift", "bos", "gap", "block"}
    PROVE  /\ \A f \in Scalps!Facing(m, k, d) :
                Well(f) /\ f.kind = k /\ \E g \in Scalps!Facing(n, k, Scalps!Opposite(d)) : Upturned(f, g)
           /\ \A g \in Scalps!Facing(n, k, Scalps!Opposite(d)) :
                \E f \in Scalps!Facing(m, k, d) : Upturned(f, g)
<1>1. \A r, e, f : f \in Scalps!Facing(r, k, e) <=> f \in Scalps!Kind(r, k) /\ f.dir = e
  BY DEF Scalps!Facing
<1>2. ASSUME NEW f \in Scalps!Facing(m, k, d)
      PROVE  Well(f) /\ f.kind = k /\ \E g \in Scalps!Facing(n, k, Scalps!Opposite(d)) : Upturned(f, g)
  <2>1. Well(f) /\ f.kind = k /\ \E g \in Scalps!Kind(n, k) : Upturned(f, g)
    <3>1. f \in Scalps!Kind(m, k)
      BY <1>1, <1>2
    <3> QED
      BY <3>1, Pairs
  <2>2. PICK g \in Scalps!Kind(n, k) : Upturned(f, g)
    BY <2>1
  <2>3. g.dir = Scalps!Opposite(d)
    BY <1>1, <1>2, <2>1, <2>2 DEF Upturned
  <2> QED
    BY <1>1, <2>1, <2>2, <2>3
<1>3. ASSUME NEW g \in Scalps!Facing(n, k, Scalps!Opposite(d))
      PROVE  \E f \in Scalps!Facing(m, k, d) : Upturned(f, g)
  <2>1. \E f \in Scalps!Kind(m, k) : Upturned(f, g)
    <3>1. g \in Scalps!Kind(n, k)
      BY <1>1, <1>3
    <3> QED
      BY <3>1, Pairs
  <2>2. PICK f \in Scalps!Kind(m, k) : Upturned(f, g)
    BY <2>1
  <2>3. Well(f) /\ f.kind = k
    BY Pairs, Zenon
  <2>4. g.dir = Scalps!Opposite(f.dir) /\ g.dir = Scalps!Opposite(d)
    BY <1>1, <1>3, <2>2, <2>3 DEF Upturned
  <2>5. f.dir \in Scalps!Directions
    BY <2>3 DEF Well
  <2>6. f.dir = d
    BY <2>4, <2>5 DEF Scalps!Opposite, Scalps!Directions
  <2> QED
    BY <1>1, <2>2, <2>6
<1> QED
  BY <1>2, <1>3

\* The latest shift of the one is that of the other.
LEMMA ShiftsPair ==
    ASSUME NEW m, NEW n, Twins(m, n), NEW d \in Scalps!Directions, NEW f \in Scalps!RecentShift(m, d)
    PROVE  \E g \in Scalps!RecentShift(n, Scalps!Opposite(d)) :
             f.age \in Int /\ f.size \in Int /\ g.age = f.age /\ g.size = f.size
<1> DEFINE o == Scalps!Opposite(d)
<1>1. \A r, e, x : x \in Scalps!RecentShift(r, e) <=>
         /\ x \in Scalps!Facing(r, "shift", e) /\ x.age <= 20
         /\ \A y \in Scalps!Facing(r, "shift", e) : y.age <= 20 => x.age <= y.age
  BY DEF Scalps!RecentShift, Scalps!ShiftWindow
<1>2. /\ \A x \in Scalps!Facing(m, "shift", d) :
           Well(x) /\ x.kind = "shift" /\ \E g \in Scalps!Facing(n, "shift", o) : Upturned(x, g)
      /\ \A g \in Scalps!Facing(n, "shift", o) : \E x \in Scalps!Facing(m, "shift", d) : Upturned(x, g)
  BY FacingPairs
<1> HIDE DEF o
<1>3. f \in Scalps!Facing(m, "shift", d) /\ f.age <= 20
  BY <1>1
<1>4. PICK g \in Scalps!Facing(n, "shift", o) : Upturned(f, g)
  BY <1>2, <1>3
<1>5. \A x, y : Well(x) /\ x.kind = "shift" /\ Upturned(x, y) =>
                  x.age \in Int /\ x.size \in Int /\ y.age = x.age /\ y.size = x.size
  BY DEF Well, Upturned
<1>6. \A y \in Scalps!Facing(n, "shift", o) : y.age <= 20 => g.age <= y.age
  <2> SUFFICES ASSUME NEW y \in Scalps!Facing(n, "shift", o), y.age <= 20 PROVE g.age <= y.age
    OBVIOUS
  <2>1. PICK x \in Scalps!Facing(m, "shift", d) : Upturned(x, y)
    BY <1>2
  <2>2. x.age = y.age /\ g.age = f.age
    BY <1>2, <1>3, <1>4, <1>5, <2>1
  <2> QED
    BY <1>1, <2>2
<1>7. f.age \in Int /\ f.size \in Int /\ g.age = f.age /\ g.size = f.size
  BY <1>2, <1>3, <1>4, <1>5
<1>8. g \in Scalps!RecentShift(n, o)
  BY <1>1, <1>3, <1>4, <1>6, <1>7
<1> QED
  BY <1>7, <1>8 DEF o

\* The last break of the one is that of the other.
LEMMA LastBreaksPair ==
    ASSUME NEW m, NEW n, Twins(m, n), NEW f \in Scalps!Latest(Scalps!Kind(m, "bos"))
    PROVE  Well(f) /\ f.kind = "bos" /\ \E g \in Scalps!Latest(Scalps!Kind(n, "bos")) : Upturned(f, g)
<1>1. \A r, x : x \in Scalps!Latest(Scalps!Kind(r, "bos")) <=>
         x \in Scalps!Kind(r, "bos") /\ \A y \in Scalps!Kind(r, "bos") : x.age <= y.age
  BY DEF Scalps!Latest
<1>2. f \in Scalps!Kind(m, "bos")
  BY <1>1
<1>3. PICK g \in Scalps!Kind(n, "bos") : Upturned(f, g)
  BY <1>2, Pairs
<1>4. \A x, y : Well(x) /\ x.kind = "bos" /\ Upturned(x, y) => y.age = x.age
  BY DEF Upturned
<1>5. \A y \in Scalps!Kind(n, "bos") : g.age <= y.age
  <2> SUFFICES ASSUME NEW y \in Scalps!Kind(n, "bos") PROVE g.age <= y.age
    OBVIOUS
  <2>1. PICK x \in Scalps!Kind(m, "bos") : Upturned(x, y)
    BY Pairs
  <2>2. x.age = y.age /\ g.age = f.age
    BY <1>2, <1>3, <1>4, <2>1, Pairs
  <2> QED
    BY <1>1, <2>2
<1> QED
  BY <1>1, <1>2, <1>3, <1>5, Pairs

\* And the last break of a direction, of the breaks that are fresh.
LEMMA FreshBreaksPair ==
    ASSUME NEW m, NEW n, Twins(m, n), NEW d \in Scalps!Directions,
           NEW f \in Scalps!Latest({x \in Scalps!Facing(m, "bos", d) : x.age <= Scalps!ShiftWindow})
    PROVE  /\ Well(f) /\ f.kind = "bos"
           /\ \E g \in Scalps!Latest({x \in Scalps!Facing(n, "bos", Scalps!Opposite(d)) : x.age <= Scalps!ShiftWindow}) :
                Upturned(f, g)
<1> DEFINE o == Scalps!Opposite(d)
           last(r, e) == Scalps!Latest({x \in Scalps!Facing(r, "bos", e) : x.age <= Scalps!ShiftWindow})
<1>1. \A r, e, x : x \in last(r, e) <=>
         /\ x \in Scalps!Facing(r, "bos", e) /\ x.age <= 20
         /\ \A y \in Scalps!Facing(r, "bos", e) : y.age <= 20 => x.age <= y.age
  BY DEF Scalps!Latest, Scalps!ShiftWindow
<1>2. /\ \A x \in Scalps!Facing(m, "bos", d) :
           Well(x) /\ x.kind = "bos" /\ \E g \in Scalps!Facing(n, "bos", o) : Upturned(x, g)
      /\ \A g \in Scalps!Facing(n, "bos", o) : \E x \in Scalps!Facing(m, "bos", d) : Upturned(x, g)
  BY FacingPairs
<1> HIDE DEF o, last
<1>3. f \in Scalps!Facing(m, "bos", d) /\ f.age <= 20
  BY <1>1 DEF last
<1>4. PICK g \in Scalps!Facing(n, "bos", o) : Upturned(f, g)
  BY <1>2, <1>3
<1>5. \A x, y : Well(x) /\ x.kind = "bos" /\ Upturned(x, y) => y.age = x.age
  BY DEF Upturned
<1>6. \A y \in Scalps!Facing(n, "bos", o) : y.age <= 20 => g.age <= y.age
  <2> SUFFICES ASSUME NEW y \in Scalps!Facing(n, "bos", o), y.age <= 20 PROVE g.age <= y.age
    OBVIOUS
  <2>1. PICK x \in Scalps!Facing(m, "bos", d) : Upturned(x, y)
    BY <1>2
  <2>2. x.age = y.age /\ g.age = f.age
    BY <1>2, <1>3, <1>4, <1>5, <2>1
  <2>3. f \in last(m, d)
    BY DEF last
  <2> QED
    BY <1>1, <2>2, <2>3
<1>7. g.age <= 20
  BY <1>2, <1>3, <1>4, <1>5
<1>8. g \in last(n, o)
  BY <1>1, <1>4, <1>6, <1>7
<1> QED
  BY <1>2, <1>3, <1>4, <1>8 DEF o, last

\* The signal s of market m comes from arguments of Finish that give, upside down and
\* in market n, signals of S.
Reflects(s, m, n, model, d, S) ==
    \E b \in Scalps!Prices, stop \in Int : \E ref \in Scalps!Prices \cup {Scalps!NoPrice} : \E parts :
        /\ s \in Scalps!Finish(m, model, d, b, stop, ref, parts)
        /\ Scalps!Finish(n, model, Scalps!Opposite(d), 0 - b, 0 - stop, Scalps!Negated(ref), parts) \subseteq S
        /\ Scored(parts)

\* A distance is the same upside down, and a price at hand is a price.
LEMMA Distances ==
    /\ \A x \in Int : Scalps!AbsOf(0 - x) = Scalps!AbsOf(x)
    /\ 0 \in Scalps!Prices
<1>1. \A x \in Int : Scalps!AbsOf(0 - x) = Scalps!AbsOf(x)
  BY DEF Scalps!AbsOf
<1>2. 0 \in Scalps!Prices
  BY DEF Scalps!Prices
<1> QED
  BY <1>1, <1>2

\* A sweep that reverses, upside down.
LEMMA SweepingReflects ==
    ASSUME NEW m, NEW n, Twins(m, n), NEW d \in Scalps!Directions, NEW s \in Scalps!Sweeping(m, d)
    PROVE  Reflects(s, m, n, "sweep_reversal", d, Scalps!Sweeping(n, Scalps!Opposite(d)))
<1> DEFINE o == Scalps!Opposite(d)
           fresh(r, e) == {x \in Scalps!Facing(r, "sweep", e) : x.age <= Scalps!ShiftWindow /\ x.quality >= 35}
           best(r, e) == {x \in fresh(r, e) : \A t \in fresh(r, e) : t.quality <= x.quality}
           extreme(e, x) == IF e = "LONG" THEN x.pool - x.pen ELSE x.pool + x.pen
           stop(e, x) == IF e = "LONG" THEN extreme(e, x) - Scalps!ATR \div 4 ELSE extreme(e, x) + Scalps!ATR \div 4
           shifts(r, e, x) == {u \in Scalps!RecentShift(r, e) : u.age <= x.age}
           parts(x, t) == Scalps!Parts((100 * t.size) \div 150, x.quality, x.after,
                                       100 - (100 * Scalps!AbsOf(x.pool)) \div (2 * Scalps!ATR))
           made(r, e, x, t) == Scalps!Finish(r, "sweep_reversal", e, 0, stop(e, x), x.pool, parts(x, t))
<1>1. \A r, e : Scalps!Sweeping(r, e) = UNION {UNION {made(r, e, x, t) : t \in shifts(r, e, x)} : x \in best(r, e)}
  BY DEF Scalps!Sweeping
<1>2. \A r, e, x : x \in fresh(r, e) <=> x \in Scalps!Facing(r, "sweep", e) /\ x.age <= 20 /\ x.quality >= 35
  BY DEF Scalps!ShiftWindow
<1>3. /\ \A x \in Scalps!Facing(m, "sweep", d) :
           Well(x) /\ x.kind = "sweep" /\ \E g \in Scalps!Facing(n, "sweep", o) : Upturned(x, g)
      /\ \A g \in Scalps!Facing(n, "sweep", o) : \E x \in Scalps!Facing(m, "sweep", d) : Upturned(x, g)
  BY FacingPairs
<1>4. \A x, y : Well(x) /\ x.kind = "sweep" /\ Upturned(x, y) =>
         /\ x.pool \in Scalps!Prices /\ x.pen \in Int /\ x.quality \in Int /\ x.after \in Int /\ x.age \in Int
         /\ y.pool = 0 - x.pool /\ y.pen = x.pen /\ y.quality = x.quality /\ y.after = x.after /\ y.age = x.age
  BY DEF Well, Upturned
<1> HIDE DEF o, fresh
<1>5. \A x \in best(m, d) : Well(x) /\ x.kind = "sweep" /\ \E y \in best(n, o) : Upturned(x, y)
  <2> SUFFICES ASSUME NEW x \in best(m, d)
               PROVE  Well(x) /\ x.kind = "sweep" /\ \E y \in best(n, o) : Upturned(x, y)
    OBVIOUS
  <2>1. x \in Scalps!Facing(m, "sweep", d) /\ x \in fresh(m, d)
    BY <1>2
  <2>2. PICK y \in Scalps!Facing(n, "sweep", o) : Upturned(x, y)
    BY <1>3, <2>1
  <2>3. y \in fresh(n, o)
    BY <1>2, <1>3, <1>4, <2>1, <2>2
  <2>4. \A t \in fresh(n, o) : t.quality <= y.quality
    <3> SUFFICES ASSUME NEW t \in fresh(n, o) PROVE t.quality <= y.quality
      OBVIOUS
    <3>1. t \in Scalps!Facing(n, "sweep", o) /\ t.age <= 20 /\ t.quality >= 35
      BY <1>2
    <3>2. PICK f \in Scalps!Facing(m, "sweep", d) : Upturned(f, t)
      BY <1>3, <3>1
    <3>3. t.age = f.age /\ t.quality = f.quality /\ y.quality = x.quality
      BY <1>3, <1>4, <2>1, <2>2, <3>2
    <3>4. f \in fresh(m, d)
      BY <1>2, <3>1, <3>2, <3>3
    <3> QED
      BY <3>3, <3>4
  <2>5. y \in best(n, o)
    BY <2>3, <2>4
  <2> QED
    BY <1>3, <2>1, <2>2, <2>5
<1> HIDE DEF best, shifts, made
<1>6. PICK x \in best(m, d) : \E t \in shifts(m, d, x) : s \in made(m, d, x, t)
  BY <1>1
<1>7. PICK t \in shifts(m, d, x) : s \in made(m, d, x, t)
  BY <1>6
<1>8. PICK y \in best(n, o) : Upturned(x, y)
  BY <1>5
<1>9. /\ x.pool \in Scalps!Prices /\ x.pen \in Int /\ x.quality \in Int /\ x.after \in Int /\ x.age \in Int
      /\ y.pool = 0 - x.pool /\ y.pen = x.pen /\ y.quality = x.quality /\ y.after = x.after /\ y.age = x.age
  BY <1>4, <1>5, <1>8
<1>10. t \in Scalps!RecentShift(m, d) /\ t.age <= x.age
  BY DEF shifts
<1>11. PICK u \in Scalps!RecentShift(n, o) : t.age \in Int /\ t.size \in Int /\ u.age = t.age /\ u.size = t.size
  BY <1>10, ShiftsPair DEF o
<1>12. made(n, o, y, u) \subseteq Scalps!Sweeping(n, o)
  <2>1. u \in shifts(n, o, y)
    BY <1>9, <1>10, <1>11 DEF shifts
  <2> QED
    BY <1>1, <2>1
<1>13. x.pool \in Int /\ Scalps!Negated(x.pool) = 0 - x.pool
  BY <1>9, Negatives
<1>14. stop(d, x) \in Int /\ stop(o, y) = 0 - stop(d, x)
  BY <1>9, <1>13, Opposites DEF Scalps!ATR, Scalps!Directions, o
<1>15. parts(y, u) = parts(x, t)
  BY <1>9, <1>11, <1>13, Distances
<1>16. Scored(parts(x, t))
  <2>1. (100 * t.size) \div 150 \in Int /\ 100 - (100 * Scalps!AbsOf(x.pool)) \div (2 * Scalps!ATR) \in Int
    BY <1>11, <1>13, SharesAre, ZenonT(60)
  <2> QED
    BY <1>9, <2>1, PartsAreScored, Zenon
<1> HIDE DEF stop, parts
<1>17. made(n, o, y, u) = Scalps!Finish(n, "sweep_reversal", o, 0 - 0, 0 - stop(d, x), Scalps!Negated(x.pool), parts(x, t))
  <2>1. 0 - 0 = 0
    OBVIOUS
  <2> QED
    BY <1>9, <1>13, <1>14, <1>15, <2>1, Zenon DEF made
<1>18. s \in Scalps!Finish(m, "sweep_reversal", d, 0, stop(d, x), x.pool, parts(x, t))
  BY <1>7, Zenon DEF made
<1>19. 0 \in Scalps!Prices /\ x.pool \in Scalps!Prices \cup {Scalps!NoPrice}
  BY <1>9, Distances
<1> QED
  BY <1>12, <1>14, <1>16, <1>17, <1>18, <1>19, Zenon DEF Reflects, o

\* The nearest zone of the one is that of the other.
LEMMA NearestPair ==
    ASSUME NEW m, NEW n, Twins(m, n), NEW d \in Scalps!Directions, NEW k \in {"gap", "block"},
           NEW f \in Scalps!NearestZone(m, k, d)
    PROVE  /\ Well(f) /\ f.kind = k
           /\ \E g \in Scalps!NearestZone(n, k, Scalps!Opposite(d)) : Upturned(f, g)
<1> DEFINE o == Scalps!Opposite(d)
           middle(z) == Scalps!AbsOf(z.top + z.bottom)
           zones(r, e) == {z \in Scalps!Facing(r, k, e) : z.tf = "M5" /\ z.tradable}
<1>1. \A r, e, x : x \in Scalps!NearestZone(r, k, e) <=>
         x \in zones(r, e) /\ middle(x) <= 120 /\ \A y \in zones(r, e) : middle(x) <= middle(y)
  BY DEF Scalps!NearestZone, Scalps!ATR
<1>2. /\ \A x \in Scalps!Facing(m, k, d) :
           Well(x) /\ x.kind = k /\ \E g \in Scalps!Facing(n, k, o) : Upturned(x, g)
      /\ \A g \in Scalps!Facing(n, k, o) : \E x \in Scalps!Facing(m, k, d) : Upturned(x, g)
  BY FacingPairs
<1>3. ASSUME NEW x, NEW y, Well(x), x.kind = k, Upturned(x, y)
      PROVE  middle(y) = middle(x) /\ y.tf = x.tf /\ (y.tradable <=> x.tradable)
  <2>1. /\ x.top \in Int /\ x.bottom \in Int /\ y.top = 0 - x.bottom /\ y.bottom = 0 - x.top
        /\ y.tf = x.tf /\ (y.tradable <=> x.tradable)
    BY <1>3, Negatives DEF Well, Upturned
  <2>2. y.top + y.bottom = 0 - (x.top + x.bottom) /\ x.top + x.bottom \in Int
    BY <2>1
  <2> QED
    BY <2>1, <2>2, Distances
<1> HIDE DEF middle, o
<1>4. f \in zones(m, d) /\ middle(f) <= 120 /\ f \in Scalps!Facing(m, k, d)
  BY <1>1
<1>5. PICK g \in Scalps!Facing(n, k, o) : Upturned(f, g)
  BY <1>2, <1>4
<1>6. g \in zones(n, o) /\ middle(g) = middle(f)
  BY <1>2, <1>3, <1>4, <1>5
<1>7. \A y \in zones(n, o) : middle(g) <= middle(y)
  <2> SUFFICES ASSUME NEW y \in zones(n, o) PROVE middle(g) <= middle(y)
    OBVIOUS
  <2>1. PICK x \in Scalps!Facing(m, k, d) : Upturned(x, y)
    BY <1>2
  <2>2. x \in zones(m, d) /\ middle(y) = middle(x)
    BY <1>2, <1>3, <2>1
  <2> QED
    BY <1>1, <1>6, <2>2
<1>8. g \in Scalps!NearestZone(n, k, o)
  BY <1>1, <1>4, <1>6, <1>7
<1> QED
  BY <1>2, <1>4, <1>5, <1>8 DEF o

\* Where a zone is entered, stopped and how near it is.
LEMMA ZonesTurn ==
    ASSUME NEW f, NEW g, Well(f), f.kind \in {"gap", "block"}, Upturned(f, g), NEW d \in Scalps!Directions
    PROVE  /\ Scalps!ZoneEntry(d, f) \in Scalps!Prices /\ Scalps!ZoneStop(d, f) \in Int
           /\ Scalps!ZoneLocation(d, f) \in Int /\ f.size \in Int
           /\ Scalps!ZoneEntry(Scalps!Opposite(d), g) = 0 - Scalps!ZoneEntry(d, f)
           /\ Scalps!ZoneStop(Scalps!Opposite(d), g) = 0 - Scalps!ZoneStop(d, f)
           /\ Scalps!ZoneLocation(Scalps!Opposite(d), g) = Scalps!ZoneLocation(d, f)
           /\ g.size = f.size
<1> DEFINE o == Scalps!Opposite(d)
<1>1. /\ f.top \in Scalps!Prices /\ f.bottom \in Scalps!Prices /\ f.size \in Int
      /\ g.top = 0 - f.bottom /\ g.bottom = 0 - f.top /\ g.size = f.size
  BY DEF Well, Upturned
<1>2. f.top \in Int /\ f.bottom \in Int
  BY <1>1, Negatives
<1>3. (d = "LONG" /\ o = "SHORT") \/ (d = "SHORT" /\ o = "LONG")
  BY Opposites DEF Scalps!Directions
<1> HIDE DEF o
<1>4. Scalps!ZoneEntry(d, f) \in Scalps!Prices /\ Scalps!ZoneEntry(o, g) = 0 - Scalps!ZoneEntry(d, f)
  BY <1>1, <1>3 DEF Scalps!ZoneEntry
<1>5. Scalps!ZoneStop(d, f) \in Int /\ Scalps!ZoneStop(o, g) = 0 - Scalps!ZoneStop(d, f)
  BY <1>1, <1>2, <1>3 DEF Scalps!ZoneStop, Scalps!ATR
<1>6. Scalps!ZoneEntry(d, f) \in Int
  BY <1>4, Negatives
<1>7. Scalps!ZoneLocation(d, f) \in Int
  BY <1>6, SharesAre DEF Scalps!ZoneLocation
<1>8. Scalps!ZoneLocation(o, g) = Scalps!ZoneLocation(d, f)
  BY <1>4, <1>6, Distances, Zenon DEF Scalps!ZoneLocation
<1> QED
  BY <1>1, <1>4, <1>5, <1>7, <1>8 DEF o

\* A gap that is retraced, upside down.
LEMMA RetracingReflects ==
    ASSUME NEW m, NEW n, Twins(m, n), NEW d \in Scalps!Directions, NEW s \in Scalps!Retracing(m, d)
    PROVE  Reflects(s, m, n, "fvg_retracement", d, Scalps!Retracing(n, Scalps!Opposite(d)))
<1> DEFINE o == Scalps!Opposite(d)
           structure(r, e) == IF Scalps!RecentShift(r, e) # {} THEN 100 ELSE 50
           parts(r, e, z) == Scalps!Parts(structure(r, e), 40, z.size \div 2, Scalps!ZoneLocation(e, z))
           made(r, e, z) == Scalps!Finish(r, "fvg_retracement", e, Scalps!ZoneEntry(e, z), Scalps!ZoneStop(e, z),
                                          Scalps!NoPrice, parts(r, e, z))
<1>1. \A r, e : Scalps!Retracing(r, e) = UNION {made(r, e, z) : z \in Scalps!NearestZone(r, "gap", e)}
  BY DEF Scalps!Retracing
<1>2. structure(n, o) = structure(m, d)
  <2>1. Twins(n, m) /\ o \in Scalps!Directions /\ Scalps!Opposite(o) = d
    BY TwinsBack, Opposites
  <2>2. Scalps!RecentShift(m, d) # {} => Scalps!RecentShift(n, o) # {}
    BY ShiftsPair
  <2> HIDE DEF o
  <2>3. Scalps!RecentShift(n, o) # {} => Scalps!RecentShift(m, d) # {}
    BY <2>1, ShiftsPair
  <2> QED
    BY <2>2, <2>3
<1>3. structure(m, d) \in Int
  OBVIOUS
<1> HIDE DEF structure, made
<1>4. PICK z \in Scalps!NearestZone(m, "gap", d) : s \in made(m, d, z)
  BY <1>1
<1>5. Well(z) /\ z.kind = "gap" /\ \E g \in Scalps!NearestZone(n, "gap", o) : Upturned(z, g)
  BY NearestPair
<1>6. PICK g \in Scalps!NearestZone(n, "gap", o) : Upturned(z, g)
  BY <1>5
<1>7. made(n, o, g) \subseteq Scalps!Retracing(n, o)
  BY <1>1
<1>8. /\ Scalps!ZoneEntry(d, z) \in Scalps!Prices /\ Scalps!ZoneStop(d, z) \in Int
      /\ Scalps!ZoneLocation(d, z) \in Int /\ z.size \in Int
      /\ Scalps!ZoneEntry(o, g) = 0 - Scalps!ZoneEntry(d, z)
      /\ Scalps!ZoneStop(o, g) = 0 - Scalps!ZoneStop(d, z)
      /\ Scalps!ZoneLocation(o, g) = Scalps!ZoneLocation(d, z)
      /\ g.size = z.size
  <2>1. z.kind \in {"gap", "block"}
    BY <1>5
  <2> QED
    BY <1>5, <1>6, <2>1, ZonesTurn, Zenon
<1> HIDE DEF o
<1>9. parts(n, o, g) = parts(m, d, z)
  BY <1>2, <1>8, Zenon
<1>10. Scored(parts(m, d, z))
  <2>1. z.size \div 2 \in Int /\ 40 \in Int
    BY <1>8, SharesAre
  <2> QED
    BY <1>3, <1>8, <2>1, PartsAreScored, Zenon
<1> HIDE DEF parts
<1>11. /\ made(n, o, g) = Scalps!Finish(n, "fvg_retracement", o, 0 - Scalps!ZoneEntry(d, z),
                            0 - Scalps!ZoneStop(d, z), Scalps!Negated(Scalps!NoPrice), parts(m, d, z))
       /\ s \in Scalps!Finish(m, "fvg_retracement", d, Scalps!ZoneEntry(d, z), Scalps!ZoneStop(d, z),
                              Scalps!NoPrice, parts(m, d, z))
  BY <1>4, <1>8, <1>9, Negatives, Zenon DEF made
<1>12. Scalps!NoPrice \in Scalps!Prices \cup {Scalps!NoPrice}
  OBVIOUS
<1> QED
  BY <1>7, <1>8, <1>10, <1>11, <1>12, Zenon DEF Reflects, o

\* A block that price reacts to, upside down.
LEMMA ReactingReflects ==
    ASSUME NEW m, NEW n, Twins(m, n), NEW d \in Scalps!Directions, NEW s \in Scalps!Reacting(m, d)
    PROVE  Reflects(s, m, n, "ob_reaction", d, Scalps!Reacting(n, Scalps!Opposite(d)))
<1> DEFINE o == Scalps!Opposite(d)
           parts(e, z) == Scalps!Parts((100 * z.size) \div 150, 45, 50, Scalps!ZoneLocation(e, z))
           made(r, e, z) == Scalps!Finish(r, "ob_reaction", e, Scalps!ZoneEntry(e, z), Scalps!ZoneStop(e, z),
                                          Scalps!NoPrice, parts(e, z))
<1>1. \A r, e : Scalps!Reacting(r, e) = UNION {made(r, e, z) : z \in Scalps!NearestZone(r, "block", e)}
  BY DEF Scalps!Reacting
<1> HIDE DEF made
<1>2. PICK z \in Scalps!NearestZone(m, "block", d) : s \in made(m, d, z)
  BY <1>1
<1>3. Well(z) /\ z.kind = "block" /\ \E g \in Scalps!NearestZone(n, "block", o) : Upturned(z, g)
  BY NearestPair
<1>4. PICK g \in Scalps!NearestZone(n, "block", o) : Upturned(z, g)
  BY <1>3
<1>5. made(n, o, g) \subseteq Scalps!Reacting(n, o)
  BY <1>1
<1>6. /\ Scalps!ZoneEntry(d, z) \in Scalps!Prices /\ Scalps!ZoneStop(d, z) \in Int
      /\ Scalps!ZoneLocation(d, z) \in Int /\ z.size \in Int
      /\ Scalps!ZoneEntry(o, g) = 0 - Scalps!ZoneEntry(d, z)
      /\ Scalps!ZoneStop(o, g) = 0 - Scalps!ZoneStop(d, z)
      /\ Scalps!ZoneLocation(o, g) = Scalps!ZoneLocation(d, z)
      /\ g.size = z.size
  <2>1. z.kind \in {"gap", "block"}
    BY <1>3
  <2> QED
    BY <1>3, <1>4, <2>1, ZonesTurn, Zenon
<1> HIDE DEF o
<1>7. parts(o, g) = parts(d, z)
  BY <1>6, Zenon
<1>8. Scored(parts(d, z))
  <2>1. (100 * z.size) \div 150 \in Int /\ 45 \in Int /\ 50 \in Int
    BY <1>6, SharesAre, SMTT(60)
  <2> QED
    BY <1>6, <2>1, PartsAreScored, ZenonT(60)
<1> HIDE DEF parts
<1>9. /\ made(n, o, g) = Scalps!Finish(n, "ob_reaction", o, 0 - Scalps!ZoneEntry(d, z),
                           0 - Scalps!ZoneStop(d, z), Scalps!Negated(Scalps!NoPrice), parts(d, z))
      /\ s \in Scalps!Finish(m, "ob_reaction", d, Scalps!ZoneEntry(d, z), Scalps!ZoneStop(d, z),
                             Scalps!NoPrice, parts(d, z))
  BY <1>2, <1>6, <1>7, Negatives, Zenon DEF made
<1>10. Scalps!NoPrice \in Scalps!Prices \cup {Scalps!NoPrice}
  OBVIOUS
<1> QED
  BY <1>5, <1>6, <1>8, <1>9, <1>10, Zenon DEF Reflects, o

\* A break that is retested, upside down.
LEMMA RetestingReflects ==
    ASSUME NEW m, NEW n, Twins(m, n), NEW d \in Scalps!Directions, NEW s \in Scalps!Retesting(m, d)
    PROVE  Reflects(s, m, n, "breakout_retest", d, Scalps!Retesting(n, Scalps!Opposite(d)))
<1> DEFINE o == Scalps!Opposite(d)
           latest(r, e) == Scalps!Latest({x \in Scalps!Facing(r, "bos", e) : x.age <= Scalps!ShiftWindow})
           near(r, e) == {c \in latest(r, e) : Scalps!AbsOf(c.price) <= Scalps!ATR \div 2}
           stop(e, b) == IF e = "LONG" THEN b.price - (7 * Scalps!ATR) \div 20 ELSE b.price + (7 * Scalps!ATR) \div 20
           parts(b) == Scalps!Parts((100 * b.size) \div 150, 35, b.body,
                                    100 - (100 * Scalps!AbsOf(b.price)) \div (Scalps!ATR \div 2))
           made(r, e, b) == Scalps!Finish(r, "breakout_retest", e, 0, stop(e, b), b.price, parts(b))
<1>1. \A r, e : Scalps!Retesting(r, e) = UNION {made(r, e, b) : b \in near(r, e)}
  BY DEF Scalps!Retesting
<1>2. \A x \in latest(m, d) : Well(x) /\ x.kind = "bos" /\ \E g \in latest(n, o) : Upturned(x, g)
  BY FreshBreaksPair
<1> HIDE DEF latest, made
<1>3. PICK b \in near(m, d) : s \in made(m, d, b)
  BY <1>1
<1>4. Well(b) /\ b.kind = "bos" /\ b \in latest(m, d)
  BY <1>2
<1>5. PICK g \in latest(n, o) : Upturned(b, g)
  BY <1>2, <1>4
<1>6. /\ b.price \in Scalps!Prices /\ b.size \in Int /\ b.body \in Int
      /\ g.price = 0 - b.price /\ g.size = b.size /\ g.body = b.body
  BY <1>4, <1>5 DEF Well, Upturned
<1>7. b.price \in Int /\ Scalps!Negated(b.price) = 0 - b.price
  BY <1>6, Negatives
<1>8. Scalps!AbsOf(g.price) = Scalps!AbsOf(b.price)
  BY <1>6, <1>7, Distances
<1>9. made(n, o, g) \subseteq Scalps!Retesting(n, o)
  <2>1. g \in near(n, o)
    BY <1>8
  <2> HIDE DEF near
  <2> QED
    BY <1>1, <2>1
<1>10. stop(d, b) \in Int /\ stop(o, g) = 0 - stop(d, b)
  BY <1>6, <1>7, Opposites DEF Scalps!ATR, Scalps!Directions
<1>11. parts(g) = parts(b)
  BY <1>6, <1>8, Zenon
<1>12. Scored(parts(b))
  <2>1. (100 * b.size) \div 150 \in Int /\ 100 - (100 * Scalps!AbsOf(b.price)) \div (Scalps!ATR \div 2) \in Int
    BY <1>6, <1>7, SharesAre, ZenonT(60)
  <2>2. 35 \in Int
    OBVIOUS
  <2> QED
    BY <1>6, <2>1, <2>2, PartsAreScored, ZenonT(60)
<1> HIDE DEF stop, parts, o
<1>13. /\ made(n, o, g) = Scalps!Finish(n, "breakout_retest", o, 0 - 0, 0 - stop(d, b), Scalps!Negated(b.price), parts(b))
       /\ s \in Scalps!Finish(m, "breakout_retest", d, 0, stop(d, b), b.price, parts(b))
  <2>1. 0 - 0 = 0
    OBVIOUS
  <2> QED
    BY <1>3, <1>6, <1>7, <1>10, <1>11, <2>1, Zenon DEF made
<1>14. 0 \in Scalps!Prices /\ b.price \in Scalps!Prices \cup {Scalps!NoPrice}
  BY <1>6, Distances
<1> QED
  BY <1>9, <1>10, <1>12, <1>13, <1>14, Zenon DEF Reflects, o

\* Conditions are what their fields are, and those of the market upside down are conditions.
LEMMA SettingsTurn ==
    ASSUME NEW c \in Scalps!Settings, NEW e, e = Scalps!MirrorConditions(c)
    PROVE  /\ c.lean \in {1, -1} /\ c.slope \in Int /\ c.adx \in Int /\ c.spread \in Nat /\ c.heat \in Nat
           /\ e \in Scalps!Settings
           /\ e.enough = c.enough /\ e.heat = c.heat /\ e.adx = c.adx /\ e.spread = c.spread
           /\ e.lean = 0 - c.lean /\ e.slope = 0 - c.slope /\ e.blocked = c.blocked
           /\ e.fast = c.fast /\ e.session = c.session /\ e.news = c.news
<1>1. e = [c EXCEPT !.lean = 0 - @, !.slope = 0 - @]
  BY DEF Scalps!MirrorConditions
<1>2. c.lean \in {1, -1} /\ c.slope \in Int /\ c.adx \in Int /\ c.spread \in Nat /\ c.heat \in Nat
  BY DEF Scalps!Settings
<1>3. /\ e.enough = c.enough /\ e.heat = c.heat /\ e.adx = c.adx /\ e.spread = c.spread
      /\ e.lean = 0 - c.lean /\ e.slope = 0 - c.slope /\ e.blocked = c.blocked
      /\ e.fast = c.fast /\ e.session = c.session /\ e.news = c.news
  BY <1>1 DEF Scalps!Settings
<1>4. 0 - c.lean \in {1, -1} /\ 0 - c.slope \in Int
  BY <1>2
<1>5. e \in Scalps!Settings
  BY <1>1, <1>4 DEF Scalps!Settings
<1> QED
  BY <1>2, <1>3, <1>5

\* Upside down, a strong trend is one the other way, and nothing else is judged otherwise.
LEMMA RegimeTurns ==
    ASSUME NEW c \in Scalps!Settings
    PROVE  LET e == Scalps!MirrorConditions(c)
           IN /\ e \in Scalps!Settings /\ Scalps!MirrorConditions(e) = c
              /\ e.fast = c.fast /\ e.session = c.session /\ e.news = c.news /\ e.spread = c.spread
              /\ Scalps!Regime(e) = "STRONG_BULL" <=> Scalps!Regime(c) = "STRONG_BEAR"
              /\ Scalps!Regime(e) = "STRONG_BEAR" <=> Scalps!Regime(c) = "STRONG_BULL"
<1> DEFINE e == Scalps!MirrorConditions(c)
           f == Scalps!MirrorConditions(e)
<1>1. e = Scalps!MirrorConditions(c) /\ f = Scalps!MirrorConditions(e)
  OBVIOUS
<1> HIDE DEF e, f
<1>2. /\ c.lean \in {1, -1} /\ c.slope \in Int /\ c.adx \in Int /\ c.spread \in Nat /\ c.heat \in Nat
      /\ e \in Scalps!Settings
  BY <1>1, SettingsTurn
<1>3. /\ e.enough = c.enough /\ e.heat = c.heat /\ e.adx = c.adx /\ e.spread = c.spread
      /\ e.lean = 0 - c.lean /\ e.slope = 0 - c.slope /\ e.blocked = c.blocked
      /\ e.fast = c.fast /\ e.session = c.session /\ e.news = c.news
  BY <1>1, SettingsTurn
<1>4. /\ f.enough = e.enough /\ f.heat = e.heat /\ f.adx = e.adx /\ f.spread = e.spread
      /\ f.lean = 0 - e.lean /\ f.slope = 0 - e.slope /\ f.blocked = e.blocked
      /\ f.fast = e.fast /\ f.session = e.session /\ f.news = e.news /\ f \in Scalps!Settings
  BY <1>1, <1>2, SettingsTurn
<1>5. f = c
  <2>1. f.lean = c.lean /\ f.slope = c.slope
    BY <1>2, <1>3, <1>4
  <2>2. \A x, y \in Scalps!Settings :
          /\ x.enough = y.enough /\ x.heat = y.heat /\ x.adx = y.adx /\ x.spread = y.spread
          /\ x.lean = y.lean /\ x.slope = y.slope /\ x.blocked = y.blocked
          /\ x.fast = y.fast /\ x.session = y.session /\ x.news = y.news
          => x = y
    BY DEF Scalps!Settings
  <2> QED
    BY <1>3, <1>4, <2>1, <2>2
<1>6. Scalps!Abnormal(e) <=> Scalps!Abnormal(c)
  BY <1>3, Zenon DEF Scalps!Abnormal
<1>7. Scalps!Directional(e) <=> Scalps!Directional(c)
  BY <1>2, <1>3 DEF Scalps!Directional
<1>8. (e.lean = 1 <=> c.lean # 1)
  BY <1>2, <1>3
<1> QED
  BY <1>2, <1>3, <1>5, <1>6, <1>7, <1>8 DEF Scalps!Regime, e, f

\* A continuation, upside down.
LEMMA ContinuingReflects ==
    ASSUME NEW m, NEW n, Twins(m, n), NEW d \in Scalps!Directions, NEW c, NEW e,
           Scalps!Regime(c) = "STRONG_BULL" => Scalps!Regime(e) = "STRONG_BEAR",
           Scalps!Regime(c) = "STRONG_BEAR" => Scalps!Regime(e) = "STRONG_BULL",
           NEW s \in Scalps!Continuing(m, d, c)
    PROVE  Reflects(s, m, n, "momentum_continuation", d, Scalps!Continuing(n, Scalps!Opposite(d), e))
<1> DEFINE o == Scalps!Opposite(d)
           strong(q) == IF q = "LONG" THEN "STRONG_BULL" ELSE "STRONG_BEAR"
           latest(r) == Scalps!Latest(Scalps!Kind(r, "bos"))
           with(r, q, g) == {x \in latest(r) : x.dir = q /\ Scalps!Regime(g) = strong(q)}
           stop(q, b) == IF q = "LONG" THEN b.price - (3 * Scalps!ATR) \div 10 ELSE b.price + (3 * Scalps!ATR) \div 10
           parts(b, t) == Scalps!Parts((100 * b.size) \div 150, 30, (100 * t.size) \div 120,
                                       100 - (100 * Scalps!AbsOf(b.price)) \div ((5 * Scalps!ATR) \div 2))
           made(r, q, b, t) == Scalps!Finish(r, "momentum_continuation", q, 0, stop(q, b), b.price, parts(b, t))
<1>1. \A r, q, g : Scalps!Continuing(r, q, g) =
                     UNION {UNION {made(r, q, b, t) : t \in Scalps!RecentShift(r, q)} : b \in with(r, q, g)}
  BY DEF Scalps!Continuing
<1>2. \A x \in latest(m) : Well(x) /\ x.kind = "bos" /\ \E g \in latest(n) : Upturned(x, g)
  BY LastBreaksPair
<1> HIDE DEF latest
<1>3. (d = "LONG" /\ o = "SHORT") \/ (d = "SHORT" /\ o = "LONG")
  BY Opposites DEF Scalps!Directions
<1> HIDE DEF made
<1>4. PICK b \in with(m, d, c) : \E t \in Scalps!RecentShift(m, d) : s \in made(m, d, b, t)
  <2> HIDE DEF with
  <2> QED
    BY <1>1
<1>5. PICK t \in Scalps!RecentShift(m, d) : s \in made(m, d, b, t)
  BY <1>4
<1>6. Well(b) /\ b.kind = "bos" /\ b \in latest(m) /\ b.dir = d /\ Scalps!Regime(c) = strong(d)
  BY <1>2
<1>7. PICK g \in latest(n) : Upturned(b, g)
  BY <1>2, <1>6
<1>8. /\ b.price \in Scalps!Prices /\ b.size \in Int
      /\ g.price = 0 - b.price /\ g.size = b.size /\ g.dir = Scalps!Opposite(b.dir)
  BY <1>6, <1>7 DEF Well, Upturned
<1>9. PICK u \in Scalps!RecentShift(n, o) : t.size \in Int /\ u.size = t.size
  BY ShiftsPair
<1>10. b.price \in Int /\ Scalps!Negated(b.price) = 0 - b.price
  BY <1>8, Negatives
<1>11. Scalps!AbsOf(g.price) = Scalps!AbsOf(b.price)
  BY <1>8, <1>10, Distances
<1>12. made(n, o, g, u) \subseteq Scalps!Continuing(n, o, e)
  <2>1. g.dir = o
    BY <1>6, <1>8
  <2> HIDE DEF o
  <2>2. g \in with(n, o, e)
    BY <1>3, <1>6, <2>1
  <2> HIDE DEF with
  <2> QED
    BY <1>1, <2>2
<1>13. stop(d, b) \in Int /\ stop(o, g) = 0 - stop(d, b)
  <2> HIDE DEF o
  <2> QED
    BY <1>3, <1>8, <1>10 DEF Scalps!ATR
<1>14. parts(g, u) = parts(b, t)
  BY <1>8, <1>9, <1>11, Zenon
<1>15. Scored(parts(b, t))
  <2>1. /\ (100 * b.size) \div 150 \in Int /\ (100 * t.size) \div 120 \in Int
        /\ 100 - (100 * Scalps!AbsOf(b.price)) \div ((5 * Scalps!ATR) \div 2) \in Int
    BY <1>8, <1>9, <1>10, SharesAre, ZenonT(60)
  <2>2. 30 \in Int
    OBVIOUS
  <2> QED
    BY <2>1, <2>2, PartsAreScored, ZenonT(60)
<1> HIDE DEF stop, parts, o
<1>16. /\ made(n, o, g, u) = Scalps!Finish(n, "momentum_continuation", o, 0 - 0, 0 - stop(d, b),
                                           Scalps!Negated(b.price), parts(b, t))
       /\ s \in Scalps!Finish(m, "momentum_continuation", d, 0, stop(d, b), b.price, parts(b, t))
  <2>1. 0 - 0 = 0
    OBVIOUS
  <2> QED
    BY <1>5, <1>8, <1>10, <1>13, <1>14, <2>1, Zenon DEF made
<1>17. 0 \in Scalps!Prices /\ b.price \in Scalps!Prices \cup {Scalps!NoPrice}
  BY <1>8, Distances
<1> QED
  BY <1>12, <1>13, <1>15, <1>16, <1>17, Zenon DEF Reflects, o

\* Every signal of the one market is one of the other, upside down.
LEMMA SignalsTurn ==
    ASSUME NEW m, NEW n, Twins(m, n), NEW c \in Scalps!Settings, NEW s \in Scalps!Signals(m, c)
    PROVE  /\ Scalps!MirrorOf(s) \in Scalps!Signals(n, Scalps!MirrorConditions(c))
           /\ Scalps!MirrorOf(Scalps!MirrorOf(s)) = s
           /\ Turned(s, Scalps!MirrorOf(s)) /\ Scored(s.parts)
<1> DEFINE e == Scalps!MirrorConditions(c)
           all(r, d, g) == Scalps!Sweeping(r, d) \cup Scalps!Retracing(r, d) \cup Scalps!Reacting(r, d)
                           \cup Scalps!Retesting(r, d) \cup Scalps!Continuing(r, d, g)
<1>1. \A r, g, t : t \in Scalps!Signals(r, g) <=>
                     t.model \in ScalpModels /\ \E d \in Scalps!Directions : t \in all(r, d, g)
  BY DEF Scalps!Signals
<1>2. PICK d \in Scalps!Directions : s \in all(m, d, c)
  BY <1>1
<1>3. s.model \in ScalpModels
  BY <1>1
<1> DEFINE o == Scalps!Opposite(d)
<1>4. o \in Scalps!Directions
  BY Opposites
<1>5. /\ Scalps!Regime(c) = "STRONG_BULL" => Scalps!Regime(e) = "STRONG_BEAR"
      /\ Scalps!Regime(c) = "STRONG_BEAR" => Scalps!Regime(e) = "STRONG_BULL"
  BY RegimeTurns, Zenon
<1> HIDE DEF e
<1>6. \E model : Reflects(s, m, n, model, d, all(n, o, e))
  <2>0. ASSUME NEW model, NEW S \in SUBSET all(n, o, e), Reflects(s, m, n, model, d, S)
        PROVE  \E mo : Reflects(s, m, n, mo, d, all(n, o, e))
    <3> HIDE DEF all, o
    <3>1. \A F : F \subseteq S => F \subseteq all(n, o, e)
      OBVIOUS
    <3>2. Reflects(s, m, n, model, d, all(n, o, e))
      BY <2>0, <3>1, Zenon DEF Reflects
    <3> QED
      BY <3>2, Zenon
  <2>1. CASE s \in Scalps!Sweeping(m, d)
    BY <2>0, <2>1, SweepingReflects
  <2>2. CASE s \in Scalps!Retracing(m, d)
    BY <2>0, <2>2, RetracingReflects
  <2>3. CASE s \in Scalps!Reacting(m, d)
    BY <2>0, <2>3, ReactingReflects
  <2>4. CASE s \in Scalps!Retesting(m, d)
    BY <2>0, <2>4, RetestingReflects
  <2>5. CASE s \in Scalps!Continuing(m, d, c)
    <3>1. Reflects(s, m, n, "momentum_continuation", d, Scalps!Continuing(n, o, e))
      BY <1>5, <2>5, ContinuingReflects, Zenon
    <3> QED
      BY <2>0, <3>1
  <2> QED
    BY <1>2, <2>1, <2>2, <2>3, <2>4, <2>5
<1> HIDE DEF all, o
<1>7. PICK model : Reflects(s, m, n, model, d, all(n, o, e))
  BY <1>6
<1>8. PICK b \in Scalps!Prices, stop \in Int : \E ref \in Scalps!Prices \cup {Scalps!NoPrice} : \E parts :
        /\ s \in Scalps!Finish(m, model, d, b, stop, ref, parts)
        /\ Scalps!Finish(n, model, o, 0 - b, 0 - stop, Scalps!Negated(ref), parts) \subseteq all(n, o, e)
        /\ Scored(parts)
  BY <1>7, Zenon DEF Reflects, o
<1>9. PICK ref \in Scalps!Prices \cup {Scalps!NoPrice} : \E parts :
        /\ s \in Scalps!Finish(m, model, d, b, stop, ref, parts)
        /\ Scalps!Finish(n, model, o, 0 - b, 0 - stop, Scalps!Negated(ref), parts) \subseteq all(n, o, e)
        /\ Scored(parts)
  BY <1>8, Zenon
<1>10. PICK parts :
        /\ s \in Scalps!Finish(m, model, d, b, stop, ref, parts)
        /\ Scalps!Finish(n, model, o, 0 - b, 0 - stop, Scalps!Negated(ref), parts) \subseteq all(n, o, e)
        /\ Scored(parts)
  BY <1>9, Zenon
<1>11. /\ Scalps!MirrorOf(s) \in Scalps!Finish(n, model, o, 0 - b, 0 - stop, Scalps!Negated(ref), parts)
       /\ Scalps!MirrorOf(Scalps!MirrorOf(s)) = s
       /\ Turned(s, Scalps!MirrorOf(s)) /\ s.model = model
  <2>1. b \in Scalps!Prices /\ stop \in Int /\ ref \in Scalps!Prices \cup {Scalps!NoPrice}
    BY <1>8, <1>9
  <2>2. /\ Scalps!MirrorOf(s) \in Scalps!Finish(n, model, Scalps!Opposite(d), 0 - b, 0 - stop,
                                                Scalps!Negated(ref), parts)
        /\ Scalps!MirrorOf(Scalps!MirrorOf(s)) = s
        /\ Turned(s, Scalps!MirrorOf(s)) /\ s.model = model
    <3>1. s \in Scalps!Finish(m, model, d, b, stop, ref, parts)
      BY <1>10
    <3> QED
      BY <2>1, <3>1, FinishFollows
  <2> QED
    BY <2>2, Zenon DEF o
<1>12. Scalps!MirrorOf(s) \in all(n, o, e)
  BY <1>10, <1>11, Zenon
<1>13. Scalps!MirrorOf(s).model \in ScalpModels
  BY <1>3, <1>11, Zenon DEF Turned
<1>14. Scored(s.parts)
  <2>1. s.parts = parts
    BY <1>10, FinishIs
  <2> QED
    BY <1>10, <2>1, Zenon
<1> QED
  BY <1>1, <1>4, <1>11, <1>12, <1>13, <1>14, Zenon DEF e

\* The stop of a position is as far from another upside down; one that is missing is
\* far from all.
LEMMA StopsApart ==
    ASSUME NEW q \in Scalps!Stops, NEW x \in Scalps!Nearby
    PROVE  Scalps!AbsOf(Scalps!Negated(q) - (0 - x)) > Scalps!ATR <=> Scalps!AbsOf(q - x) > Scalps!ATR
<1> DEFINE bound == 9500
<1>1. Scalps!Naked \in Int /\ Scalps!Naked > 10000 /\ Scalps!Negated(Scalps!Naked) = Scalps!Naked
  <2>1. Scalps!Naked \in Int /\ Scalps!Naked > 10000
    BY DEF Scalps!Naked
  <2> QED
    BY <2>1 DEF Scalps!Negated
<1>2. x \in Int /\ bound \in Int /\ 0 - bound <= x /\ x <= bound
  BY DEF Scalps!Nearby
<1>3. bound < 10000 - 40
  OBVIOUS
<1>4. Scalps!ATR = 40
  BY DEF Scalps!ATR
<1>5. CASE q = Scalps!Naked
  <2> DEFINE far == 10000
  <2>1. far \in Int /\ Scalps!Naked > far /\ bound < far - 40
    BY <1>1, <1>3
  <2> HIDE DEF bound, far
  <2>2. /\ Scalps!Naked - x \in Int /\ Scalps!Naked - x > 40
        /\ Scalps!Naked - (0 - x) \in Int /\ Scalps!Naked - (0 - x) > 40
    BY <1>1, <1>2, <2>1
  <2> QED
    BY <1>1, <1>4, <1>5, <2>2 DEF Scalps!AbsOf
<1>6. CASE q \in Scalps!Nearby
  <2>1. q \in Int
    BY <1>6, Negatives DEF Scalps!Stops
  <2>2. Scalps!Negated(q) = 0 - q
    BY <1>6, Negatives
  <2>3. (0 - q) - (0 - x) = 0 - (q - x) /\ q - x \in Int
    BY <1>2, <2>1
  <2> QED
    BY <2>2, <2>3, Distances, Zenon
<1> QED
  BY <1>5, <1>6 DEF Scalps!Stops

\* The budgets of a scalp are those of its image.
LEMMA UncorrelatedTurns ==
    ASSUME NEW m, NEW n, Twins(m, n), NEW s, NEW t, Turned(s, t), Scalps!Uncorrelated(s, m)
    PROVE  Scalps!Uncorrelated(t, n)
<1>1. \A S : Scalps!Cardinality(S) = Cardinality(S)
  BY DEF Scalps!Cardinality, Scalps!IsFiniteSet, Cardinality, IsFiniteSet
<1>2. Crowd(n, t.dir) = Crowd(m, s.dir)
  BY Zenon DEF Twins, Turned
<1>3. \A r, d : Scalps!Cardinality({p \in Scalps!Kind(r, "position") : p.dir = d}) = Crowd(r, d)
  BY <1>1, Zenon DEF Crowd
<1>4. \A r, u : Scalps!Uncorrelated(u, r) <=>
        /\ Crowd(r, u.dir) + 1 <= SideCap
        /\ \A x \in Scalps!Exposures(r) :
             /\ Scalps!AbsOf(x.stop - u.stop) > Scalps!ATR
             /\ x.ref = Scalps!NoPrice \/ u.ref = Scalps!NoPrice \/ 4 * Scalps!AbsOf(x.ref - u.ref) > Scalps!ATR
             /\ x.model # u.model
  BY <1>3, Zenon DEF Scalps!Uncorrelated
<1>5. \A r, x : x \in Scalps!Exposures(r) <=>
        \E p \in Scalps!Kind(r, "position") :
           x = [dir |-> p.dir, stop |-> p.stop, model |-> "", ref |-> Scalps!NoPrice]
  BY DEF Scalps!Exposures
<1>6. ASSUME NEW x \in Scalps!Exposures(n)
      PROVE  /\ Scalps!AbsOf(x.stop - t.stop) > Scalps!ATR
             /\ x.ref = Scalps!NoPrice
             /\ x.model # t.model
  <2>1. PICK g \in Scalps!Kind(n, "position") :
           x = [dir |-> g.dir, stop |-> g.stop, model |-> "", ref |-> Scalps!NoPrice]
    BY <1>5
  <2>2. PICK f \in Scalps!Kind(m, "position") : Upturned(f, g)
    BY Pairs
  <2>3. Well(f) /\ f.kind = "position"
    BY Pairs
  <2>4. f.stop \in Scalps!Stops /\ g.stop = Scalps!Negated(f.stop)
    BY <2>2, <2>3 DEF Well, Upturned
  <2> DEFINE y == [dir |-> f.dir, stop |-> f.stop, model |-> "", ref |-> Scalps!NoPrice]
  <2>5. y \in Scalps!Exposures(m)
    BY <1>5
  <2>6. Scalps!AbsOf(f.stop - s.stop) > Scalps!ATR /\ "" # s.model
    <3>1. y.stop = f.stop /\ y.model = ""
      OBVIOUS
    <3> HIDE DEF y
    <3> QED
      BY <1>4, <2>5, <3>1, Zenon
  <2>7. s.stop \in Scalps!Nearby /\ t.stop = 0 - s.stop /\ t.model = s.model
    BY DEF Turned
  <2>8. Scalps!AbsOf(g.stop - t.stop) > Scalps!ATR
    BY <2>4, <2>6, <2>7, StopsApart, Zenon
  <2> QED
    BY <2>1, <2>6, <2>7, <2>8
<1> QED
  BY <1>2, <1>4, <1>6, Zenon

\* What is approved of the one market is approved of the other, upside down.
LEMMA ApprovalsTurn ==
    ASSUME NEW m, NEW n, Twins(m, n), NEW c \in Scalps!Settings, NEW s \in Scalps!Approvals(m, c)
    PROVE  Scalps!MirrorOf(s) \in Scalps!Approvals(n, Scalps!MirrorConditions(c))
<1> DEFINE e == Scalps!MirrorConditions(c)
           t == Scalps!MirrorOf(s)
<1>1. s \in Scalps!Signals(m, c) /\ Scalps!Approved(s, m, c)
  BY DEF Scalps!Approvals
<1>2. t \in Scalps!Signals(n, e) /\ Turned(s, t)
  BY <1>1, SignalsTurn
<1>3. e.fast = c.fast /\ e.session = c.session /\ e.news = c.news /\ e.spread = c.spread
  BY RegimeTurns
<1> HIDE DEF e, t
<1>4. Scalps!Score(t, e) = Scalps!Score(s, c)
  BY <1>2, <1>3, Zenon DEF Scalps!Score, Turned
<1>5. Scalps!Risk(t) = Scalps!Risk(s) /\ Scalps!Reward(t) = Scalps!Reward(s)
  <2>1. /\ s.entry \in Int /\ s.stop \in Int /\ s.target \in Int
        /\ t.entry = 0 - s.entry /\ t.stop = 0 - s.stop /\ t.target = 0 - s.target
    BY <1>2 DEF Turned
  <2>2. /\ t.entry - t.stop = 0 - (s.entry - s.stop) /\ s.entry - s.stop \in Int
        /\ t.target - t.entry = 0 - (s.target - s.entry) /\ s.target - s.entry \in Int
    BY <2>1
  <2> QED
    BY <2>2, Distances, Zenon DEF Scalps!Risk, Scalps!Reward
<1>6. Scalps!Affordable(s, c.spread) => Scalps!Affordable(t, e.spread)
  BY <1>3, <1>5, Zenon DEF Scalps!Affordable
<1>7. Scalps!Uncorrelated(s, m) => Scalps!Uncorrelated(t, n)
  BY <1>2, UncorrelatedTurns, Zenon
<1>8. Scalps!Tolerated(s, m) => Scalps!Tolerated(t, n)
  <2> SUFFICES ASSUME Scalps!Tolerated(s, m), NEW g \in Scalps!Kind(n, "position")
               PROVE  g.owner = "intraday" /\ g.dir = t.dir
    BY DEF Scalps!Tolerated
  <2>1. PICK f \in Scalps!Kind(m, "position") : Upturned(f, g)
    BY Pairs
  <2>2. f.kind = "position"
    BY Pairs
  <2>3. f.owner = "intraday" /\ f.dir = s.dir
    BY DEF Scalps!Tolerated
  <2>4. g.owner = f.owner /\ g.dir = Scalps!Opposite(f.dir)
    BY <2>1, <2>2 DEF Upturned
  <2>5. t.dir = Scalps!Opposite(s.dir)
    BY <1>2 DEF Turned
  <2> QED
    BY <2>3, <2>4, <2>5
<1>9. t.model = s.model
  BY <1>2 DEF Turned
<1>10. Scalps!Approved(t, n, e)
  BY <1>1, <1>4, <1>5, <1>6, <1>7, <1>8, <1>9, Zenon DEF Scalps!Approved
<1> QED
  BY <1>2, <1>10, Zenon DEF Scalps!Approvals, e, t

\* A position that is turned twice is the same again.
LEMMA PositionTwice ==
    ASSUME NEW p \in Scalps!PositionSights
    PROVE  Scalps!MirrorOf(p) \in Scalps!PositionSights /\ Scalps!MirrorOf(Scalps!MirrorOf(p)) = p
<1> DEFINE q == Scalps!MirrorOf(p)
<1>1. /\ p = [kind |-> p.kind, owner |-> p.owner, dir |-> p.dir, stop |-> p.stop]
      /\ DOMAIN p = {"kind", "owner", "dir", "stop"}
      /\ p.kind = "position" /\ p.owner \in {"aplus", "intraday", "scalp"}
      /\ p.dir \in Scalps!Directions /\ p.stop \in Scalps!Stops
  BY DEF Scalps!PositionSights
<1>2. q = [kind |-> p.kind, owner |-> p.owner, dir |-> Scalps!Opposite(p.dir), stop |-> Scalps!Negated(p.stop)]
  BY <1>1 DEF Scalps!MirrorOf
<1>3. Scalps!Opposite(p.dir) \in Scalps!Directions /\ Scalps!Opposite(Scalps!Opposite(p.dir)) = p.dir
  BY <1>1, Opposites
<1>4. Scalps!Negated(p.stop) \in Scalps!Stops /\ Scalps!Negated(Scalps!Negated(p.stop)) = p.stop
  BY <1>1, Negatives
<1>5. q \in Scalps!PositionSights
  BY <1>1, <1>2, <1>3, <1>4 DEF Scalps!PositionSights
<1>6. /\ q.kind = p.kind /\ q.owner = p.owner /\ q.dir = Scalps!Opposite(p.dir)
      /\ q.stop = Scalps!Negated(p.stop) /\ DOMAIN q = {"kind", "owner", "dir", "stop"}
  BY <1>2
<1> HIDE DEF q
<1>7. Scalps!MirrorOf(q) =
        [kind |-> q.kind, owner |-> q.owner, dir |-> Scalps!Opposite(q.dir), stop |-> Scalps!Negated(q.stop)]
  BY <1>6 DEF Scalps!MirrorOf
<1>8. Scalps!MirrorOf(q) = p
  BY <1>1, <1>3, <1>4, <1>6, <1>7
<1> QED
  BY <1>5, <1>8 DEF q

\* As many positions stand on one side as stand on the other upside down.
LEMMA CrowdTurns ==
    ASSUME NEW m \in SUBSET Scalps!Sights, IsFiniteSet(m), NEW d \in Scalps!Directions
    PROVE  Crowd(Scalps!Mirrored(m), Scalps!Opposite(d)) = Crowd(m, d)
<1> DEFINE n == Scalps!Mirrored(m)
           o == Scalps!Opposite(d)
           S == {p \in Scalps!Kind(m, "position") : p.dir = d}
           T == {p \in Scalps!Kind(n, "position") : p.dir = o}
           F == [p \in S |-> Scalps!MirrorOf(p)]
<1>1. \A p \in S : /\ p \in m /\ p.kind = "position" /\ p.dir = d
                   /\ p \in Scalps!PositionSights /\ Upturned(p, Scalps!MirrorOf(p))
                   /\ Scalps!MirrorOf(Scalps!MirrorOf(p)) = p
  <2> SUFFICES ASSUME NEW p \in S
               PROVE  /\ p \in m /\ p.kind = "position" /\ p.dir = d
                      /\ p \in Scalps!PositionSights /\ Upturned(p, Scalps!MirrorOf(p))
                      /\ Scalps!MirrorOf(Scalps!MirrorOf(p)) = p
    OBVIOUS
  <2>1. p \in m /\ p.kind = "position" /\ p.dir = d /\ p \in Scalps!Sights
    BY DEF Scalps!Kind
  <2>2. p \in Scalps!PositionSights /\ Upturned(p, Scalps!MirrorOf(p))
    BY <2>1, SightUp
  <2> QED
    BY <2>1, <2>2, PositionTwice
<1>2. \A p \in S : Scalps!MirrorOf(p) \in T
  <2> SUFFICES ASSUME NEW p \in S PROVE Scalps!MirrorOf(p) \in T
    OBVIOUS
  <2>1. Scalps!MirrorOf(p) \in n
    BY <1>1 DEF Scalps!Mirrored
  <2>2. Scalps!MirrorOf(p).kind = "position" /\ Scalps!MirrorOf(p).dir = o
    BY <1>1 DEF Upturned
  <2> QED
    BY <2>1, <2>2 DEF Scalps!Kind
<1>3. \A q \in T : \E p \in S : Scalps!MirrorOf(p) = q
  <2> SUFFICES ASSUME NEW q \in T PROVE \E p \in S : Scalps!MirrorOf(p) = q
    OBVIOUS
  <2>1. q \in n /\ q.kind = "position" /\ q.dir = o
    BY DEF Scalps!Kind
  <2>2. PICK p \in m : q = Scalps!MirrorOf(p)
    BY <2>1 DEF Scalps!Mirrored
  <2>3. Upturned(p, q) /\ Well(p)
    BY <2>2, SightUp
  <2>4. p.kind = "position"
    BY <2>1, <2>3 DEF Upturned
  <2>5. q.dir = Scalps!Opposite(p.dir) /\ p.dir \in Scalps!Directions
    BY <2>3, <2>4 DEF Upturned, Well
  <2>6. p.dir = d
    BY <2>1, <2>5, Opposites, Zenon
  <2>7. p \in S
    BY <2>4, <2>6 DEF Scalps!Kind
  <2> QED
    BY <2>2, <2>7
<1>4. IsFiniteSet(S)
  <2>1. S \subseteq m
    BY <1>1
  <2> HIDE DEF S
  <2> QED
    BY <2>1, FS_Subset
<1> HIDE DEF S, T, n, o
<1>5. \A p, q \in S : F[p] = F[q] => p = q
  BY <1>1, Zenon
<1>6. F \in [S -> T] /\ \A q \in T : \E p \in S : F[p] = q
  BY <1>2, <1>3
<1>7. F \in Surjection(S, T)
  BY <1>6 DEF Surjection
<1>8. F \in Injection(S, T)
  BY <1>5, <1>6 DEF Injection, IsInjective
<1> HIDE DEF F
<1>9. Cardinality(T) = Cardinality(S)
  BY <1>4, <1>7, <1>8, FS_Surjection
<1> QED
  BY <1>9 DEF S, T, n, o, Crowd

\* The market upside down is its twin.
LEMMA MirroredTwins ==
    ASSUME NEW m \in SUBSET Scalps!Sights, IsFiniteSet(m)
    PROVE  Twins(m, Scalps!Mirrored(m))
<1>1. \A f \in m : Well(f) /\ Upturned(f, Scalps!MirrorOf(f))
  BY SightUp
<1>2. \A g : g \in Scalps!Mirrored(m) <=> \E f \in m : g = Scalps!MirrorOf(f)
  BY DEF Scalps!Mirrored
<1>3. \A d \in Scalps!Directions : Crowd(Scalps!Mirrored(m), Scalps!Opposite(d)) = Crowd(m, d)
  BY CrowdTurns
<1> QED
  BY <1>1, <1>2, <1>3, Zenon DEF Twins

\* Of twins, the signals of the one are those of the other upside down, and so are the
\* approvals.
LEMMA TwinsAgree ==
    ASSUME NEW m, NEW n, Twins(m, n), NEW c \in Scalps!Settings
    PROVE  LET e == Scalps!MirrorConditions(c)
           IN /\ Scalps!Signals(n, e) = Scalps!Mirrored(Scalps!Signals(m, c))
              /\ Scalps!Approvals(n, e) = Scalps!Mirrored(Scalps!Approvals(m, c))
<1> DEFINE e == Scalps!MirrorConditions(c)
<1>1. \A S, t : t \in Scalps!Mirrored(S) <=> \E s \in S : t = Scalps!MirrorOf(s)
  BY DEF Scalps!Mirrored
<1>2. e \in Scalps!Settings /\ Scalps!MirrorConditions(e) = c
  BY RegimeTurns
<1>3. Twins(n, m)
  BY TwinsBack
<1> HIDE DEF e
<1>4. \A s \in Scalps!Signals(m, c) : Scalps!MirrorOf(s) \in Scalps!Signals(n, e)
  BY SignalsTurn, Zenon DEF e
<1>5. \A t \in Scalps!Signals(n, e) :
        Scalps!MirrorOf(t) \in Scalps!Signals(m, c) /\ Scalps!MirrorOf(Scalps!MirrorOf(t)) = t
  BY <1>2, <1>3, SignalsTurn
<1>6. \A s \in Scalps!Approvals(m, c) : Scalps!MirrorOf(s) \in Scalps!Approvals(n, e)
  BY ApprovalsTurn, Zenon DEF e
<1>7. \A t \in Scalps!Approvals(n, e) : Scalps!MirrorOf(t) \in Scalps!Approvals(m, c)
  BY <1>2, <1>3, ApprovalsTurn
<1>8. \A t \in Scalps!Approvals(n, e) : t \in Scalps!Signals(n, e)
  BY DEF Scalps!Approvals
<1>9. Scalps!Signals(n, e) = Scalps!Mirrored(Scalps!Signals(m, c))
  <2>1. ASSUME NEW t \in Scalps!Signals(n, e)
        PROVE  t \in Scalps!Mirrored(Scalps!Signals(m, c))
    <3>1. Scalps!MirrorOf(t) \in Scalps!Signals(m, c) /\ t = Scalps!MirrorOf(Scalps!MirrorOf(t))
      BY <1>5
    <3> QED
      BY <1>1, <3>1, Zenon
  <2>2. ASSUME NEW t \in Scalps!Mirrored(Scalps!Signals(m, c))
        PROVE  t \in Scalps!Signals(n, e)
    <3>1. PICK s \in Scalps!Signals(m, c) : t = Scalps!MirrorOf(s)
      BY <1>1, <2>2
    <3> QED
      BY <1>4, <3>1
  <2> QED
    BY <2>1, <2>2
<1>10. Scalps!Approvals(n, e) = Scalps!Mirrored(Scalps!Approvals(m, c))
  <2>1. ASSUME NEW t \in Scalps!Approvals(n, e)
        PROVE  t \in Scalps!Mirrored(Scalps!Approvals(m, c))
    <3>1. Scalps!MirrorOf(t) \in Scalps!Approvals(m, c) /\ t = Scalps!MirrorOf(Scalps!MirrorOf(t))
      BY <1>5, <1>7, <1>8
    <3> QED
      BY <1>1, <3>1, Zenon
  <2>2. ASSUME NEW t \in Scalps!Mirrored(Scalps!Approvals(m, c))
        PROVE  t \in Scalps!Approvals(n, e)
    <3>1. PICK s \in Scalps!Approvals(m, c) : t = Scalps!MirrorOf(s)
      BY <1>1, <2>2
    <3> QED
      BY <1>6, <3>1
  <2> QED
    BY <2>1, <2>2
<1> QED
  BY <1>9, <1>10, Zenon DEF e

\* A market is made of features that a scan can read.
MirrorInv == ScalpInv /\ market \subseteq Scalps!Sights

\* What appears may do so, and the position that a scan adds has a stop near its entry.
LEMMA MirrorStep ==
    ASSUME MirrorInv, [Scalps!ScalpNext]_scalpVars
    PROVE  MirrorInv'
<1>1. ScalpInv'
  BY ScalpStep DEF MirrorInv
<1>2. ScalpSights \subseteq Scalps!Sights /\ ScalpSettings \subseteq Scalps!Settings
  BY ScalpAssumption
<1>3. market \subseteq Scalps!Sights /\ IsFiniteSet(market) /\ conditions \in Scalps!Settings
  BY <1>2 DEF MirrorInv, ScalpInv
<1>4. CASE Scalps!Scan
  <2>1. PICK s \in Scalps!Executable(market, conditions) :
          market' = market \cup {[kind |-> "position", owner |-> "scalp", dir |-> s.dir, stop |-> s.stop]}
    BY <1>4 DEF Scalps!Scan
  <2>2. s \in Scalps!Signals(market, conditions)
    BY <2>1 DEF Scalps!Executable, Scalps!Approvals
  <2>3. Twins(market, Scalps!Mirrored(market))
    BY <1>3, MirroredTwins
  <2>4. Turned(s, Scalps!MirrorOf(s))
    BY <1>3, <2>2, <2>3, SignalsTurn
  <2>5. s.dir \in Scalps!Directions /\ s.stop \in Scalps!Stops
    BY <2>4 DEF Turned, Scalps!Stops
  <2>6. [kind |-> "position", owner |-> "scalp", dir |-> s.dir, stop |-> s.stop] \in Scalps!PositionSights
    BY <2>5 DEF Scalps!PositionSights
  <2> QED
    BY <1>1, <1>3, <2>1, <2>6 DEF MirrorInv, Scalps!Sights
<1>5. CASE Scalps!Appears
  BY <1>1, <1>2, <1>3, <1>5 DEF MirrorInv, Scalps!Appears
<1>6. CASE Scalps!Vanishes
  BY <1>1, <1>3, <1>6 DEF MirrorInv, Scalps!Vanishes
<1>7. CASE UNCHANGED scalpVars
  BY <1>1, <1>3, <1>7 DEF MirrorInv, scalpVars
<1> QED
  BY <1>4, <1>5, <1>6, <1>7 DEF Scalps!ScalpNext

\* The scalp engine favours no side: turn the market and the conditions upside down, and
\* the signals and the approvals are the same upside down.  All that is written once for a
\* long and once for a short agrees: the entries and the stops of the five models, the
\* walls ahead, the target, the confluence, the regime, the score and the budgets, for any
\* market of features and any thresholds.
THEOREM ScalpsAreMirrored == DeskSpec => []ScalpMirror
<1>1. DeskInit => MirrorInv
  BY ScalpStart DEF DeskInit, MirrorInv, Scalps!MarketInit
<1>2. MirrorInv /\ [DeskNext]_deskVars => MirrorInv'
  BY PartsMove, MirrorStep
<1>3. MirrorInv => ScalpMirror
  <2> SUFFICES ASSUME MirrorInv PROVE ScalpMirror
    OBVIOUS
  <2>1. Twins(market, Scalps!Mirrored(market))
    BY MirroredTwins DEF MirrorInv, ScalpInv
  <2>2. conditions \in Scalps!Settings
    BY ScalpAssumption DEF MirrorInv, ScalpInv
  <2>3. /\ Scalps!Signals(Scalps!Mirrored(market), Scalps!MirrorConditions(conditions))
             = Scalps!Mirrored(Scalps!Signals(market, conditions))
        /\ Scalps!Approvals(Scalps!Mirrored(market), Scalps!MirrorConditions(conditions))
             = Scalps!Mirrored(Scalps!Approvals(market, conditions))
    BY <2>1, <2>2, TwinsAgree
  <2> QED
    BY <2>3, Zenon DEF ScalpMirror, Scalps!ScalpMirror
<1> QED
  BY <1>1, <1>2, <1>3, PTL DEF DeskSpec

-----------------------------------------------------------------------------
(* The plans: features and their images.                                   *)

\* A feature that a strategy can read.
Sound(f) ==
    /\ f.kind \in {"sweep", "mss", "bos", "choch", "gap", "block"} => f.dir \in Plans!Directions
    /\ f.kind = "bias" => f.dir \in Plans!Directions \cup {"none"}
    /\ f.kind = "sweep" => /\ f.pool \in Plans!Prices /\ f.pen \in Plans!Depths
                           /\ f.quality \in Int /\ f.age \in Int
    /\ f.kind \in {"mss", "bos", "choch"} => f.age \in Int
    /\ f.kind \in {"gap", "block"} => /\ f.top \in Plans!Edges /\ f.bottom \in Plans!Edges
                                      /\ f.size \in Int
    /\ f.kind \in {"level", "pool"} => f.price \in Plans!Prices
    /\ f.kind \in {"range", "asia"} => f.high \in Plans!Prices /\ f.low \in Plans!Prices

\* The one feature is the other upside down.
Reversed(f, g) ==
    /\ g.kind = f.kind
    /\ f.kind \in {"sweep", "mss", "bos", "choch", "gap", "block", "bias"} => g.dir = Plans!Opposite(f.dir)
    /\ f.kind \in {"sweep", "mss", "bos", "choch", "gap"} => g.age = f.age
    /\ f.kind = "sweep" => /\ g.pool = 0 - f.pool /\ g.pen = f.pen /\ g.quality = f.quality
                           /\ g.after = f.after /\ (g.period <=> f.period) /\ (g.closed <=> f.closed)
    /\ f.kind \in {"gap", "block"} => /\ g.top = 0 - f.bottom /\ g.bottom = 0 - f.top
                                      /\ g.size = f.size /\ (g.tradable <=> f.tradable)
    /\ f.kind = "block" => (g.caused <=> f.caused) /\ (g.breaker <=> f.breaker)
    /\ f.kind \in {"level", "pool"} => g.price = 0 - f.price
    /\ f.kind = "level" => g.weight = f.weight
    /\ f.kind = "pool" => (g.resting <=> f.resting)
    /\ f.kind \in {"range", "asia"} => g.high = 0 - f.low /\ g.low = 0 - f.high
    /\ f.kind = "bias" => g.tf = f.tf

\* The two sides of a plan.
LEMMA Sides ==
    /\ Plans!Opposite("LONG") = "SHORT" /\ Plans!Opposite("SHORT") = "LONG"
    /\ Plans!Opposite("none") = "none"
    /\ \A d \in Plans!Directions :
         /\ Plans!Opposite(d) \in Plans!Directions /\ Plans!Opposite(Plans!Opposite(d)) = d
         /\ Plans!Opposite(d) # d
         /\ \/ d = "LONG" /\ Plans!Opposite(d) = "SHORT"
            \/ d = "SHORT" /\ Plans!Opposite(d) = "LONG"
BY DEF Plans!Opposite, Plans!Directions

\* A price of a plan is turned over, and none of them stands for none.
LEMMA Reversals ==
    /\ \A p \in Plans!Nearby : p \in Int /\ 0 - p \in Plans!Nearby /\ Plans!Negated(p) = 0 - p /\ 0 - (0 - p) = p
    /\ \A p \in Plans!Prices : p \in Plans!Nearby /\ 0 - p \in Plans!Prices
    /\ \A p \in Plans!Edges : p \in Plans!Prices /\ 0 - p \in Plans!Edges
    /\ \A p \in Plans!Prices, x \in Int : x - p <= 450 /\ p - x <= 450 => x \in Plans!Nearby
    /\ 0 \in Plans!Prices
<1>1. Plans!NoPrice \in Int /\ Plans!Naked \in Int /\ Plans!NoPrice > 9500 /\ Plans!Naked > Plans!NoPrice
  <2>1. Plans!NoPrice \in Int /\ Plans!NoPrice > 9500
    BY DEF Plans!NoPrice
  <2>2. Plans!Naked \in Int /\ Plans!Naked > 10000
    BY DEF Plans!Naked
  <2> QED
    BY <2>1, <2>2 DEF Plans!NoPrice
<1> DEFINE bound == 9500
           most == 9000
           half == 4500
<1>2. /\ bound \in Int /\ bound < Plans!NoPrice /\ most \in Int /\ most + 450 <= bound /\ 0 <= most
      /\ half \in Int /\ half + half = most
  BY <1>1
<1>3. /\ Plans!Nearby = (0 - bound)..bound
      /\ Plans!Prices = (0 - most)..most
      /\ Plans!Edges = {2 * k : k \in (0 - half)..half}
  BY DEF Plans!Nearby, Plans!Prices, Plans!Edges
<1> HIDE DEF bound, most, half
<1>4. ASSUME NEW p \in Plans!Nearby
      PROVE  p \in Int /\ 0 - p \in Plans!Nearby /\ Plans!Negated(p) = 0 - p /\ 0 - (0 - p) = p
  <2>1. p \in Int /\ 0 - bound <= p /\ p <= bound
    BY <1>2, <1>3
  <2>2. p # Plans!NoPrice /\ p # Plans!Naked
    BY <1>1, <1>2, <2>1
  <2>3. Plans!Negated(p) = 0 - p
    BY <2>2, Zenon DEF Plans!Negated
  <2> QED
    BY <1>2, <1>3, <2>1, <2>3
<1>5. \A p \in Plans!Prices : p \in Plans!Nearby /\ 0 - p \in Plans!Prices
  BY <1>2, <1>3
<1>6. ASSUME NEW p \in Plans!Edges
      PROVE  p \in Plans!Prices /\ 0 - p \in Plans!Edges
  <2>1. PICK k \in (0 - half)..half : p = 2 * k
    BY <1>3
  <2>2. 0 - k \in (0 - half)..half /\ 0 - p = 2 * (0 - k) /\ p \in (0 - most)..most
    BY <1>2, <2>1
  <2> QED
    BY <1>3, <2>2
<1>7. \A p \in Plans!Prices, x \in Int : x - p <= 450 /\ p - x <= 450 => x \in Plans!Nearby
  BY <1>2, <1>3
<1>8. 0 \in Plans!Prices
  BY <1>2, <1>3
<1> QED
  BY <1>4, <1>5, <1>6, <1>7, <1>8

\* A sweep is turned over, and can be read.
LEMMA SweepReverses == \A f \in Plans!SweepSights : Reversed(f, Plans!MirrorOf(f)) /\ Sound(f)
<1> SUFFICES ASSUME NEW f \in Plans!SweepSights PROVE Reversed(f, Plans!MirrorOf(f)) /\ Sound(f)
  OBVIOUS
<1> DEFINE g == Plans!MirrorOf(f)
<1>1. DOMAIN f = {"kind", "dir", "pool", "pen", "quality", "after", "age", "period", "closed"} /\ f.kind \in {"sweep"}
  BY DEF Plans!SweepSights
<1>2. /\ g.kind = f.kind /\ g.pen = f.pen /\ g.quality = f.quality /\ g.after = f.after
      /\ g.age = f.age /\ g.period = f.period /\ g.closed = f.closed
      /\ g.dir = Plans!Opposite(f.dir) /\ g.pool = Plans!Negated(f.pool)
  BY <1>1 DEF Plans!MirrorOf
<1>3. Sound(f)
  BY <1>1 DEF Sound, Plans!SweepSights
<1>4. g.pool = 0 - f.pool
  BY <1>1, <1>2, <1>3, Reversals DEF Sound
<1> HIDE DEF g
<1>5. Reversed(f, g)
  BY <1>1, <1>2, <1>4 DEF Reversed
<1> QED
  BY <1>3, <1>5 DEF g

\* An event of the structure is turned over, and can be read.
LEMMA EventReverses == \A f \in Plans!EventSights : Reversed(f, Plans!MirrorOf(f)) /\ Sound(f)
<1> SUFFICES ASSUME NEW f \in Plans!EventSights PROVE Reversed(f, Plans!MirrorOf(f)) /\ Sound(f)
  OBVIOUS
<1> DEFINE g == Plans!MirrorOf(f)
<1>1. DOMAIN f = {"kind", "dir", "age"} /\ f.kind \in {"mss", "bos", "choch"}
  BY DEF Plans!EventSights, Plans!EventKinds
<1>2. /\ g.kind = f.kind /\ g.age = f.age /\ g.dir = Plans!Opposite(f.dir)
  BY <1>1 DEF Plans!MirrorOf
<1>3. Sound(f)
  BY <1>1 DEF Sound, Plans!EventSights, Plans!EventKinds
<1> HIDE DEF g
<1>4. Reversed(f, g)
  BY <1>1, <1>2 DEF Reversed
<1> QED
  BY <1>3, <1>4 DEF g

\* A gap is turned over, and can be read.
LEMMA GapReverses == \A f \in Plans!GapSights : Reversed(f, Plans!MirrorOf(f)) /\ Sound(f)
<1> SUFFICES ASSUME NEW f \in Plans!GapSights PROVE Reversed(f, Plans!MirrorOf(f)) /\ Sound(f)
  OBVIOUS
<1> DEFINE g == Plans!MirrorOf(f)
<1>1. DOMAIN f = {"kind", "dir", "top", "bottom", "size", "age", "tradable"} /\ f.kind \in {"gap"}
  BY DEF Plans!GapSights
<1>2. /\ g.kind = f.kind /\ g.size = f.size /\ g.age = f.age /\ g.tradable = f.tradable
      /\ g.dir = Plans!Opposite(f.dir) /\ g.top = 0 - f.bottom /\ g.bottom = 0 - f.top
  BY <1>1 DEF Plans!MirrorOf
<1>3. Sound(f)
  BY <1>1 DEF Sound, Plans!GapSights
<1> HIDE DEF g
<1>4. Reversed(f, g)
  BY <1>1, <1>2 DEF Reversed
<1> QED
  BY <1>3, <1>4 DEF g

\* A block is turned over, and can be read.
LEMMA BlockReverses == \A f \in Plans!BlockSights : Reversed(f, Plans!MirrorOf(f)) /\ Sound(f)
<1> SUFFICES ASSUME NEW f \in Plans!BlockSights PROVE Reversed(f, Plans!MirrorOf(f)) /\ Sound(f)
  OBVIOUS
<1> DEFINE g == Plans!MirrorOf(f)
<1>1. DOMAIN f = {"kind", "dir", "top", "bottom", "size", "caused", "breaker", "tradable"} /\ f.kind \in {"block"}
  BY DEF Plans!BlockSights
<1>2. /\ g.kind = f.kind /\ g.size = f.size /\ g.caused = f.caused /\ g.breaker = f.breaker
      /\ g.tradable = f.tradable /\ g.dir = Plans!Opposite(f.dir) /\ g.top = 0 - f.bottom
      /\ g.bottom = 0 - f.top
  BY <1>1 DEF Plans!MirrorOf
<1>3. Sound(f)
  BY <1>1 DEF Sound, Plans!BlockSights
<1> HIDE DEF g
<1>4. Reversed(f, g)
  BY <1>1, <1>2 DEF Reversed
<1> QED
  BY <1>3, <1>4 DEF g

\* A level is turned over, and can be read.
LEMMA LevelReverses == \A f \in Plans!LevelSights : Reversed(f, Plans!MirrorOf(f)) /\ Sound(f)
<1> SUFFICES ASSUME NEW f \in Plans!LevelSights PROVE Reversed(f, Plans!MirrorOf(f)) /\ Sound(f)
  OBVIOUS
<1> DEFINE g == Plans!MirrorOf(f)
<1>1. DOMAIN f = {"kind", "price", "weight"} /\ f.kind \in {"level"}
  BY DEF Plans!LevelSights
<1>2. /\ g.kind = f.kind /\ g.weight = f.weight /\ g.price = Plans!Negated(f.price)
  BY <1>1 DEF Plans!MirrorOf
<1>3. Sound(f)
  BY <1>1 DEF Sound, Plans!LevelSights
<1>4. g.price = 0 - f.price
  BY <1>1, <1>2, <1>3, Reversals DEF Sound
<1> HIDE DEF g
<1>5. Reversed(f, g)
  BY <1>1, <1>2, <1>4 DEF Reversed
<1> QED
  BY <1>3, <1>5 DEF g

\* A pool is turned over, and can be read.
LEMMA PoolReverses == \A f \in Plans!PoolSights : Reversed(f, Plans!MirrorOf(f)) /\ Sound(f)
<1> SUFFICES ASSUME NEW f \in Plans!PoolSights PROVE Reversed(f, Plans!MirrorOf(f)) /\ Sound(f)
  OBVIOUS
<1> DEFINE g == Plans!MirrorOf(f)
<1>1. DOMAIN f = {"kind", "price", "resting"} /\ f.kind \in {"pool"}
  BY DEF Plans!PoolSights
<1>2. /\ g.kind = f.kind /\ g.resting = f.resting /\ g.price = Plans!Negated(f.price)
  BY <1>1 DEF Plans!MirrorOf
<1>3. Sound(f)
  BY <1>1 DEF Sound, Plans!PoolSights
<1>4. g.price = 0 - f.price
  BY <1>1, <1>2, <1>3, Reversals DEF Sound
<1> HIDE DEF g
<1>5. Reversed(f, g)
  BY <1>1, <1>2, <1>4 DEF Reversed
<1> QED
  BY <1>3, <1>5 DEF g

\* A range is turned over, and can be read.
LEMMA RangeReverses == \A f \in Plans!RangeSights : Reversed(f, Plans!MirrorOf(f)) /\ Sound(f)
<1> SUFFICES ASSUME NEW f \in Plans!RangeSights PROVE Reversed(f, Plans!MirrorOf(f)) /\ Sound(f)
  OBVIOUS
<1> DEFINE g == Plans!MirrorOf(f)
<1>1. DOMAIN f = {"kind", "high", "low"} /\ f.kind \in {"range", "asia"}
  BY DEF Plans!RangeSights
<1>2. /\ g.kind = f.kind /\ g.high = 0 - f.low /\ g.low = 0 - f.high
  BY <1>1 DEF Plans!MirrorOf
<1>3. Sound(f)
  BY <1>1 DEF Sound, Plans!RangeSights
<1> HIDE DEF g
<1>4. Reversed(f, g)
  BY <1>1, <1>2 DEF Reversed
<1> QED
  BY <1>3, <1>4 DEF g

\* A bias is turned over, and can be read.
LEMMA BiasReverses == \A f \in Plans!BiasSights : Reversed(f, Plans!MirrorOf(f)) /\ Sound(f)
<1> SUFFICES ASSUME NEW f \in Plans!BiasSights PROVE Reversed(f, Plans!MirrorOf(f)) /\ Sound(f)
  OBVIOUS
<1> DEFINE g == Plans!MirrorOf(f)
<1>1. DOMAIN f = {"kind", "tf", "dir"} /\ f.kind \in {"bias"}
  BY DEF Plans!BiasSights
<1>2. /\ g.kind = f.kind /\ g.tf = f.tf /\ g.dir = Plans!Opposite(f.dir)
  BY <1>1 DEF Plans!MirrorOf
<1>3. Sound(f)
  BY <1>1 DEF Sound, Plans!BiasSights
<1> HIDE DEF g
<1>4. Reversed(f, g)
  BY <1>1, <1>2 DEF Reversed
<1> QED
  BY <1>3, <1>4 DEF g

\* Every feature is turned over, and can be read.
LEMMA FeatureReverses == \A f \in Plans!Sights : Reversed(f, Plans!MirrorOf(f)) /\ Sound(f)
BY SweepReverses, EventReverses, GapReverses, BlockReverses, LevelReverses, PoolReverses, RangeReverses,
   BiasReverses
   DEF Plans!Sights

\* What is turned over turns back.
LEMMA ReversedBack ==
    ASSUME NEW f, NEW g, Sound(f), Reversed(f, g)
    PROVE  Sound(g) /\ Reversed(g, f)
<1>1. g.kind = f.kind
  BY DEF Reversed
<1>2. CASE f.kind = "sweep"
  BY <1>1, <1>2, Sides, Reversals DEF Sound, Reversed
<1>3. CASE f.kind \in {"mss", "bos", "choch"}
  BY <1>1, <1>3, Sides, Reversals DEF Sound, Reversed
<1>4. CASE f.kind = "gap"
  BY <1>1, <1>4, Sides, Reversals DEF Sound, Reversed
<1>5. CASE f.kind = "block"
  BY <1>1, <1>5, Sides, Reversals DEF Sound, Reversed
<1>6. CASE f.kind = "level"
  BY <1>1, <1>6, Sides, Reversals DEF Sound, Reversed
<1>7. CASE f.kind = "pool"
  BY <1>1, <1>7, Sides, Reversals DEF Sound, Reversed
<1>8. CASE f.kind \in {"range", "asia"}
  BY <1>1, <1>8, Sides, Reversals DEF Sound, Reversed
<1>9. CASE f.kind = "bias"
  BY <1>1, <1>9, Sides, Reversals DEF Sound, Reversed
<1>10. CASE f.kind \notin {"sweep", "mss", "bos", "choch", "gap", "block", "level", "pool", "range", "asia", "bias"}
  BY <1>1, <1>10 DEF Sound, Reversed
<1> QED
  BY <1>2, <1>3, <1>4, <1>5, <1>6, <1>7, <1>8, <1>9, <1>10

\* The one market of a strategy is the other upside down.
Mates(m, n) ==
    /\ \A f \in m : Sound(f)
    /\ \A f \in m : \E g \in n : Reversed(f, g)
    /\ \A g \in n : \E f \in m : Reversed(f, g)

\* The mate of a mate.
LEMMA MatesBack ==
    ASSUME NEW m, NEW n, Mates(m, n)
    PROVE  Mates(n, m)
<1>1. \A g \in n : \E f \in m : Reversed(f, g) /\ Sound(g) /\ Reversed(g, f)
  BY ReversedBack, Zenon DEF Mates
<1>2. \A f \in m : \E g \in n : Reversed(g, f)
  BY ReversedBack, Zenon DEF Mates
<1> QED
  BY <1>1, <1>2, Zenon DEF Mates

\* The market upside down is a mate.
LEMMA MirroredMates ==
    ASSUME NEW m \in SUBSET Plans!Sights
    PROVE  Mates(m, Plans!Mirrored(m))
<1>1. \A f \in m : Sound(f) /\ Reversed(f, Plans!MirrorOf(f))
  BY FeatureReverses
<1>2. \A g : g \in Plans!Mirrored(m) <=> \E f \in m : g = Plans!MirrorOf(f)
  BY DEF Plans!Mirrored
<1> QED
  BY <1>1, <1>2, Zenon DEF Mates

\* Of every kind the features of mates are pairs.
LEMMA KindPairs ==
    ASSUME NEW m, NEW n, Mates(m, n), NEW k
    PROVE  /\ \A f \in Plans!Kind(m, k) : Sound(f) /\ f.kind = k /\ \E g \in Plans!Kind(n, k) : Reversed(f, g)
           /\ \A g \in Plans!Kind(n, k) : \E f \in Plans!Kind(m, k) : Reversed(f, g)
<1>1. \A f, g : Reversed(f, g) => g.kind = f.kind
  BY Zenon DEF Reversed
<1>2. \A r, f : f \in Plans!Kind(r, k) <=> f \in r /\ f.kind = k
  BY DEF Plans!Kind
<1> QED
  BY <1>1, <1>2, Zenon DEF Mates

\* What faces a direction, and the same kinds of the other market of a strategy.
LEMMA SidePairs ==
    ASSUME NEW m, NEW n, Mates(m, n), NEW d \in Plans!Directions, NEW k \in {"sweep", "gap", "block"}
    PROVE  /\ \A f \in Plans!Facing(m, k, d) :
                Sound(f) /\ f.kind = k /\ \E g \in Plans!Facing(n, k, Plans!Opposite(d)) : Reversed(f, g)
           /\ \A g \in Plans!Facing(n, k, Plans!Opposite(d)) :
                \E f \in Plans!Facing(m, k, d) : Reversed(f, g)
<1>1. \A r, e, f : f \in Plans!Facing(r, k, e) <=> f \in Plans!Kind(r, k) /\ f.dir = e
  BY DEF Plans!Facing
<1>2. ASSUME NEW f \in Plans!Facing(m, k, d)
      PROVE  Sound(f) /\ f.kind = k /\ \E g \in Plans!Facing(n, k, Plans!Opposite(d)) : Reversed(f, g)
  <2>1. Sound(f) /\ f.kind = k /\ \E g \in Plans!Kind(n, k) : Reversed(f, g)
    <3>1. f \in Plans!Kind(m, k)
      BY <1>1, <1>2
    <3> QED
      BY <3>1, KindPairs
  <2>2. PICK g \in Plans!Kind(n, k) : Reversed(f, g)
    BY <2>1
  <2>3. g.dir = Plans!Opposite(d)
    BY <1>1, <1>2, <2>1, <2>2 DEF Reversed
  <2> QED
    BY <1>1, <2>1, <2>2, <2>3
<1>3. ASSUME NEW g \in Plans!Facing(n, k, Plans!Opposite(d))
      PROVE  \E f \in Plans!Facing(m, k, d) : Reversed(f, g)
  <2>1. \E f \in Plans!Kind(m, k) : Reversed(f, g)
    <3>1. g \in Plans!Kind(n, k)
      BY <1>1, <1>3
    <3> QED
      BY <3>1, KindPairs
  <2>2. PICK f \in Plans!Kind(m, k) : Reversed(f, g)
    BY <2>1
  <2>3. Sound(f) /\ f.kind = k
    BY KindPairs, Zenon
  <2>4. g.dir = Plans!Opposite(f.dir) /\ g.dir = Plans!Opposite(d)
    BY <1>1, <1>3, <2>2, <2>3 DEF Reversed
  <2>5. f.dir \in Plans!Directions
    BY <2>3 DEF Sound
  <2>6. f.dir = d
    BY <2>4, <2>5 DEF Plans!Opposite, Plans!Directions
  <2> QED
    BY <1>1, <2>2, <2>6
<1> QED
  BY <1>2, <1>3

-----------------------------------------------------------------------------
(* The targets and the stop, in a market and in its mate.                  *)

\* Distances are the same upside down.
LEMMA AwayAlike ==
    ASSUME NEW p \in Int, NEW b \in Int
    PROVE  Plans!Away(0 - p, 0 - b) = Plans!Away(p, b) /\ Plans!Away(p, b) \in Nat
<1>1. /\ Plans!Away(p, b) = IF p - b < 0 THEN 0 - (p - b) ELSE p - b
      /\ Plans!Away(0 - p, 0 - b) = IF (0 - p) - (0 - b) < 0 THEN 0 - ((0 - p) - (0 - b)) ELSE (0 - p) - (0 - b)
  BY DEF Plans!Away, Plans!AbsOf
<1> QED
  BY <1>1

\* And so is what lies ahead.
LEMMA AheadAlike ==
    ASSUME NEW p \in Int, NEW b \in Int, NEW d \in Plans!Directions
    PROVE  Plans!Ahead(Plans!Opposite(d), 0 - b, 0 - p) <=> Plans!Ahead(d, b, p)
BY Sides DEF Plans!Ahead

\* A target in the one is a target in the other.
LEMMA ViableTurns ==
    ASSUME NEW m, NEW n, Mates(m, n), NEW d \in Plans!Directions, NEW b \in Int, NEW stop \in Int,
           NEW p \in Plans!Viable(m, d, b, stop)
    PROVE  p \in Plans!Prices /\ 0 - p \in Plans!Viable(n, Plans!Opposite(d), 0 - b, 0 - stop)
<1> DEFINE o == Plans!Opposite(d)
<1>1. \A r, e, x, y, z : z \in Plans!Viable(r, e, x, y) <=>
         /\ z \in Plans!Candidates(r) /\ Plans!Ahead(e, x, z)
         /\ Plans!Away(z, x) >= 2 * Plans!Away(y, x) /\ ~Plans!Blocked(r, e, x, z)
  BY DEF Plans!Viable
<1>2. \A r, z : z \in Plans!Candidates(r) <=>
         \/ \E g \in Plans!Kind(r, "pool") : g.resting /\ z = g.price
         \/ \E g \in Plans!Kind(r, "level") : g.weight >= 25 /\ z = g.price
  BY DEF Plans!Candidates
<1>3. \A r, e, x, z : Plans!Blocked(r, e, x, z) <=>
         \E l \in Plans!Kind(r, "level") :
           l.weight >= 45 /\ Plans!Ahead(e, x, l.price) /\ Plans!Away(l.price, x) < Plans!Away(z, x)
  BY DEF Plans!Blocked
<1>4. p \in Plans!Prices /\ 0 - p \in Plans!Candidates(n)
  <2>1. CASE \E f \in Plans!Kind(m, "pool") : f.resting /\ p = f.price
    <3>1. PICK f \in Plans!Kind(m, "pool") : f.resting /\ p = f.price
      BY <2>1
    <3>2. PICK g \in Plans!Kind(n, "pool") : Reversed(f, g)
      BY KindPairs
    <3>3. Sound(f) /\ f.kind = "pool"
      BY KindPairs
    <3>4. g.resting /\ g.price = 0 - p /\ p \in Plans!Prices
      BY <3>1, <3>2, <3>3 DEF Sound, Reversed
    <3> QED
      BY <1>2, <3>4
  <2>2. CASE \E f \in Plans!Kind(m, "level") : f.weight >= 25 /\ p = f.price
    <3>1. PICK f \in Plans!Kind(m, "level") : f.weight >= 25 /\ p = f.price
      BY <2>2
    <3>2. PICK g \in Plans!Kind(n, "level") : Reversed(f, g)
      BY KindPairs
    <3>3. Sound(f) /\ f.kind = "level"
      BY KindPairs
    <3>4. g.weight >= 25 /\ g.price = 0 - p /\ p \in Plans!Prices
      BY <3>1, <3>2, <3>3 DEF Sound, Reversed
    <3> QED
      BY <1>2, <3>4
  <2> QED
    BY <1>1, <1>2, <2>1, <2>2
<1>5. p \in Int
  BY <1>4, Reversals
<1>6. ~Plans!Blocked(n, o, 0 - b, 0 - p)
  <2> SUFFICES ASSUME NEW g \in Plans!Kind(n, "level"), g.weight >= 45, Plans!Ahead(o, 0 - b, g.price),
                      Plans!Away(g.price, 0 - b) < Plans!Away(0 - p, 0 - b)
               PROVE  FALSE
    BY <1>3
  <2>1. PICK f \in Plans!Kind(m, "level") : Reversed(f, g)
    BY KindPairs
  <2>2. Sound(f) /\ f.kind = "level"
    BY KindPairs
  <2>3. g.weight = f.weight /\ g.price = 0 - f.price /\ f.price \in Int
    BY <2>1, <2>2, Reversals DEF Sound, Reversed
  <2>4. Plans!Ahead(d, b, f.price)
    BY <2>3, AheadAlike
  <2>5. Plans!Away(f.price, b) < Plans!Away(p, b)
    BY <1>5, <2>3, AwayAlike
  <2> QED
    BY <1>1, <1>3, <2>3, <2>4, <2>5
<1>7. Plans!Ahead(o, 0 - b, 0 - p)
  BY <1>1, <1>5, AheadAlike
<1>8. Plans!Away(0 - p, 0 - b) >= 2 * Plans!Away(0 - stop, 0 - b)
  BY <1>1, <1>5, AwayAlike
<1> QED
  BY <1>1, <1>4, <1>6, <1>7, <1>8

\* Of prices and those upside down the nearest and the furthest are the same.
LEMMA ExtremesTurn ==
    ASSUME NEW A, NEW B, NEW b \in Int, \A x \in A : x \in Int /\ 0 - x \in B,
           \A y \in B : y \in Int /\ 0 - y \in A
    PROVE  /\ \A x \in Plans!Nearest(A, b) : x \in A /\ 0 - x \in Plans!Nearest(B, 0 - b)
           /\ \A x \in Plans!Furthest(A, b) : x \in A /\ 0 - x \in Plans!Furthest(B, 0 - b)
<1>1. \A S, e, x : x \in Plans!Nearest(S, e) <=> x \in S /\ \A q \in S : Plans!Away(x, e) <= Plans!Away(q, e)
  BY DEF Plans!Nearest
<1>2. \A S, e, x : x \in Plans!Furthest(S, e) <=> x \in S /\ \A q \in S : Plans!Away(x, e) >= Plans!Away(q, e)
  BY DEF Plans!Furthest
<1>3. \A x \in A : Plans!Away(0 - x, 0 - b) = Plans!Away(x, b)
  BY AwayAlike
<1>4. \A y \in B : 0 - y \in A /\ Plans!Away(y, 0 - b) = Plans!Away(0 - y, b)
  <2> SUFFICES ASSUME NEW y \in B PROVE 0 - y \in A /\ Plans!Away(y, 0 - b) = Plans!Away(0 - y, b)
    OBVIOUS
  <2>1. 0 - y \in A /\ 0 - y \in Int /\ 0 - (0 - y) = y
    OBVIOUS
  <2> QED
    BY <1>3, <2>1
<1>5. ASSUME NEW x \in Plans!Nearest(A, b)
      PROVE  x \in A /\ 0 - x \in Plans!Nearest(B, 0 - b)
  <2>1. x \in A /\ 0 - x \in B /\ Plans!Away(0 - x, 0 - b) = Plans!Away(x, b)
    BY <1>1, <1>3
  <2>2. \A y \in B : Plans!Away(0 - x, 0 - b) <= Plans!Away(y, 0 - b)
    BY <1>1, <1>4, <2>1
  <2> QED
    BY <1>1, <2>1, <2>2
<1>6. ASSUME NEW x \in Plans!Furthest(A, b)
      PROVE  x \in A /\ 0 - x \in Plans!Furthest(B, 0 - b)
  <2>1. x \in A /\ 0 - x \in B /\ Plans!Away(0 - x, 0 - b) = Plans!Away(x, b)
    BY <1>2, <1>3
  <2>2. \A y \in B : Plans!Away(0 - x, 0 - b) >= Plans!Away(y, 0 - b)
    BY <1>2, <1>4, <2>1
  <2> QED
    BY <1>2, <2>1, <2>2
<1> QED
  BY <1>5, <1>6

\* The targets of the one, those at three risks and those chosen.
Preferred(m, d, b, stop) == {p \in Plans!Viable(m, d, b, stop) : Plans!Away(p, b) >= 3 * Plans!Away(stop, b)}
Chosen(m, d, b, stop) ==
    IF Preferred(m, d, b, stop) # {} THEN Plans!Nearest(Preferred(m, d, b, stop), b)
    ELSE Plans!Furthest(Plans!Viable(m, d, b, stop), b)

\* The first target is the nearest, the last is chosen.
LEMMA TargetsAre ==
    ASSUME NEW m, NEW d, NEW b, NEW stop, NEW t
    PROVE  t \in Plans!Targets(m, d, b, stop) <=>
             \E x \in Plans!Nearest(Plans!Viable(m, d, b, stop), b) : \E y \in Chosen(m, d, b, stop) :
               t = [first |-> x, target |-> y]
BY DEF Plans!Targets, Chosen, Preferred

\* What is chosen in the one is chosen in the other.
LEMMA ChosenTurns ==
    ASSUME NEW m, NEW n, Mates(m, n), NEW d \in Plans!Directions, NEW b \in Int, NEW stop \in Int
    PROVE  LET o == Plans!Opposite(d)
           IN /\ \A x \in Plans!Nearest(Plans!Viable(m, d, b, stop), b) :
                   x \in Plans!Prices /\ 0 - x \in Plans!Nearest(Plans!Viable(n, o, 0 - b, 0 - stop), 0 - b)
              /\ \A y \in Chosen(m, d, b, stop) : y \in Plans!Prices /\ 0 - y \in Chosen(n, o, 0 - b, 0 - stop)
<1> DEFINE o == Plans!Opposite(d)
           V == Plans!Viable(m, d, b, stop)
           W == Plans!Viable(n, o, 0 - b, 0 - stop)
           P == Preferred(m, d, b, stop)
           Q == Preferred(n, o, 0 - b, 0 - stop)
<1>1. Mates(n, m) /\ o \in Plans!Directions /\ Plans!Opposite(o) = d /\ 0 - (0 - b) = b /\ 0 - (0 - stop) = stop
  BY MatesBack, Sides
<1>2. \A x \in V : x \in Plans!Prices /\ 0 - x \in W
  BY ViableTurns
<1>3. \A y \in W : y \in Plans!Prices /\ 0 - y \in V
  <2>1. \A y \in W : y \in Plans!Prices
                     /\ 0 - y \in Plans!Viable(m, Plans!Opposite(o), 0 - (0 - b), 0 - (0 - stop))
    <3> HIDE DEF o
    <3> QED
      BY <1>1, ViableTurns
  <2> QED
    BY <1>1, <2>1, Zenon
<1>4. \A x \in Plans!Prices : x \in Int
  BY Reversals
<1>5. P = {p \in V : Plans!Away(p, b) >= 3 * Plans!Away(stop, b)}
      /\ Q = {p \in W : Plans!Away(p, 0 - b) >= 3 * Plans!Away(0 - stop, 0 - b)}
  BY DEF Preferred
<1>6. /\ Chosen(m, d, b, stop) = IF P # {} THEN Plans!Nearest(P, b) ELSE Plans!Furthest(V, b)
      /\ Chosen(n, o, 0 - b, 0 - stop) = IF Q # {} THEN Plans!Nearest(Q, 0 - b) ELSE Plans!Furthest(W, 0 - b)
  BY DEF Chosen
<1> HIDE DEF o, V, W, P, Q
<1>7. Plans!Away(0 - stop, 0 - b) = Plans!Away(stop, b)
  BY AwayAlike
<1>8. \A x \in P : x \in V /\ x \in Int /\ 0 - x \in Q
  <2> SUFFICES ASSUME NEW x \in P PROVE x \in V /\ x \in Int /\ 0 - x \in Q
    OBVIOUS
  <2>1. x \in V /\ x \in Int /\ 0 - x \in W /\ Plans!Away(0 - x, 0 - b) = Plans!Away(x, b)
    BY <1>2, <1>4, <1>5, AwayAlike
  <2> QED
    BY <1>5, <1>7, <2>1
<1>9. \A y \in Q : y \in Int /\ 0 - y \in P
  <2> SUFFICES ASSUME NEW y \in Q PROVE y \in Int /\ 0 - y \in P
    OBVIOUS
  <2>1. y \in Int /\ 0 - y \in V /\ 0 - y \in Int /\ 0 - (0 - y) = y
    BY <1>3, <1>4, <1>5
  <2>2. Plans!Away(0 - (0 - y), 0 - b) = Plans!Away(0 - y, b)
    BY <2>1, AwayAlike
  <2> QED
    BY <1>5, <1>7, <2>1, <2>2
<1>10. /\ \A x \in Plans!Nearest(V, b) : x \in V /\ 0 - x \in Plans!Nearest(W, 0 - b)
       /\ \A x \in Plans!Furthest(V, b) : x \in V /\ 0 - x \in Plans!Furthest(W, 0 - b)
  BY <1>2, <1>3, <1>4, ExtremesTurn
<1>11. \A x \in Plans!Nearest(P, b) : x \in P /\ 0 - x \in Plans!Nearest(Q, 0 - b)
  BY <1>8, <1>9, ExtremesTurn
<1>12. P = {} <=> Q = {}
  BY <1>8, <1>9
<1>13. \A x \in Plans!Nearest(V, b) : x \in Plans!Prices /\ 0 - x \in Plans!Nearest(W, 0 - b)
  BY <1>2, <1>10
<1>14. \A y \in Chosen(m, d, b, stop) : y \in Plans!Prices /\ 0 - y \in Chosen(n, o, 0 - b, 0 - stop)
  BY <1>2, <1>6, <1>8, <1>10, <1>11, <1>12
<1> QED
  BY <1>13, <1>14 DEF V, W, o

\* The one plan is the other upside down, and turns back.
Turns(p, q) == q = Plans!MirrorOf(p) /\ Plans!MirrorOf(q) = p

\* A plan of the one market is one of the other upside down.
LEMMA PlansTurn ==
    ASSUME NEW m, NEW n, Mates(m, n), NEW name, NEW d \in Plans!Directions, NEW b \in Plans!Prices,
           NEW stop \in Plans!Nearby, NEW p \in Plans!Plans(m, name, d, b, stop)
    PROVE  \E q \in Plans!Plans(n, name, Plans!Opposite(d), 0 - b, 0 - stop) : Turns(p, q)
<1> DEFINE o == Plans!Opposite(d)
           made(e, x, y, z, w) == [strategy |-> name, dir |-> e, entry |-> x, stop |-> y, first |-> z, target |-> w]
<1>1. \A r, e, x, y, q : q \in Plans!Plans(r, name, e, x, y) <=>
         /\ ~(IF e = "LONG" THEN y >= x ELSE y <= x)
         /\ \E t \in Plans!Targets(r, e, x, y) : q = made(e, x, y, t.first, t.target)
  BY DEF Plans!Plans
<1>2. b \in Int /\ stop \in Int /\ b \in Plans!Nearby
  BY Reversals
<1>3. PICK t \in Plans!Targets(m, d, b, stop) : p = made(d, b, stop, t.first, t.target)
  BY <1>1
<1>4. PICK x \in Plans!Nearest(Plans!Viable(m, d, b, stop), b), y \in Chosen(m, d, b, stop) :
        t = [first |-> x, target |-> y]
  BY <1>3, TargetsAre
<1>5. /\ x \in Plans!Prices /\ 0 - x \in Plans!Nearest(Plans!Viable(n, o, 0 - b, 0 - stop), 0 - b)
      /\ y \in Plans!Prices /\ 0 - y \in Chosen(n, o, 0 - b, 0 - stop)
  BY <1>2, <1>4, ChosenTurns
<1>6. [first |-> 0 - x, target |-> 0 - y] \in Plans!Targets(n, o, 0 - b, 0 - stop)
  BY <1>5, TargetsAre
<1>7. p = made(d, b, stop, x, y)
  BY <1>3, <1>4
<1> DEFINE q == made(o, 0 - b, 0 - stop, 0 - x, 0 - y)
<1>8. ~(IF o = "LONG" THEN 0 - stop >= 0 - b ELSE 0 - stop <= 0 - b)
  <2>1. ~(IF d = "LONG" THEN stop >= b ELSE stop <= b)
    BY <1>1
  <2> QED
    BY <1>2, <2>1, Sides
<1>9. q \in Plans!Plans(n, name, o, 0 - b, 0 - stop)
  <2> DEFINE u == [first |-> 0 - x, target |-> 0 - y]
  <2>1. u \in Plans!Targets(n, o, 0 - b, 0 - stop) /\ u.first = 0 - x /\ u.target = 0 - y
    BY <1>6
  <2> HIDE DEF u, o
  <2> QED
    BY <1>1, <1>8, <2>1
<1>10. \A e, v, w, h, k : Plans!MirrorOf(made(e, v, w, h, k)) =
         made(Plans!Opposite(e), Plans!Negated(v), Plans!Negated(w), Plans!Negated(h), Plans!Negated(k))
  BY DEF Plans!MirrorOf
<1>11. /\ Plans!Negated(b) = 0 - b /\ Plans!Negated(0 - b) = b
       /\ Plans!Negated(stop) = 0 - stop /\ Plans!Negated(0 - stop) = stop
       /\ Plans!Negated(x) = 0 - x /\ Plans!Negated(0 - x) = x
       /\ Plans!Negated(y) = 0 - y /\ Plans!Negated(0 - y) = y
  <2>1. \A z \in Plans!Nearby : Plans!Negated(z) = 0 - z /\ Plans!Negated(0 - z) = z
    <3> SUFFICES ASSUME NEW z \in Plans!Nearby PROVE Plans!Negated(z) = 0 - z /\ Plans!Negated(0 - z) = z
      OBVIOUS
    <3>1. Plans!Negated(z) = 0 - z /\ 0 - z \in Plans!Nearby /\ 0 - (0 - z) = z
      BY Reversals
    <3>2. Plans!Negated(0 - z) = 0 - (0 - z)
      BY <3>1, Reversals
    <3> QED
      BY <3>1, <3>2
  <2>2. x \in Plans!Nearby /\ y \in Plans!Nearby
    BY <1>5, Reversals
  <2> QED
    BY <1>2, <2>1, <2>2
<1>12. Plans!Opposite(o) = d
  BY Sides
<1> HIDE DEF made, o
<1>13. Plans!MirrorOf(p) = q /\ Plans!MirrorOf(q) = p
  BY <1>7, <1>10, <1>11, <1>12 DEF o
<1> QED
  BY <1>9, <1>13, Zenon DEF Turns, o

\* The larger and the smaller of two.
LEMMA LargerSmaller ==
    ASSUME NEW x \in Int, NEW y \in Int
    PROVE  /\ Plans!Max({x, y}) = IF x >= y THEN x ELSE y
           /\ Plans!Min({x, y}) = IF x <= y THEN x ELSE y
<1> DEFINE u == IF x >= y THEN x ELSE y
           v == IF x <= y THEN x ELSE y
<1>1. u \in {x, y} /\ u \in Int /\ \A z \in {x, y} : u >= z
  OBVIOUS
<1>2. v \in {x, y} /\ v \in Int /\ \A z \in {x, y} : v <= z
  OBVIOUS
<1>3. Plans!Max({x, y}) = CHOOSE z \in {x, y} : \A w \in {x, y} : z >= w
  BY DEF Plans!Max
<1>4. Plans!Min({x, y}) = CHOOSE z \in {x, y} : \A w \in {x, y} : z <= w
  BY DEF Plans!Min
<1> HIDE DEF u, v
<1>5. Plans!Max({x, y}) \in {x, y} /\ \A w \in {x, y} : Plans!Max({x, y}) >= w
  BY <1>1, <1>3
<1>6. Plans!Min({x, y}) \in {x, y} /\ \A w \in {x, y} : Plans!Min({x, y}) <= w
  BY <1>2, <1>4
<1>7. Plans!Max({x, y}) = u
  BY <1>1, <1>5
<1>8. Plans!Min({x, y}) = v
  BY <1>2, <1>6
<1> QED
  BY <1>7, <1>8 DEF u, v

\* The stop is as far beyond the zone and the sweep on either side.
LEMMA StopTurns ==
    ASSUME NEW d \in Plans!Directions, NEW top \in Int, NEW bottom \in Int, NEW extreme \in Int,
           NEW buffer \in Int
    PROVE  LET stop == Plans!StructuralStop(d, top, bottom, extreme, buffer)
           IN /\ stop \in Int
              /\ stop \in {top + buffer, bottom - buffer, extreme + buffer, extreme - buffer}
              /\ Plans!StructuralStop(Plans!Opposite(d), 0 - bottom, 0 - top, 0 - extreme, buffer) = 0 - stop
<1> DEFINE o == Plans!Opposite(d)
<1>1. /\ d = "SHORT" => Plans!StructuralStop(d, top, bottom, extreme, buffer) = (IF top >= extreme THEN top ELSE extreme) + buffer
      /\ d = "LONG" => Plans!StructuralStop(d, top, bottom, extreme, buffer) = (IF bottom <= extreme THEN bottom ELSE extreme) - buffer
  BY LargerSmaller DEF Plans!StructuralStop
<1>2. /\ Plans!Max({0 - bottom, 0 - extreme}) = IF 0 - bottom >= 0 - extreme THEN 0 - bottom ELSE 0 - extreme
      /\ Plans!Min({0 - top, 0 - extreme}) = IF 0 - top <= 0 - extreme THEN 0 - top ELSE 0 - extreme
  <2>1. 0 - bottom \in Int /\ 0 - extreme \in Int /\ 0 - top \in Int
    OBVIOUS
  <2> QED
    BY <2>1, LargerSmaller
<1>3. Plans!StructuralStop(o, 0 - bottom, 0 - top, 0 - extreme, buffer) =
        IF o = "SHORT" THEN Plans!Max({0 - bottom, 0 - extreme}) + buffer
        ELSE Plans!Min({0 - top, 0 - extreme}) - buffer
  BY DEF Plans!StructuralStop
<1>4. \/ d = "LONG" /\ o = "SHORT"
      \/ d = "SHORT" /\ o = "LONG"
  BY Sides
<1> HIDE DEF o
<1>5. CASE d = "LONG"
  <2>1. Plans!StructuralStop(o, 0 - bottom, 0 - top, 0 - extreme, buffer) =
          (IF 0 - bottom >= 0 - extreme THEN 0 - bottom ELSE 0 - extreme) + buffer
    BY <1>2, <1>3, <1>4, <1>5
  <2> QED
    BY <1>1, <1>5, <2>1 DEF o
<1>6. CASE d = "SHORT"
  <2>1. Plans!StructuralStop(o, 0 - bottom, 0 - top, 0 - extreme, buffer) =
          (IF 0 - top <= 0 - extreme THEN 0 - top ELSE 0 - extreme) - buffer
    BY <1>2, <1>3, <1>4, <1>6
  <2> QED
    BY <1>1, <1>6, <2>1 DEF o
<1> QED
  BY <1>4, <1>5, <1>6

\* No frame above is against the one that is not against the other.
LEMMA ConflictsTurn ==
    ASSUME NEW m, NEW n, Mates(m, n), NEW d \in Plans!Directions, NEW frames,
           ~Plans!Conflicts(m, d, frames)
    PROVE  ~Plans!Conflicts(n, Plans!Opposite(d), frames)
<1> SUFFICES ASSUME NEW g \in Plans!Kind(n, "bias"), g.tf \in frames,
                    g.dir = Plans!Opposite(Plans!Opposite(d))
             PROVE  FALSE
  BY DEF Plans!Conflicts
<1>1. PICK f \in Plans!Kind(m, "bias") : Reversed(f, g)
  BY KindPairs
<1>2. Sound(f) /\ f.kind = "bias"
  BY KindPairs
<1>3. g.tf = f.tf /\ g.dir = Plans!Opposite(f.dir) /\ f.dir \in Plans!Directions \cup {"none"}
  BY <1>1, <1>2 DEF Sound, Reversed
<1>4. Plans!Opposite(f.dir) = d
  BY <1>3, Sides
<1>5. f.dir = Plans!Opposite(d)
  BY <1>3, <1>4, Sides DEF Plans!Directions
<1> QED
  BY <1>3, <1>5 DEF Plans!Conflicts

\* The half of the range that suits the one suits the other.
LEMMA HalfTurns ==
    ASSUME NEW m, NEW n, Mates(m, n), NEW d \in Plans!Directions, NEW b \in Int, NEW tolerance \in {10, 15},
           Plans!CorrectSide(m, d, b, tolerance)
    PROVE  Plans!CorrectSide(n, Plans!Opposite(d), 0 - b, tolerance)
<1>1. \A r, e, x : Plans!CorrectSide(r, e, x, tolerance) <=>
         \A z \in Plans!Kind(r, "range") :
           IF e = "LONG" THEN 100 * (x - z.low) <= (50 + tolerance) * (z.high - z.low)
           ELSE 100 * (x - z.low) >= (50 - tolerance) * (z.high - z.low)
  BY DEF Plans!CorrectSide
<1> DEFINE o == Plans!Opposite(d)
<1>2. \/ d = "LONG" /\ o = "SHORT"
      \/ d = "SHORT" /\ o = "LONG"
  BY Sides
<1> HIDE DEF o
<1> SUFFICES ASSUME NEW g \in Plans!Kind(n, "range")
             PROVE  IF o = "LONG" THEN 100 * ((0 - b) - g.low) <= (50 + tolerance) * (g.high - g.low)
                    ELSE 100 * ((0 - b) - g.low) >= (50 - tolerance) * (g.high - g.low)
  BY <1>1, Zenon DEF o
<1>3. PICK f \in Plans!Kind(m, "range") : Reversed(f, g)
  BY KindPairs
<1>4. Sound(f) /\ f.kind = "range"
  BY KindPairs
<1>5. g.high = 0 - f.low /\ g.low = 0 - f.high /\ f.high \in Int /\ f.low \in Int
  BY <1>3, <1>4, Reversals DEF Sound, Reversed
<1>6. IF d = "LONG" THEN 100 * (b - f.low) <= (50 + tolerance) * (f.high - f.low)
      ELSE 100 * (b - f.low) >= (50 - tolerance) * (f.high - f.low)
  BY <1>1
<1>7. CASE tolerance = 10
  BY <1>2, <1>5, <1>6, <1>7
<1>8. CASE tolerance = 15
  BY <1>2, <1>5, <1>6, <1>8
<1> QED
  BY <1>7, <1>8

\* The best sweep of the one is that of the other.
LEMMA SweepsTurn ==
    ASSUME NEW m, NEW n, Mates(m, n), NEW d \in Plans!Directions, NEW s \in Plans!RecentSweep(m, d)
    PROVE  \E g \in Plans!RecentSweep(n, Plans!Opposite(d)) : Sound(s) /\ s.kind = "sweep" /\ Reversed(s, g)
<1> DEFINE o == Plans!Opposite(d)
<1>1. \A r, e, x : x \in Plans!RecentSweep(r, e) <=>
         /\ x \in Plans!Facing(r, "sweep", e) /\ x.age <= 15 /\ x.quality >= 45
         /\ \A y \in Plans!Facing(r, "sweep", e) : y.age <= 15 /\ y.quality >= 45 => y.quality <= x.quality
  BY DEF Plans!RecentSweep
<1>2. /\ \A x \in Plans!Facing(m, "sweep", d) :
           Sound(x) /\ x.kind = "sweep" /\ \E g \in Plans!Facing(n, "sweep", o) : Reversed(x, g)
      /\ \A g \in Plans!Facing(n, "sweep", o) : \E x \in Plans!Facing(m, "sweep", d) : Reversed(x, g)
  BY SidePairs
<1> HIDE DEF o
<1>3. \A x, y : x.kind = "sweep" /\ Reversed(x, y) => y.age = x.age /\ y.quality = x.quality
  BY DEF Reversed
<1>4. s \in Plans!Facing(m, "sweep", d) /\ s.age <= 15 /\ s.quality >= 45
  BY <1>1
<1>5. PICK g \in Plans!Facing(n, "sweep", o) : Reversed(s, g)
  BY <1>2, <1>4
<1>6. g.age = s.age /\ g.quality = s.quality
  BY <1>2, <1>3, <1>4, <1>5
<1>7. ASSUME NEW y \in Plans!Facing(n, "sweep", o), y.age <= 15, y.quality >= 45
      PROVE  y.quality <= g.quality
  <2>1. PICK x \in Plans!Facing(m, "sweep", d) : Reversed(x, y)
    BY <1>2
  <2>2. y.age = x.age /\ y.quality = x.quality
    BY <1>2, <1>3, <2>1
  <2> QED
    BY <1>1, <1>6, <1>7, <2>2
<1>8. g \in Plans!RecentSweep(n, o)
  BY <1>1, <1>4, <1>6, <1>7
<1> QED
  BY <1>2, <1>4, <1>5, <1>8 DEF o

\* The events of a market.
Events(m) == {f \in m : f.kind \in {"mss", "bos", "choch"}}

\* The latest event of some kinds in the one is that in the other.
LEMMA LatestTurns ==
    ASSUME NEW m, NEW n, Mates(m, n), NEW S, NEW T, S \subseteq Events(m),
           \A f \in S : \E g \in T : Reversed(f, g), \A g \in T : \E f \in S : Reversed(f, g),
           NEW f \in Plans!Latest(S)
    PROVE  \E g \in Plans!Latest(T) : f.dir \in Plans!Directions /\ g.dir = Plans!Opposite(f.dir) /\ g.age = f.age
<1>1. \A R, x : x \in Plans!Latest(R) <=> x \in R /\ \A y \in R : x.age <= y.age
  BY DEF Plans!Latest
<1>2. \A x \in S : Sound(x) /\ x.kind \in {"mss", "bos", "choch"}
  BY DEF Mates, Events
<1>3. \A x \in S : x.dir \in Plans!Directions
  BY <1>2 DEF Sound
<1>4. \A x \in S, y \in T : Reversed(x, y) => y.dir = Plans!Opposite(x.dir) /\ y.age = x.age
  BY <1>2 DEF Reversed
<1>5. f \in S /\ \A y \in S : f.age <= y.age
  BY <1>1
<1>6. PICK g \in T : Reversed(f, g)
  BY <1>5
<1>7. \A y \in T : g.age <= y.age
  <2> SUFFICES ASSUME NEW y \in T PROVE g.age <= y.age
    OBVIOUS
  <2>1. PICK x \in S : Reversed(x, y)
    OBVIOUS
  <2>2. y.age = x.age /\ g.age = f.age
    BY <1>4, <1>5, <1>6, <2>1
  <2> QED
    BY <1>5, <2>2
<1> QED
  BY <1>1, <1>3, <1>4, <1>5, <1>6, <1>7

\* Of one kind of events, and of all.
LEMMA LatestPairs ==
    ASSUME NEW m, NEW n, Mates(m, n)
    PROVE  /\ \A k \in {"mss", "bos"} : \A f \in Plans!Latest(Plans!Kind(m, k)) :
                \E g \in Plans!Latest(Plans!Kind(n, k)) :
                  f.dir \in Plans!Directions /\ g.dir = Plans!Opposite(f.dir) /\ g.age = f.age
           /\ \A f \in Plans!LastEvent(m) :
                \E g \in Plans!LastEvent(n) :
                  f.dir \in Plans!Directions /\ g.dir = Plans!Opposite(f.dir) /\ g.age = f.age
<1>1. \A k \in {"mss", "bos"} : Plans!Kind(m, k) \subseteq Events(m)
  BY DEF Events, Plans!Kind
<1>2. ASSUME NEW k \in {"mss", "bos"}, NEW f \in Plans!Latest(Plans!Kind(m, k))
      PROVE  \E g \in Plans!Latest(Plans!Kind(n, k)) :
               f.dir \in Plans!Directions /\ g.dir = Plans!Opposite(f.dir) /\ g.age = f.age
  <2>1. /\ \A x \in Plans!Kind(m, k) : \E g \in Plans!Kind(n, k) : Reversed(x, g)
        /\ \A g \in Plans!Kind(n, k) : \E x \in Plans!Kind(m, k) : Reversed(x, g)
    BY KindPairs
  <2> QED
    BY <1>1, <1>2, <2>1, LatestTurns
<1>3. ASSUME NEW f \in Plans!LastEvent(m)
      PROVE  \E g \in Plans!LastEvent(n) :
               f.dir \in Plans!Directions /\ g.dir = Plans!Opposite(f.dir) /\ g.age = f.age
  <2>1. /\ \A x \in Events(m) : \E g \in Events(n) : Reversed(x, g)
        /\ \A g \in Events(n) : \E x \in Events(m) : Reversed(x, g)
    <3>1. \A k : /\ \A x \in Plans!Kind(m, k) : \E g \in Plans!Kind(n, k) : Reversed(x, g)
                 /\ \A g \in Plans!Kind(n, k) : \E x \in Plans!Kind(m, k) : Reversed(x, g)
      BY KindPairs
    <3>2. \A q, x : x \in Events(q) <=> x \in Plans!Kind(q, x.kind) /\ x.kind \in {"mss", "bos", "choch"}
      BY DEF Events, Plans!Kind
    <3>3. \A q, k, x : x \in Plans!Kind(q, k) => x.kind = k
      BY DEF Plans!Kind
    <3>4. \A q, k : \A x \in Plans!Kind(q, k) : k \in {"mss", "bos", "choch"} => x \in Events(q)
      BY DEF Events, Plans!Kind
    <3> QED
      BY <3>1, <3>2, <3>3, <3>4
  <2>2. \A q : Plans!LastEvent(q) = Plans!Latest(Events(q))
    BY DEF Plans!LastEvent, Plans!EventKinds, Events
  <2> QED
    BY <1>3, <2>1, <2>2, LatestTurns
<1> QED
  BY <1>2, <1>3

\* The first links of the chain in the one are those in the other.
LEMMA ChainsTurn ==
    ASSUME NEW m, NEW n, Mates(m, n), NEW d \in Plans!Directions, NEW s \in Plans!Chains(m, d)
    PROVE  \E g \in Plans!Chains(n, Plans!Opposite(d)) : Sound(s) /\ s.kind = "sweep" /\ Reversed(s, g)
<1> DEFINE o == Plans!Opposite(d)
<1>1. \A r, e, x : x \in Plans!Chains(r, e) <=>
         /\ x \in Plans!RecentSweep(r, e) /\ ~Plans!Conflicts(r, e, {"H4", "D1", "W1", "MN1"})
         /\ x.after >= 50 /\ \E y \in Plans!Latest(Plans!Kind(r, "mss")) : y.dir = e /\ y.age <= x.age
  BY DEF Plans!Chains, Plans!LastShift
<1>2. PICK g \in Plans!RecentSweep(n, o) : Sound(s) /\ s.kind = "sweep" /\ Reversed(s, g)
  BY <1>1, SweepsTurn
<1>3. g.after = s.after /\ g.age = s.age
  BY <1>2 DEF Reversed
<1>4. ~Plans!Conflicts(n, o, {"H4", "D1", "W1", "MN1"})
  BY <1>1, ConflictsTurn
<1>5. PICK f \in Plans!Latest(Plans!Kind(m, "mss")) : f.dir = d /\ f.age <= s.age
  BY <1>1
<1>6. PICK h \in Plans!Latest(Plans!Kind(n, "mss")) : h.dir = Plans!Opposite(f.dir) /\ h.age = f.age
  <2>1. \A x \in Plans!Latest(Plans!Kind(m, "mss")) : \E h \in Plans!Latest(Plans!Kind(n, "mss")) :
          x.dir \in Plans!Directions /\ h.dir = Plans!Opposite(x.dir) /\ h.age = x.age
    BY LatestPairs
  <2> QED
    BY <1>5, <2>1
<1>7. h.dir = o /\ h.age <= g.age
  BY <1>3, <1>5, <1>6
<1> HIDE DEF o
<1>8. g \in Plans!Chains(n, o)
  BY <1>1, <1>2, <1>3, <1>4, <1>7
<1> QED
  BY <1>2, <1>8 DEF o

\* Two sets of zones, the one upside down.
ZoneMates(A, B) ==
    /\ \A f \in A : Sound(f) /\ f.kind \in {"gap", "block"} /\ \E g \in B : Reversed(f, g)
    /\ \A g \in B : \E f \in A : Reversed(f, g)

\* The best zone of the one is that of the other.
LEMMA BestTurns ==
    ASSUME NEW A, NEW B, ZoneMates(A, B), NEW z \in Plans!Best(A)
    PROVE  \E w \in Plans!Best(B) : z \in A /\ w \in B /\ Sound(z) /\ z.kind \in {"gap", "block"} /\ Reversed(z, w)
<1> DEFINE near(x) == Plans!AbsOf(x.top + x.bottom)
<1>1. \A S, x : x \in Plans!Best(S) <=>
         x \in S /\ \A y \in S : ~(y.size > x.size \/ (y.size = x.size /\ near(y) < near(x)))
  BY DEF Plans!Best
<1>2. \A x, y : Sound(x) /\ x.kind \in {"gap", "block"} /\ Reversed(x, y) => y.size = x.size /\ near(y) = near(x)
  <2> SUFFICES ASSUME NEW x, NEW y, Sound(x), x.kind \in {"gap", "block"}, Reversed(x, y)
               PROVE  y.size = x.size /\ near(y) = near(x)
    OBVIOUS
  <2>1. x.top \in Int /\ x.bottom \in Int /\ y.top = 0 - x.bottom /\ y.bottom = 0 - x.top /\ y.size = x.size
    BY Reversals DEF Sound, Reversed
  <2>2. y.top + y.bottom = 0 - (x.top + x.bottom) /\ x.top + x.bottom \in Int
    BY <2>1
  <2>3. \A v \in Int : Plans!AbsOf(0 - v) = Plans!AbsOf(v)
    BY DEF Plans!AbsOf
  <2> QED
    BY <2>1, <2>2, <2>3
<1> HIDE DEF near
<1>3. z \in A /\ Sound(z) /\ z.kind \in {"gap", "block"}
  BY <1>1 DEF ZoneMates
<1>4. PICK w \in B : Reversed(z, w)
  BY <1>3 DEF ZoneMates
<1>5. w.size = z.size /\ near(w) = near(z)
  BY <1>2, <1>3, <1>4
<1>6. ASSUME NEW y \in B
      PROVE  ~(y.size > w.size \/ (y.size = w.size /\ near(y) < near(w)))
  <2>1. PICK x \in A : Reversed(x, y)
    BY DEF ZoneMates
  <2>2. y.size = x.size /\ near(y) = near(x)
    BY <1>2, <2>1 DEF ZoneMates
  <2> QED
    BY <1>1, <1>5, <2>2
<1>7. w \in Plans!Best(B)
  BY <1>1, <1>4, <1>6
<1> QED
  BY <1>3, <1>4, <1>7

\* The middle of a zone is a price, that of the zone upside down the other one.
LEMMA MiddleTurns ==
    ASSUME NEW z, NEW w, Sound(z), z.kind \in {"gap", "block"}, Reversed(z, w)
    PROVE  Plans!Middle(z) \in Plans!Prices /\ Plans!Middle(w) = 0 - Plans!Middle(z)
<1> DEFINE half == 4500
           most == 9000
<1>1. Plans!Edges = {2 * k : k \in (0 - half)..half} /\ Plans!Prices = (0 - most)..most
  BY DEF Plans!Edges, Plans!Prices
<1>2. half \in Int /\ most = half + half
  OBVIOUS
<1> HIDE DEF half, most
<1>3. z.top \in Plans!Edges /\ z.bottom \in Plans!Edges /\ w.top = 0 - z.bottom /\ w.bottom = 0 - z.top
  BY DEF Sound, Reversed
<1>4. PICK k \in (0 - half)..half : z.top = 2 * k
  BY <1>1, <1>3
<1>5. PICK j \in (0 - half)..half : z.bottom = 2 * j
  BY <1>1, <1>3
<1>6. k \in Int /\ j \in Int
  BY <1>2
<1>7. z.top + z.bottom = 2 * (k + j) /\ w.top + w.bottom = 2 * (0 - (k + j))
  BY <1>3, <1>4, <1>5, <1>6
<1>8. (2 * (k + j)) \div 2 = k + j /\ (2 * (0 - (k + j))) \div 2 = 0 - (k + j)
  BY <1>6
<1>9. Plans!Middle(z) = k + j /\ Plans!Middle(w) = 0 - (k + j)
  BY <1>7, <1>8 DEF Plans!Middle
<1> QED
  BY <1>1, <1>2, <1>9

\* What a sweep reached is a price near its pool, upside down the other one.
LEMMA ExtremeTurns ==
    ASSUME NEW s, NEW g, Sound(s), s.kind = "sweep", Reversed(s, g)
    PROVE  /\ s.pool \in Plans!Prices /\ s.pool \in Int /\ Plans!SweepExtreme(s) \in Int
           /\ Plans!SweepExtreme(s) - s.pool <= 400 /\ s.pool - Plans!SweepExtreme(s) <= 400
           /\ Plans!SweepExtreme(g) = 0 - Plans!SweepExtreme(s)
<1>1. /\ s.pool \in Plans!Prices /\ s.pool \in Int /\ s.pen \in 0..400 /\ s.dir \in Plans!Directions
      /\ g.pool = 0 - s.pool /\ g.pen = s.pen /\ g.dir = Plans!Opposite(s.dir)
  BY Reversals DEF Sound, Reversed, Plans!Depths
<1>2. \/ s.dir = "LONG" /\ g.dir = "SHORT"
      \/ s.dir = "SHORT" /\ g.dir = "LONG"
  BY <1>1, Sides
<1>3. /\ Plans!SweepExtreme(s) = IF s.dir = "SHORT" THEN s.pool + s.pen ELSE s.pool - s.pen
      /\ Plans!SweepExtreme(g) = IF g.dir = "SHORT" THEN g.pool + g.pen ELSE g.pool - g.pen
  BY Zenon DEF Plans!SweepExtreme
<1>4. s.pen \in Int /\ 0 <= s.pen /\ s.pen <= 400
  BY <1>1
<1> QED
  BY <1>1, <1>2, <1>3, <1>4

\* An entry into a zone of the one is an entry into that of the other.
LEMMA EnteredTurns ==
    ASSUME NEW m, NEW n, Mates(m, n), NEW name, NEW d \in Plans!Directions,
           NEW s, NEW g, Sound(s), s.kind = "sweep", Reversed(s, g),
           NEW z, NEW w, Sound(z), z.kind \in {"gap", "block"}, Reversed(z, w),
           NEW b \in Plans!Prices, NEW p \in Plans!Entered(m, name, d, s, z, b)
    PROVE  \E q \in Plans!Entered(n, name, Plans!Opposite(d), g, w, 0 - b) : Turns(p, q)
<1> DEFINE o == Plans!Opposite(d)
           buffer == (15 * Plans!ATR) \div 100
           stop == Plans!StructuralStop(d, z.top, z.bottom, Plans!SweepExtreme(s), buffer)
<1>1. buffer \in Int /\ buffer = 6
  BY DEF Plans!ATR
<1> HIDE DEF buffer
<1>2. \A r, e, x, y, v : Plans!Entered(r, name, e, x, y, v) =
         IF Plans!Away(v, 0) <= 4 * Plans!ATR /\ Plans!CorrectSide(r, e, v, 10)
         THEN Plans!Plans(r, name, e, v, Plans!StructuralStop(e, y.top, y.bottom, Plans!SweepExtreme(x), buffer))
         ELSE {}
  BY DEF Plans!Entered, buffer
<1>3. /\ Plans!Away(b, 0) <= 4 * Plans!ATR /\ Plans!CorrectSide(m, d, b, 10)
      /\ p \in Plans!Plans(m, name, d, b, stop)
  BY <1>2
<1>4. b \in Int
  BY Reversals
<1>5. Plans!Away(0 - b, 0) <= 4 * Plans!ATR
  <2>1. Plans!Away(0 - b, 0 - 0) = Plans!Away(b, 0) /\ 0 - 0 = 0
    BY <1>4, AwayAlike
  <2> QED
    BY <1>3, <2>1
<1>6. Plans!CorrectSide(n, o, 0 - b, 10)
  BY <1>3, <1>4, HalfTurns
<1>7. /\ s.pool \in Plans!Prices /\ s.pool \in Int /\ Plans!SweepExtreme(s) \in Int
      /\ Plans!SweepExtreme(s) - s.pool <= 400 /\ s.pool - Plans!SweepExtreme(s) <= 400
      /\ Plans!SweepExtreme(g) = 0 - Plans!SweepExtreme(s)
  BY ExtremeTurns
<1>8. /\ z.top \in Plans!Prices /\ z.bottom \in Plans!Prices /\ z.top \in Int /\ z.bottom \in Int
      /\ w.top = 0 - z.bottom /\ w.bottom = 0 - z.top
  BY Reversals DEF Sound, Reversed
<1> DEFINE x == Plans!SweepExtreme(s)
<1>9. /\ stop \in Int /\ stop \in {z.top + buffer, z.bottom - buffer, x + buffer, x - buffer}
      /\ Plans!StructuralStop(o, 0 - z.bottom, 0 - z.top, 0 - x, buffer) = 0 - stop
  BY <1>1, <1>7, <1>8, StopTurns
<1> HIDE DEF stop, o, x
<1>10. stop \in Plans!Nearby
  <2>1. \/ stop - z.top <= 450 /\ z.top - stop <= 450
        \/ stop - z.bottom <= 450 /\ z.bottom - stop <= 450
        \/ stop - s.pool <= 450 /\ s.pool - stop <= 450
    BY <1>1, <1>7, <1>8, <1>9 DEF x
  <2> QED
    BY <1>7, <1>8, <1>9, <2>1, Reversals
<1>11. PICK q \in Plans!Plans(n, name, Plans!Opposite(d), 0 - b, 0 - stop) : Turns(p, q)
  BY <1>3, <1>10, PlansTurn
<1>12. Plans!Entered(n, name, o, g, w, 0 - b) = Plans!Plans(n, name, o, 0 - b, 0 - stop)
  BY <1>2, <1>5, <1>6, <1>7, <1>8, <1>9 DEF x
<1> QED
  BY <1>11, <1>12, Zenon DEF o

\* The tradable zones of mates are mates.
LEMMA TradablePairs ==
    ASSUME NEW m, NEW n, Mates(m, n), NEW d \in Plans!Directions, NEW k \in {"gap", "block"}
    PROVE  ZoneMates({z \in Plans!Facing(m, k, d) : z.tradable},
                     {z \in Plans!Facing(n, k, Plans!Opposite(d)) : z.tradable})
<1> DEFINE o == Plans!Opposite(d)
           A == {z \in Plans!Facing(m, k, d) : z.tradable}
           B == {z \in Plans!Facing(n, k, o) : z.tradable}
<1>1. /\ \A x \in Plans!Facing(m, k, d) :
           Sound(x) /\ x.kind = k /\ \E g \in Plans!Facing(n, k, o) : Reversed(x, g)
      /\ \A g \in Plans!Facing(n, k, o) : \E x \in Plans!Facing(m, k, d) : Reversed(x, g)
  BY SidePairs
<1>2. \A x, y : x.kind = k /\ Reversed(x, y) => (y.tradable <=> x.tradable)
  BY DEF Reversed
<1>3. /\ \A x : x \in A <=> x \in Plans!Facing(m, k, d) /\ x.tradable
      /\ \A x : x \in B <=> x \in Plans!Facing(n, k, o) /\ x.tradable
  BY Zenon
<1> HIDE DEF o, A, B
<1>4. ASSUME NEW f \in A
      PROVE  Sound(f) /\ f.kind \in {"gap", "block"} /\ \E g \in B : Reversed(f, g)
  <2>1. f \in Plans!Facing(m, k, d) /\ f.tradable
    BY <1>3
  <2>2. PICK g \in Plans!Facing(n, k, o) : Reversed(f, g)
    BY <1>1, <2>1
  <2>3. Sound(f) /\ f.kind = k
    BY <1>1, <2>1
  <2>4. g \in B
    BY <1>2, <1>3, <2>1, <2>2, <2>3, Zenon
  <2> QED
    BY <2>2, <2>3, <2>4
<1>5. ASSUME NEW g \in B
      PROVE  \E f \in A : Reversed(f, g)
  <2>1. g \in Plans!Facing(n, k, o) /\ g.tradable
    BY <1>3
  <2>2. PICK f \in Plans!Facing(m, k, d) : Reversed(f, g)
    BY <1>1, <2>1
  <2>3. f.kind = k
    BY <1>1
  <2> QED
    BY <1>2, <1>3, <2>1, <2>2, <2>3, Zenon
<1>6. ZoneMates(A, B)
  BY <1>4, <1>5, Zenon DEF ZoneMates
<1> QED
  BY <1>6, Zenon DEF A, B, o

\* Of mates, those zones are mates that are chosen by what is the same upside down.
LEMMA SubMates ==
    ASSUME NEW A, NEW B, ZoneMates(A, B), NEW S, NEW T, S \subseteq A, T \subseteq B,
           \A f \in A, g \in B : Reversed(f, g) => (f \in S <=> g \in T)
    PROVE  ZoneMates(S, T)
<1>1. ASSUME NEW f \in S
      PROVE  Sound(f) /\ f.kind \in {"gap", "block"} /\ \E g \in T : Reversed(f, g)
  <2>1. f \in A
    OBVIOUS
  <2>2. PICK g \in B : Reversed(f, g)
    BY <2>1 DEF ZoneMates
  <2>3. g \in T
    BY <2>1, <2>2
  <2> QED
    BY <2>1, <2>2, <2>3 DEF ZoneMates
<1>2. ASSUME NEW g \in T
      PROVE  \E f \in S : Reversed(f, g)
  <2>1. g \in B
    OBVIOUS
  <2>2. PICK f \in A : Reversed(f, g)
    BY <2>1 DEF ZoneMates
  <2> QED
    BY <2>1, <2>2
<1> QED
  BY <1>1, <1>2, Zenon DEF ZoneMates

-----------------------------------------------------------------------------
(* The strategies, in a market and in its mate.                            *)

\* The gaps that the move away from a sweep of an age may have left.
LeftGaps(m, d, age) == {g \in Plans!Facing(m, "gap", d) : g.tradable /\ g.age <= age /\ g.size >= 50}

\* The plans of the gaps are entries into the best of them.
LEMMA GapPlansAre ==
    ASSUME NEW m, NEW d, NEW p
    PROVE  p \in Plans!SweepMssFvg(m, d) <=>
             \E s \in Plans!Chains(m, d) : \E z \in Plans!Best(LeftGaps(m, d, s.age)) :
               p \in Plans!Entered(m, "sweep_mss_fvg", d, s, z, Plans!Middle(z))
<1> DEFINE into(s) == UNION {Plans!Entered(m, "sweep_mss_fvg", d, s, z, Plans!Middle(z)) :
                               z \in Plans!Best(LeftGaps(m, d, s.age))}
<1>1. Plans!SweepMssFvg(m, d) = UNION {into(s) : s \in Plans!Chains(m, d)}
  BY Zenon DEF Plans!SweepMssFvg, LeftGaps
<1>2. \A s : p \in into(s) <=> \E z \in Plans!Best(LeftGaps(m, d, s.age)) :
                                 p \in Plans!Entered(m, "sweep_mss_fvg", d, s, z, Plans!Middle(z))
  OBVIOUS
<1> HIDE DEF into
<1>3. p \in UNION {into(s) : s \in Plans!Chains(m, d)} <=> \E s \in Plans!Chains(m, d) : p \in into(s)
  OBVIOUS
<1> QED
  BY <1>1, <1>2, <1>3

\* A plan of a gap is one upside down.
LEMMA GapPlansTurn ==
    ASSUME NEW m, NEW n, Mates(m, n), NEW d \in Plans!Directions, NEW p \in Plans!SweepMssFvg(m, d)
    PROVE  \E q \in Plans!SweepMssFvg(n, Plans!Opposite(d)) : Turns(p, q)
<1> DEFINE o == Plans!Opposite(d)
<1>1. PICK s \in Plans!Chains(m, d) : \E z \in Plans!Best(LeftGaps(m, d, s.age)) :
             p \in Plans!Entered(m, "sweep_mss_fvg", d, s, z, Plans!Middle(z))
  BY GapPlansAre
<1>2. PICK z \in Plans!Best(LeftGaps(m, d, s.age)) :
             p \in Plans!Entered(m, "sweep_mss_fvg", d, s, z, Plans!Middle(z))
  BY <1>1
<1>3. PICK g \in Plans!Chains(n, o) : Sound(s) /\ s.kind = "sweep" /\ Reversed(s, g)
  BY ChainsTurn
<1>4. g.age = s.age
  BY <1>3 DEF Reversed
<1> DEFINE A == {x \in Plans!Facing(m, "gap", d) : x.tradable}
           B == {x \in Plans!Facing(n, "gap", o) : x.tradable}
           S == LeftGaps(m, d, s.age)
           T == LeftGaps(n, o, s.age)
<1>5. ZoneMates(A, B)
  BY TradablePairs
<1>6. /\ \A x : x \in S <=> x \in A /\ x.age <= s.age /\ x.size >= 50
      /\ \A x : x \in T <=> x \in B /\ x.age <= s.age /\ x.size >= 50
  BY DEF LeftGaps
<1>7. \A x \in A : x.kind = "gap"
  BY DEF Plans!Facing, Plans!Kind
<1> HIDE DEF A, B, S, T
<1>8. ASSUME NEW x \in A, NEW y \in B, Reversed(x, y)
      PROVE  x \in S <=> y \in T
  <2>1. y.age = x.age /\ y.size = x.size
    BY <1>7, <1>8 DEF Reversed
  <2> QED
    BY <1>6, <1>8, <2>1
<1>9. ZoneMates(S, T)
  BY <1>5, <1>6, <1>8, SubMates
<1>10. z \in Plans!Best(S)
  BY <1>2 DEF S
<1>11. PICK w \in Plans!Best(T) : Sound(z) /\ z.kind \in {"gap", "block"} /\ Reversed(z, w)
  BY <1>9, <1>10, BestTurns
<1>12. Plans!Middle(z) \in Plans!Prices /\ Plans!Middle(w) = 0 - Plans!Middle(z)
  BY <1>11, MiddleTurns
<1>13. PICK q \in Plans!Entered(n, "sweep_mss_fvg", Plans!Opposite(d), g, w, 0 - Plans!Middle(z)) : Turns(p, q)
  BY <1>2, <1>3, <1>11, <1>12, EnteredTurns
<1>14. w \in Plans!Best(LeftGaps(n, o, g.age))
  BY <1>4, <1>11, Zenon DEF T
<1>15. q \in Plans!SweepMssFvg(n, o)
  BY <1>3, <1>12, <1>13, <1>14, GapPlansAre
<1> QED
  BY <1>13, <1>15, Zenon DEF o

\* The blocks that may be entered, of which the best is.
Entries(m, d) ==
    IF \E b \in Plans!Facing(m, "block", d) : b.tradable /\ b.caused
    THEN {b \in Plans!Facing(m, "block", d) : b.tradable /\ b.caused}
    ELSE {b \in Plans!Facing(m, "block", d) : b.tradable /\ b.breaker}

\* The plans of the blocks are entries into the best of them.
LEMMA BlockPlansAre ==
    ASSUME NEW m, NEW d
    PROVE  /\ Plans!EntryBlock(m, d) = Plans!Best(Entries(m, d))
           /\ \A p : p \in Plans!SweepMssOb(m, d) <=>
                \E s \in Plans!Chains(m, d) : \E b \in Plans!EntryBlock(m, d) :
                  p \in Plans!Entered(m, "sweep_mss_ob", d, s, b, Plans!BlockEntry(d, b))
<1> DEFINE blocks == {b \in Plans!Facing(m, "block", d) : b.tradable}
           caused == {b \in blocks : b.caused}
           broken == {b \in blocks : b.breaker}
<1>1. Plans!EntryBlock(m, d) = Plans!Best(IF caused # {} THEN caused ELSE broken)
  BY Zenon DEF Plans!EntryBlock
<1>2. caused = {b \in Plans!Facing(m, "block", d) : b.tradable /\ b.caused}
  OBVIOUS
<1>3. broken = {b \in Plans!Facing(m, "block", d) : b.tradable /\ b.breaker}
  OBVIOUS
<1>4. caused # {} <=> \E b \in Plans!Facing(m, "block", d) : b.tradable /\ b.caused
  OBVIOUS
<1>5. Entries(m, d) = IF \E b \in Plans!Facing(m, "block", d) : b.tradable /\ b.caused
                      THEN {b \in Plans!Facing(m, "block", d) : b.tradable /\ b.caused}
                      ELSE {b \in Plans!Facing(m, "block", d) : b.tradable /\ b.breaker}
  BY Zenon DEF Entries
<1> HIDE DEF blocks, caused, broken
<1>6. Entries(m, d) = IF caused # {} THEN caused ELSE broken
  BY <1>2, <1>3, <1>4, <1>5
<1>7. \A p : p \in Plans!SweepMssOb(m, d) <=>
        \E s \in Plans!Chains(m, d) : \E b \in Plans!EntryBlock(m, d) :
          p \in Plans!Entered(m, "sweep_mss_ob", d, s, b, Plans!BlockEntry(d, b))
  BY DEF Plans!SweepMssOb
<1> QED
  BY <1>1, <1>6, <1>7

\* A block is entered where it is upside down.
LEMMA BlockEntryTurns ==
    ASSUME NEW z, NEW w, Sound(z), z.kind \in {"gap", "block"}, Reversed(z, w), NEW d \in Plans!Directions
    PROVE  /\ Plans!BlockEntry(d, z) \in Plans!Prices
           /\ Plans!BlockEntry(Plans!Opposite(d), w) = 0 - Plans!BlockEntry(d, z)
<1>1. Plans!Middle(z) \in Plans!Prices /\ Plans!Middle(w) = 0 - Plans!Middle(z)
  BY MiddleTurns
<1>2. /\ z.top \in Plans!Prices /\ z.bottom \in Plans!Prices /\ z.top \in Int /\ z.bottom \in Int
      /\ w.top = 0 - z.bottom /\ w.bottom = 0 - z.top
  BY Reversals DEF Sound, Reversed
<1>3. w.top - w.bottom = z.top - z.bottom
  BY <1>2
<1>4. \A e, x : Plans!BlockEntry(e, x) =
        IF 10 * (x.top - x.bottom) > 8 * Plans!ATR THEN Plans!Middle(x)
        ELSE IF e = "LONG" THEN x.top ELSE x.bottom
  BY Zenon DEF Plans!BlockEntry
<1>5. \/ d = "LONG" /\ Plans!Opposite(d) = "SHORT"
      \/ d = "SHORT" /\ Plans!Opposite(d) = "LONG"
  BY Sides
<1> QED
  BY <1>1, <1>2, <1>3, <1>4, <1>5

\* The blocks that may be entered are those upside down.
LEMMA EntriesTurn ==
    ASSUME NEW m, NEW n, Mates(m, n), NEW d \in Plans!Directions
    PROVE  ZoneMates(Entries(m, d), Entries(n, Plans!Opposite(d)))
<1> DEFINE o == Plans!Opposite(d)
           A == {z \in Plans!Facing(m, "block", d) : z.tradable}
           B == {z \in Plans!Facing(n, "block", o) : z.tradable}
           caused(S) == {z \in S : z.caused}
           broken(S) == {z \in S : z.breaker}
<1>1. ZoneMates(A, B)
  BY TradablePairs
<1>2. /\ Entries(m, d) = IF \E z \in A : z.caused THEN caused(A) ELSE broken(A)
      /\ Entries(n, o) = IF \E z \in B : z.caused THEN caused(B) ELSE broken(B)
  <2>1. \A r, e : LET C == {z \in Plans!Facing(r, "block", e) : z.tradable}
                  IN Entries(r, e) = IF \E z \in C : z.caused THEN {z \in C : z.caused} ELSE {z \in C : z.breaker}
    BY DEF Entries
  <2> HIDE DEF o
  <2> QED
    BY <2>1, Zenon
<1>3. \A x \in A : x.kind = "block"
  BY DEF Plans!Facing, Plans!Kind
<1>4. \A x, y : x.kind = "block" /\ Reversed(x, y) => (y.caused <=> x.caused) /\ (y.breaker <=> x.breaker)
  BY DEF Reversed
<1> HIDE DEF o, A, B
<1>5. /\ \A x \in A : \E y \in B : Reversed(x, y)
      /\ \A y \in B : \E x \in A : Reversed(x, y)
  BY <1>1, Zenon DEF ZoneMates
<1>6. (\E z \in A : z.caused) <=> (\E z \in B : z.caused)
  BY <1>3, <1>4, <1>5, Zenon
<1>7. ZoneMates(caused(A), caused(B))
  <2>1. \A f \in A, g \in B : Reversed(f, g) => (f \in caused(A) <=> g \in caused(B))
    BY <1>3, <1>4, Zenon
  <2>2. caused(A) \subseteq A /\ caused(B) \subseteq B
    OBVIOUS
  <2> HIDE DEF caused
  <2> QED
    BY <1>1, <2>1, <2>2, SubMates
<1>8. ZoneMates(broken(A), broken(B))
  <2>1. \A f \in A, g \in B : Reversed(f, g) => (f \in broken(A) <=> g \in broken(B))
    BY <1>3, <1>4, Zenon
  <2>2. broken(A) \subseteq A /\ broken(B) \subseteq B
    OBVIOUS
  <2> HIDE DEF broken
  <2> QED
    BY <1>1, <2>1, <2>2, SubMates
<1>9. ZoneMates(Entries(m, d), Entries(n, o))
  <2> HIDE DEF caused, broken
  <2>1. CASE \E z \in A : z.caused
    BY <1>2, <1>6, <1>7, <2>1
  <2>2. CASE ~\E z \in A : z.caused
    BY <1>2, <1>6, <1>8, <2>2
  <2> QED
    BY <2>1, <2>2
<1> QED
  BY <1>9 DEF o

\* A plan of a block is one upside down.
LEMMA BlockPlansTurn ==
    ASSUME NEW m, NEW n, Mates(m, n), NEW d \in Plans!Directions, NEW p \in Plans!SweepMssOb(m, d)
    PROVE  \E q \in Plans!SweepMssOb(n, Plans!Opposite(d)) : Turns(p, q)
<1> DEFINE o == Plans!Opposite(d)
<1>1. PICK s \in Plans!Chains(m, d) : \E z \in Plans!EntryBlock(m, d) :
             p \in Plans!Entered(m, "sweep_mss_ob", d, s, z, Plans!BlockEntry(d, z))
  BY BlockPlansAre
<1>2. PICK z \in Plans!EntryBlock(m, d) : p \in Plans!Entered(m, "sweep_mss_ob", d, s, z, Plans!BlockEntry(d, z))
  BY <1>1
<1>3. PICK g \in Plans!Chains(n, o) : Sound(s) /\ s.kind = "sweep" /\ Reversed(s, g)
  BY ChainsTurn
<1>4. z \in Plans!Best(Entries(m, d))
  BY <1>2, BlockPlansAre
<1>5. ZoneMates(Entries(m, d), Entries(n, o))
  BY EntriesTurn
<1>6. PICK w \in Plans!Best(Entries(n, o)) : Sound(z) /\ z.kind \in {"gap", "block"} /\ Reversed(z, w)
  BY <1>4, <1>5, BestTurns
<1>7. Plans!BlockEntry(d, z) \in Plans!Prices /\ Plans!BlockEntry(o, w) = 0 - Plans!BlockEntry(d, z)
  BY <1>6, BlockEntryTurns
<1>8. PICK q \in Plans!Entered(n, "sweep_mss_ob", Plans!Opposite(d), g, w, 0 - Plans!BlockEntry(d, z)) : Turns(p, q)
  BY <1>2, <1>3, <1>6, <1>7, EnteredTurns
<1>9. q \in Plans!Entered(n, "sweep_mss_ob", o, g, w, Plans!BlockEntry(o, w)) /\ w \in Plans!EntryBlock(n, o)
  BY <1>6, <1>7, <1>8, BlockPlansAre
<1> HIDE DEF o
<1>10. q \in Plans!SweepMssOb(n, o)
  BY <1>3, <1>9, BlockPlansAre
<1> QED
  BY <1>8, <1>10, Zenon DEF o

\* The edge of a range that a sweep took.
SweptEdge(d, a) == IF d = "SHORT" THEN a.high ELSE a.low

\* The ranges of Asia that are expanded from.
Expanded(m, d, minutes) ==
    {a \in Plans!Kind(m, "asia") :
        /\ minutes <= 240
        /\ 10 * (a.high - a.low) >= 8 * Plans!ATR /\ a.high - a.low <= 4 * Plans!ATR
        /\ Plans!AsiaTaken(m, d, a)
        /\ ~Plans!Conflicts(m, d, {"H4", "D1"})
        /\ \E e \in Plans!ShiftOrBreak(m) : e.dir = d
        /\ Plans!CorrectSide(m, d, 0, 15)}

\* The plans of the ranges of Asia.
LEMMA RangePlansAre ==
    ASSUME NEW m, NEW d, NEW minutes, NEW p
    PROVE  p \in Plans!SessionRangeExpansion(m, d, minutes) <=>
             \E a \in Expanded(m, d, minutes) :
               p \in Plans!Plans(m, "session_range_expansion", d, 0,
                                 Plans!StructuralStop(d, SweptEdge(d, a), SweptEdge(d, a), SweptEdge(d, a),
                                                      (25 * Plans!ATR) \div 100))
BY DEF Plans!SessionRangeExpansion, Expanded, SweptEdge

\* A side of a range of Asia is taken as the other side upside down.
LEMMA TakenTurns ==
    ASSUME NEW m, NEW n, Mates(m, n), NEW d \in Plans!Directions, NEW a, NEW c,
           Sound(a), a.kind = "asia", Reversed(a, c)
    PROVE  /\ SweptEdge(d, a) \in Plans!Prices /\ SweptEdge(Plans!Opposite(d), c) = 0 - SweptEdge(d, a)
           /\ Plans!AsiaTaken(m, d, a) => Plans!AsiaTaken(n, Plans!Opposite(d), c)
<1> DEFINE o == Plans!Opposite(d)
           x == SweptEdge(d, a)
<1>1. \/ d = "LONG" /\ o = "SHORT"
      \/ d = "SHORT" /\ o = "LONG"
  BY Sides
<1>2. /\ a.high \in Plans!Prices /\ a.low \in Plans!Prices /\ a.high \in Int /\ a.low \in Int
      /\ c.high = 0 - a.low /\ c.low = 0 - a.high
  BY Reversals DEF Sound, Reversed
<1>3. x \in Plans!Prices /\ x \in Int /\ SweptEdge(o, c) = 0 - x
  BY <1>1, <1>2 DEF SweptEdge
<1>4. \A r, e, z : Plans!AsiaTaken(r, e, z) <=>
        /\ IF e = "SHORT" THEN 0 < SweptEdge(e, z) ELSE 0 > SweptEdge(e, z)
        /\ \E s \in Plans!Facing(r, "sweep", e) : 2 * Plans!AbsOf(s.pool - SweptEdge(e, z)) <= Plans!ATR
  BY DEF Plans!AsiaTaken, SweptEdge
<1> HIDE DEF o, x
<1>5. ASSUME Plans!AsiaTaken(m, d, a)
      PROVE  Plans!AsiaTaken(n, o, c)
  <2>1. /\ IF d = "SHORT" THEN 0 < x ELSE 0 > x
        /\ \E s \in Plans!Facing(m, "sweep", d) : 2 * Plans!AbsOf(s.pool - x) <= Plans!ATR
    BY <1>4, <1>5 DEF x
  <2>2. PICK s \in Plans!Facing(m, "sweep", d) : 2 * Plans!AbsOf(s.pool - x) <= Plans!ATR
    BY <2>1
  <2>3. PICK g \in Plans!Facing(n, "sweep", o) : Reversed(s, g)
    BY SidePairs DEF o
  <2>4. s.pool \in Int /\ g.pool = 0 - s.pool
    <3>1. Sound(s) /\ s.kind = "sweep"
      BY SidePairs
    <3> QED
      BY <2>3, <3>1, Reversals DEF Sound, Reversed
  <2>5. Plans!AbsOf(g.pool - (0 - x)) = Plans!AbsOf(s.pool - x)
    <3>1. g.pool - (0 - x) = 0 - (s.pool - x) /\ s.pool - x \in Int
      BY <1>3, <2>4
    <3>2. \A v \in Int : Plans!AbsOf(0 - v) = Plans!AbsOf(v)
      BY DEF Plans!AbsOf
    <3> QED
      BY <3>1, <3>2
  <2>6. IF o = "SHORT" THEN 0 < 0 - x ELSE 0 > 0 - x
    BY <1>1, <1>3, <2>1
  <2> QED
    BY <1>3, <1>4, <2>2, <2>3, <2>5, <2>6
<1> QED
  BY <1>3, <1>5 DEF o, x

\* The last shift or break of the one is that of the other.
LEMMA ShiftOrBreakTurns ==
    ASSUME NEW m, NEW n, Mates(m, n), NEW d \in Plans!Directions, \E e \in Plans!ShiftOrBreak(m) : e.dir = d
    PROVE  \E e \in Plans!ShiftOrBreak(n) : e.dir = Plans!Opposite(d)
<1>1. \A r : Plans!ShiftOrBreak(r) = IF Plans!Kind(r, "mss") # {} THEN Plans!Latest(Plans!Kind(r, "mss"))
                                     ELSE Plans!Latest(Plans!Kind(r, "bos"))
  BY Zenon DEF Plans!ShiftOrBreak, Plans!LastShift
<1>2. Plans!Kind(m, "mss") # {} <=> Plans!Kind(n, "mss") # {}
  BY KindPairs
<1>3. \A k \in {"mss", "bos"} : \A f \in Plans!Latest(Plans!Kind(m, k)) :
         \E g \in Plans!Latest(Plans!Kind(n, k)) :
           f.dir \in Plans!Directions /\ g.dir = Plans!Opposite(f.dir) /\ g.age = f.age
  BY LatestPairs, Zenon
<1>4. PICK f \in Plans!ShiftOrBreak(m) : f.dir = d
  OBVIOUS
<1>5. CASE Plans!Kind(m, "mss") # {}
  <2>1. f \in Plans!Latest(Plans!Kind(m, "mss"))
    BY <1>1, <1>4, <1>5
  <2>2. PICK g \in Plans!Latest(Plans!Kind(n, "mss")) : g.dir = Plans!Opposite(f.dir)
    BY <1>3, <2>1
  <2> QED
    BY <1>1, <1>2, <1>4, <1>5, <2>2
<1>6. CASE Plans!Kind(m, "mss") = {}
  <2>1. f \in Plans!Latest(Plans!Kind(m, "bos"))
    BY <1>1, <1>4, <1>6
  <2>2. PICK g \in Plans!Latest(Plans!Kind(n, "bos")) : g.dir = Plans!Opposite(f.dir)
    BY <1>3, <2>1
  <2> QED
    BY <1>1, <1>2, <1>4, <1>6, <2>2
<1> QED
  BY <1>5, <1>6

\* A plan beyond an edge, at the price of now.
LEMMA BeyondTurns ==
    ASSUME NEW m, NEW n, Mates(m, n), NEW name, NEW d \in Plans!Directions, NEW x \in Int, NEW y \in Plans!Prices,
           x - y <= 400, y - x <= 400, NEW buffer \in Int, 0 <= buffer, buffer <= 10,
           NEW p \in Plans!Plans(m, name, d, 0, Plans!StructuralStop(d, x, x, x, buffer))
    PROVE  \E q \in Plans!Plans(n, name, Plans!Opposite(d), 0,
                                Plans!StructuralStop(Plans!Opposite(d), 0 - x, 0 - x, 0 - x, buffer)) : Turns(p, q)
<1> DEFINE o == Plans!Opposite(d)
           stop == Plans!StructuralStop(d, x, x, x, buffer)
<1>1. /\ stop \in Int /\ stop \in {x + buffer, x - buffer}
      /\ Plans!StructuralStop(o, 0 - x, 0 - x, 0 - x, buffer) = 0 - stop
  BY StopTurns
<1> HIDE DEF stop, o
<1>2. stop \in Plans!Nearby
  <2>1. y \in Int
    BY Reversals
  <2>2. stop - y <= 450 /\ y - stop <= 450
    BY <1>1, <2>1
  <2> QED
    BY <1>1, <2>2, Reversals
<1>3. 0 \in Plans!Prices /\ 0 - 0 = 0
  BY Reversals
<1>4. p \in Plans!Plans(m, name, d, 0, stop)
  BY DEF stop
<1>5. \E q \in Plans!Plans(n, name, Plans!Opposite(d), 0 - 0, 0 - stop) : Turns(p, q)
  BY <1>2, <1>3, <1>4, PlansTurn
<1> QED
  BY <1>1, <1>3, <1>5, Zenon DEF o

\* A plan of a range of Asia is one upside down.
LEMMA RangePlansTurn ==
    ASSUME NEW m, NEW n, Mates(m, n), NEW d \in Plans!Directions, NEW minutes,
           NEW p \in Plans!SessionRangeExpansion(m, d, minutes)
    PROVE  \E q \in Plans!SessionRangeExpansion(n, Plans!Opposite(d), minutes) : Turns(p, q)
<1> DEFINE o == Plans!Opposite(d)
           name == "session_range_expansion"
           buffer == (25 * Plans!ATR) \div 100
           stop(e, a) == Plans!StructuralStop(e, SweptEdge(e, a), SweptEdge(e, a), SweptEdge(e, a), buffer)
<1>1. PICK a \in Expanded(m, d, minutes) : p \in Plans!Plans(m, name, d, 0, stop(d, a))
  BY RangePlansAre
<1>2. a \in Plans!Kind(m, "asia")
  BY DEF Expanded
<1>3. PICK c \in Plans!Kind(n, "asia") : Reversed(a, c)
  BY <1>2, KindPairs
<1>4. Sound(a) /\ a.kind = "asia"
  BY <1>2, KindPairs
<1> DEFINE x == SweptEdge(d, a)
<1>5. /\ x \in Plans!Prices /\ SweptEdge(o, c) = 0 - x
      /\ Plans!AsiaTaken(m, d, a) => Plans!AsiaTaken(n, o, c)
  BY <1>3, <1>4, TakenTurns
<1>6. buffer \in Int /\ buffer = 10
  BY DEF Plans!ATR
<1>7. x \in Int /\ x - x <= 400
  BY <1>5, Reversals
<1> HIDE DEF x, buffer
<1>8. \E q \in Plans!Plans(n, name, Plans!Opposite(d), 0,
                           Plans!StructuralStop(Plans!Opposite(d), 0 - x, 0 - x, 0 - x, buffer)) : Turns(p, q)
  <2>1. p \in Plans!Plans(m, name, d, 0, Plans!StructuralStop(d, x, x, x, buffer))
    BY <1>1 DEF x
  <2>2. 0 <= buffer /\ buffer <= 10
    BY <1>6
  <2> HIDE DEF name
  <2> QED
    BY <1>5, <1>6, <1>7, <2>1, <2>2, BeyondTurns
<1>9. \E q \in Plans!Plans(n, name, o, 0, stop(o, c)) : Turns(p, q)
  BY <1>5, <1>8, Zenon
<1>10. c \in Expanded(n, o, minutes)
  <2>1. c.high = 0 - a.low /\ c.low = 0 - a.high /\ a.high \in Int /\ a.low \in Int
    BY <1>3, <1>4, Reversals DEF Sound, Reversed
  <2>2. c.high - c.low = a.high - a.low
    BY <2>1
  <2>3. \A r, e, z : z \in Expanded(r, e, minutes) <=>
          /\ z \in Plans!Kind(r, "asia") /\ minutes <= 240
          /\ 10 * (z.high - z.low) >= 8 * Plans!ATR /\ z.high - z.low <= 4 * Plans!ATR
          /\ Plans!AsiaTaken(r, e, z) /\ ~Plans!Conflicts(r, e, {"H4", "D1"})
          /\ (\E v \in Plans!ShiftOrBreak(r) : v.dir = e) /\ Plans!CorrectSide(r, e, 0, 15)
    BY DEF Expanded
  <2>4. ~Plans!Conflicts(n, o, {"H4", "D1"})
    BY <2>3, ConflictsTurn
  <2>5. Plans!CorrectSide(n, o, 0, 15)
    <3>1. Plans!CorrectSide(n, o, 0 - 0, 15)
      BY <2>3, HalfTurns
    <3> QED
      BY <3>1
  <2>6. \E v \in Plans!ShiftOrBreak(n) : v.dir = o
    BY <2>3, ShiftOrBreakTurns
  <2> HIDE DEF o
  <2> QED
    BY <1>3, <1>5, <2>2, <2>3, <2>4, <2>5, <2>6
<1>11. PICK q \in Plans!Plans(n, name, o, 0, stop(o, c)) : Turns(p, q)
  BY <1>9
<1> HIDE DEF o
<1>12. q \in Plans!SessionRangeExpansion(n, o, minutes)
  BY <1>10, <1>11, RangePlansAre DEF buffer
<1> QED
  BY <1>11, <1>12 DEF o

\* The plan of the reversions is that of the oldest sweep that gives one.
LEMMA ReversionPlansAre ==
    ASSUME NEW m, NEW p
    PROVE  p \in Plans!PdhPdlReversion(m) <=>
             \E s \in Plans!Rejected(m) :
               /\ p \in Plans!Reversion(m, s)
               /\ \A u \in Plans!Rejected(m) : Plans!Reversion(m, u) # {} => u.age <= s.age
BY DEF Plans!PdhPdlReversion

\* What is rejected in the one is rejected in the other, with the plans upside down.
LEMMA RejectedTurns ==
    ASSUME NEW m, NEW n, Mates(m, n), NEW s \in Plans!Rejected(m)
    PROVE  \E g \in Plans!Rejected(n) :
             /\ s.dir \in Plans!Directions /\ g.age = s.age
             /\ \A p \in Plans!Reversion(m, s) : \E q \in Plans!Reversion(n, g) : Turns(p, q)
<1>1. \A r, x : x \in Plans!Rejected(r) <=>
        /\ x \in Plans!Kind(r, "sweep") /\ x.period /\ x.age <= 8 /\ x.quality >= 55 /\ x.closed
        /\ \E e \in Plans!LastEvent(r) : e.dir = x.dir
  BY DEF Plans!Rejected
<1>2. s \in Plans!Kind(m, "sweep")
  BY <1>1
<1>3. PICK g \in Plans!Kind(n, "sweep") : Reversed(s, g)
  BY <1>2, KindPairs
<1>4. Sound(s) /\ s.kind = "sweep"
  BY <1>2, KindPairs
<1>5. /\ s.dir \in Plans!Directions /\ g.dir = Plans!Opposite(s.dir) /\ g.age = s.age /\ g.quality = s.quality
      /\ (g.period <=> s.period) /\ (g.closed <=> s.closed)
  BY <1>3, <1>4, Zenon DEF Sound, Reversed
<1>6. \E e \in Plans!LastEvent(n) : e.dir = g.dir
  <2>1. PICK f \in Plans!LastEvent(m) : f.dir = s.dir
    BY <1>1
  <2>2. PICK e \in Plans!LastEvent(n) : e.dir = Plans!Opposite(f.dir)
    <3>1. \A h \in Plans!LastEvent(m) :
            \E k \in Plans!LastEvent(n) :
              h.dir \in Plans!Directions /\ k.dir = Plans!Opposite(h.dir) /\ k.age = h.age
      BY LatestPairs
    <3> QED
      BY <2>1, <3>1, Zenon
  <2> QED
    BY <1>5, <2>1, <2>2
<1>7. g \in Plans!Rejected(n)
  <2>1. s.period /\ s.closed /\ s.age <= 8 /\ s.quality >= 55
    BY <1>1
  <2>2. g.period /\ g.closed
    BY <1>5, <2>1, Zenon
  <2>3. g.age <= 8 /\ g.quality >= 55
    BY <1>5, <2>1
  <2> QED
    BY <1>1, <1>3, <1>6, <2>2, <2>3, Zenon
<1> DEFINE buffer == (20 * Plans!ATR) \div 100
           x == Plans!SweepExtreme(s)
<1>8. buffer \in Int /\ 0 <= buffer /\ buffer <= 10
  BY DEF Plans!ATR
<1>9. \A r, y : Plans!Reversion(r, y) =
        Plans!Plans(r, "pdh_pdl_reversion", y.dir, 0,
                    Plans!StructuralStop(y.dir, Plans!SweepExtreme(y), Plans!SweepExtreme(y),
                                         Plans!SweepExtreme(y), buffer))
  BY DEF Plans!Reversion
<1>10. /\ s.pool \in Plans!Prices /\ x \in Int /\ x - s.pool <= 400 /\ s.pool - x <= 400
       /\ Plans!SweepExtreme(g) = 0 - x
  BY <1>3, <1>4, ExtremeTurns
<1> HIDE DEF buffer, x
<1>11. ASSUME NEW p \in Plans!Reversion(m, s)
       PROVE  \E q \in Plans!Reversion(n, g) : Turns(p, q)
  <2>1. p \in Plans!Plans(m, "pdh_pdl_reversion", s.dir, 0, Plans!StructuralStop(s.dir, x, x, x, buffer))
    BY <1>9 DEF x
  <2> DEFINE name == "pdh_pdl_reversion"
  <2>2. p \in Plans!Plans(m, name, s.dir, 0, Plans!StructuralStop(s.dir, x, x, x, buffer))
    BY <2>1
  <2> HIDE DEF name
  <2>3. \E q \in Plans!Plans(n, name, Plans!Opposite(s.dir), 0,
                             Plans!StructuralStop(Plans!Opposite(s.dir), 0 - x, 0 - x, 0 - x, buffer)) : Turns(p, q)
    BY <1>5, <1>8, <1>10, <2>2, BeyondTurns
  <2>4. Plans!Reversion(n, g) =
          Plans!Plans(n, name, Plans!Opposite(s.dir), 0,
                      Plans!StructuralStop(Plans!Opposite(s.dir), 0 - x, 0 - x, 0 - x, buffer))
    BY <1>5, <1>9, <1>10, Zenon DEF name
  <2> QED
    BY <2>3, <2>4
<1> QED
  BY <1>5, <1>7, <1>11

\* A plan of a reversion is one upside down.
LEMMA ReversionPlansTurn ==
    ASSUME NEW m, NEW n, Mates(m, n), NEW p \in Plans!PdhPdlReversion(m)
    PROVE  \E q \in Plans!PdhPdlReversion(n) : Turns(p, q)
<1>1. PICK s \in Plans!Rejected(m) :
        /\ p \in Plans!Reversion(m, s)
        /\ \A u \in Plans!Rejected(m) : Plans!Reversion(m, u) # {} => u.age <= s.age
  BY ReversionPlansAre
<1>2. PICK g \in Plans!Rejected(n) :
        /\ g.age = s.age
        /\ \A r \in Plans!Reversion(m, s) : \E q \in Plans!Reversion(n, g) : Turns(r, q)
  BY RejectedTurns
<1>3. PICK q \in Plans!Reversion(n, g) : Turns(p, q)
  BY <1>1, <1>2
<1>4. ASSUME NEW v \in Plans!Rejected(n), Plans!Reversion(n, v) # {}
      PROVE  v.age <= g.age
  <2>1. Mates(n, m)
    BY MatesBack
  <2>2. PICK u \in Plans!Rejected(m) :
          /\ u.age = v.age
          /\ \A r \in Plans!Reversion(n, v) : \E z \in Plans!Reversion(m, u) : Turns(r, z)
    BY <2>1, RejectedTurns
  <2>3. Plans!Reversion(m, u) # {}
    BY <1>4, <2>2
  <2> QED
    BY <1>1, <1>2, <2>2, <2>3
<1>5. q \in Plans!PdhPdlReversion(n)
  BY <1>2, <1>3, <1>4, ReversionPlansAre
<1> QED
  BY <1>3, <1>5

-----------------------------------------------------------------------------
(* All plans of an evaluation, upside down.                                *)

\* The conditions upside down are conditions, and turn back.
LEMMA ConditionsTurn ==
    ASSUME NEW c \in Plans!Settings, NEW e, e = Plans!MirrorConditions(c)
    PROVE  /\ c.lean \in {1, -1} /\ c.slope \in Int /\ c.adx \in Int /\ c.spread \in Nat /\ c.heat \in Nat
           /\ e \in Plans!Settings
           /\ e.enough = c.enough /\ e.heat = c.heat /\ e.adx = c.adx /\ e.spread = c.spread
           /\ e.lean = 0 - c.lean /\ e.slope = 0 - c.slope
           /\ e.session = c.session /\ e.minutes = c.minutes
<1>1. e = [c EXCEPT !.lean = 0 - @, !.slope = 0 - @]
  BY DEF Plans!MirrorConditions
<1>2. c.lean \in {1, -1} /\ c.slope \in Int /\ c.adx \in Int /\ c.spread \in Nat /\ c.heat \in Nat
  BY DEF Plans!Settings
<1>3. /\ e.enough = c.enough /\ e.heat = c.heat /\ e.adx = c.adx /\ e.spread = c.spread
      /\ e.lean = 0 - c.lean /\ e.slope = 0 - c.slope
      /\ e.session = c.session /\ e.minutes = c.minutes
  BY <1>1 DEF Plans!Settings
<1>4. 0 - c.lean \in {1, -1} /\ 0 - c.slope \in Int
  BY <1>2
<1>5. e \in Plans!Settings
  BY <1>1, <1>4 DEF Plans!Settings
<1> QED
  BY <1>2, <1>3, <1>5

\* Conditions turn back.
LEMMA ConditionsBack ==
    ASSUME NEW c \in Plans!Settings
    PROVE  LET e == Plans!MirrorConditions(c) IN e \in Plans!Settings /\ Plans!MirrorConditions(e) = c
<1> DEFINE e == Plans!MirrorConditions(c)
           f == Plans!MirrorConditions(e)
<1>1. e = Plans!MirrorConditions(c) /\ f = Plans!MirrorConditions(e)
  OBVIOUS
<1> HIDE DEF e, f
<1>2. /\ c.lean \in {1, -1} /\ c.slope \in Int /\ e \in Plans!Settings
      /\ e.enough = c.enough /\ e.heat = c.heat /\ e.adx = c.adx /\ e.spread = c.spread
      /\ e.lean = 0 - c.lean /\ e.slope = 0 - c.slope
      /\ e.session = c.session /\ e.minutes = c.minutes
  BY <1>1, ConditionsTurn
<1>3. /\ f.enough = e.enough /\ f.heat = e.heat /\ f.adx = e.adx /\ f.spread = e.spread
      /\ f.lean = 0 - e.lean /\ f.slope = 0 - e.slope
      /\ f.session = e.session /\ f.minutes = e.minutes /\ f \in Plans!Settings
  BY <1>1, <1>2, ConditionsTurn
<1>4. f.lean = c.lean /\ f.slope = c.slope
  BY <1>2, <1>3
<1>5. \A x, y \in Plans!Settings :
        /\ x.enough = y.enough /\ x.heat = y.heat /\ x.adx = y.adx /\ x.spread = y.spread
        /\ x.lean = y.lean /\ x.slope = y.slope /\ x.session = y.session /\ x.minutes = y.minutes
        => x = y
  BY DEF Plans!Settings
<1> QED
  BY <1>1, <1>2, <1>3, <1>4, <1>5 DEF e, f

\* A strategy is traded in a regime and in the one upside down.
LEMMA AllowedAlike ==
    ASSUME NEW c \in Plans!Settings,
           NEW name \in {"sweep_mss_fvg", "sweep_mss_ob", "session_range_expansion", "pdh_pdl_reversion"},
           Plans!Allowed(name, c)
    PROVE  Plans!Allowed(name, Plans!MirrorConditions(c))
<1> DEFINE e == Plans!MirrorConditions(c)
<1>1. e = Plans!MirrorConditions(c)
  OBVIOUS
<1> HIDE DEF e
<1>2. /\ c.lean \in {1, -1} /\ c.slope \in Int /\ c.adx \in Int
      /\ e.enough = c.enough /\ e.heat = c.heat /\ e.adx = c.adx /\ e.spread = c.spread
      /\ e.lean = 0 - c.lean /\ e.slope = 0 - c.slope /\ e.session = c.session
  BY <1>1, ConditionsTurn
<1>3. Plans!Abnormal(e) <=> Plans!Abnormal(c)
  BY <1>2, Zenon DEF Plans!Abnormal
<1>4. Plans!Directional(e) <=> Plans!Directional(c)
  BY <1>2 DEF Plans!Directional
<1>5. e.lean = 1 <=> c.lean # 1
  BY <1>2
<1>6. /\ Plans!Regime(c) = "ABNORMAL" => Plans!Regime(e) = "ABNORMAL"
      /\ Plans!Regime(c) = "RANGE" => Plans!Regime(e) = "RANGE"
      /\ Plans!Regime(c) \in Plans!Trends => Plans!Regime(e) \in Plans!Trends
      /\ Plans!Regime(c) \in {"ABNORMAL", "RANGE"} \cup Plans!Trends
  BY <1>2, <1>3, <1>4, <1>5 DEF Plans!Regime, Plans!Trends
<1>7. Plans!Regimes(name) \in {Plans!Trends \cup {"RANGE"}, Plans!Trends, {"RANGE"}}
  BY DEF Plans!Regimes
<1>8. Plans!Regime(e) \in Plans!Regimes(name)
  <2>1. Plans!Regime(c) \in Plans!Regimes(name)
    BY DEF Plans!Allowed
  <2>2. "RANGE" \notin Plans!Trends /\ "ABNORMAL" \notin Plans!Trends
    BY DEF Plans!Trends
  <2> QED
    BY <1>6, <1>7, <2>1, <2>2
<1>9. name \in SetupStrategies /\ e.session \in Plans!Sessions(name)
  BY <1>2, Zenon DEF Plans!Allowed
<1> QED
  BY <1>1, <1>8, <1>9, Zenon DEF Plans!Allowed

\* A plan is one of the strategies that are traded.
LEMMA DetectedAre ==
    ASSUME NEW m, NEW c, NEW p
    PROVE  p \in Plans!Detected(m, c) <=>
             \/ Plans!Allowed("sweep_mss_fvg", c) /\ \E d \in Plans!Directions : p \in Plans!SweepMssFvg(m, d)
             \/ Plans!Allowed("sweep_mss_ob", c) /\ \E d \in Plans!Directions : p \in Plans!SweepMssOb(m, d)
             \/ /\ Plans!Allowed("session_range_expansion", c)
                /\ \E d \in Plans!Directions : p \in Plans!SessionRangeExpansion(m, d, c.minutes)
             \/ Plans!Allowed("pdh_pdl_reversion", c) /\ p \in Plans!PdhPdlReversion(m)
<1> DEFINE A == UNION {Plans!SweepMssFvg(m, d) : d \in Plans!Directions}
           B == UNION {Plans!SweepMssOb(m, d) : d \in Plans!Directions}
           C == UNION {Plans!SessionRangeExpansion(m, d, c.minutes) : d \in Plans!Directions}
           D == Plans!PdhPdlReversion(m)
           K == IF Plans!Allowed("sweep_mss_fvg", c) THEN A ELSE {}
           L == IF Plans!Allowed("sweep_mss_ob", c) THEN B ELSE {}
           M == IF Plans!Allowed("session_range_expansion", c) THEN C ELSE {}
           N == IF Plans!Allowed("pdh_pdl_reversion", c) THEN D ELSE {}
<1>1. Plans!Detected(m, c) = K \cup L \cup M \cup N
  BY Zenon DEF Plans!Detected
<1>2. /\ p \in A <=> \E d \in Plans!Directions : p \in Plans!SweepMssFvg(m, d)
      /\ p \in B <=> \E d \in Plans!Directions : p \in Plans!SweepMssOb(m, d)
      /\ p \in C <=> \E d \in Plans!Directions : p \in Plans!SessionRangeExpansion(m, d, c.minutes)
  OBVIOUS
<1> HIDE DEF A, B, C
<1>3. /\ p \in K <=> Plans!Allowed("sweep_mss_fvg", c) /\ p \in A
      /\ p \in L <=> Plans!Allowed("sweep_mss_ob", c) /\ p \in B
      /\ p \in M <=> Plans!Allowed("session_range_expansion", c) /\ p \in C
      /\ p \in N <=> Plans!Allowed("pdh_pdl_reversion", c) /\ p \in D
  OBVIOUS
<1> HIDE DEF K, L, M, N
<1>4. p \in Plans!Detected(m, c) <=> p \in K \/ p \in L \/ p \in M \/ p \in N
  BY <1>1
<1> QED
  BY <1>2, <1>3, <1>4, Zenon DEF D

\* A plan that is detected is detected upside down.
LEMMA DetectedTurns ==
    ASSUME NEW m, NEW n, Mates(m, n), NEW c \in Plans!Settings, NEW p \in Plans!Detected(m, c)
    PROVE  \E q \in Plans!Detected(n, Plans!MirrorConditions(c)) : Turns(p, q)
<1> DEFINE e == Plans!MirrorConditions(c)
<1>1. e.minutes = c.minutes
  BY ConditionsTurn
<1>2. \A d \in Plans!Directions : Plans!Opposite(d) \in Plans!Directions
  BY Sides
<1>3. \A name \in {"sweep_mss_fvg", "sweep_mss_ob", "session_range_expansion", "pdh_pdl_reversion"} :
        Plans!Allowed(name, c) => Plans!Allowed(name, e)
  BY AllowedAlike
<1> HIDE DEF e
<1>4. CASE Plans!Allowed("sweep_mss_fvg", c) /\ \E d \in Plans!Directions : p \in Plans!SweepMssFvg(m, d)
  <2>1. PICK d \in Plans!Directions : p \in Plans!SweepMssFvg(m, d)
    BY <1>4
  <2>2. PICK q \in Plans!SweepMssFvg(n, Plans!Opposite(d)) : Turns(p, q)
    BY <2>1, GapPlansTurn
  <2>3. Plans!Allowed("sweep_mss_fvg", e)
    BY <1>3, <1>4
  <2>4. q \in Plans!Detected(n, e)
    BY <1>2, <2>2, <2>3, DetectedAre
  <2> QED
    BY <2>2, <2>4 DEF e
<1>5. CASE Plans!Allowed("sweep_mss_ob", c) /\ \E d \in Plans!Directions : p \in Plans!SweepMssOb(m, d)
  <2>1. PICK d \in Plans!Directions : p \in Plans!SweepMssOb(m, d)
    BY <1>5
  <2>2. PICK q \in Plans!SweepMssOb(n, Plans!Opposite(d)) : Turns(p, q)
    BY <2>1, BlockPlansTurn
  <2>3. Plans!Allowed("sweep_mss_ob", e)
    BY <1>3, <1>5
  <2>4. q \in Plans!Detected(n, e)
    BY <1>2, <2>2, <2>3, DetectedAre
  <2> QED
    BY <2>2, <2>4 DEF e
<1>6. CASE /\ Plans!Allowed("session_range_expansion", c)
           /\ \E d \in Plans!Directions : p \in Plans!SessionRangeExpansion(m, d, c.minutes)
  <2>1. PICK d \in Plans!Directions : p \in Plans!SessionRangeExpansion(m, d, c.minutes)
    BY <1>6
  <2>2. PICK q \in Plans!SessionRangeExpansion(n, Plans!Opposite(d), c.minutes) : Turns(p, q)
    BY <2>1, RangePlansTurn
  <2>3. Plans!Allowed("session_range_expansion", e)
    BY <1>3, <1>6
  <2>4. q \in Plans!Detected(n, e)
    BY <1>1, <1>2, <2>2, <2>3, DetectedAre
  <2> QED
    BY <2>2, <2>4 DEF e
<1>7. CASE Plans!Allowed("pdh_pdl_reversion", c) /\ p \in Plans!PdhPdlReversion(m)
  <2>1. PICK q \in Plans!PdhPdlReversion(n) : Turns(p, q)
    BY <1>7, ReversionPlansTurn
  <2>2. Plans!Allowed("pdh_pdl_reversion", e)
    BY <1>3, <1>7
  <2>3. q \in Plans!Detected(n, e)
    BY <2>1, <2>2, DetectedAre
  <2> QED
    BY <2>1, <2>3 DEF e
<1> QED
  BY <1>4, <1>5, <1>6, <1>7, DetectedAre

\* Of mates, the plans of the one are those of the other upside down.
LEMMA MatesAgree ==
    ASSUME NEW m, NEW n, Mates(m, n), NEW c \in Plans!Settings
    PROVE  Plans!Detected(n, Plans!MirrorConditions(c)) = Plans!Mirrored(Plans!Detected(m, c))
<1> DEFINE e == Plans!MirrorConditions(c)
           A == Plans!Detected(m, c)
           B == Plans!Detected(n, e)
<1>1. \A t : t \in Plans!Mirrored(A) <=> \E s \in A : t = Plans!MirrorOf(s)
  BY DEF Plans!Mirrored
<1>2. e \in Plans!Settings /\ Plans!MirrorConditions(e) = c /\ Mates(n, m)
  BY ConditionsBack, MatesBack
<1>3. \A p \in A : \E q \in B : Turns(p, q)
  BY DetectedTurns
<1>4. \A q \in B : \E p \in A : Turns(q, p)
  <2> HIDE DEF e
  <2>1. \A q \in Plans!Detected(n, e) : \E p \in Plans!Detected(m, Plans!MirrorConditions(e)) : Turns(q, p)
    BY <1>2, DetectedTurns
  <2> QED
    BY <1>2, <2>1
<1> HIDE DEF A, B
<1>5. ASSUME NEW t \in B PROVE t \in Plans!Mirrored(A)
  <2>1. PICK p \in A : Turns(t, p)
    BY <1>4
  <2> QED
    BY <1>1, <2>1 DEF Turns
<1>6. ASSUME NEW t \in Plans!Mirrored(A) PROVE t \in B
  <2>1. PICK p \in A : t = Plans!MirrorOf(p)
    BY <1>1
  <2>2. PICK q \in B : Turns(p, q)
    BY <1>3
  <2> QED
    BY <2>1, <2>2 DEF Turns
<1>7. B = Plans!Mirrored(A)
  BY <1>5, <1>6
<1> QED
  BY <1>7 DEF A, B, e

-----------------------------------------------------------------------------
(* The evidence of a plan.                                                 *)

\* The events of one bar go one way.
OneWay(m) == \A x, y \in Events(m) : x.age = y.age => x.dir = y.dir

\* Two markets that show a direction the same evidence.
Alike(m, r, d) ==
    /\ Plans!Facing(r, "sweep", d) = Plans!Facing(m, "sweep", d)
    /\ \A k \in {"gap", "block"} : {z \in Plans!Facing(r, k, d) : z.tradable} = {z \in Plans!Facing(m, k, d) : z.tradable}
    /\ \A k \in {"mss", "bos", "choch", "level", "asia", "range", "bias"} : Plans!Kind(r, k) = Plans!Kind(m, k)
    /\ {x \in Plans!Kind(r, "pool") : x.resting} = {x \in Plans!Kind(m, "pool") : x.resting}

\* Without what is no evidence a market shows the same.
LEMMA WithoutNone ==
    ASSUME NEW m, NEW d, NEW f \in m, Plans!NoEvidence(f, d)
    PROVE  Alike(m, m \ {f}, d) /\ Alike(m \ {f}, m, d)
<1> DEFINE r == m \ {f}
<1>1. \A x : x \in r <=> x \in m /\ x # f
  OBVIOUS
<1> HIDE DEF r
<1>2. \A q, k, x : x \in Plans!Kind(q, k) <=> x \in q /\ x.kind = k
  BY DEF Plans!Kind
<1>3. \A q, k, x : x \in Plans!Facing(q, k, d) <=> x \in q /\ x.kind = k /\ x.dir = d
  BY <1>2 DEF Plans!Facing
<1>4. \/ f.kind = "sweep" /\ f.dir # d
      \/ f.kind \in {"gap", "block"} /\ (f.dir # d \/ ~f.tradable)
      \/ f.kind = "pool" /\ ~f.resting
  BY Zenon DEF Plans!NoEvidence
<1>5. Plans!Facing(r, "sweep", d) = Plans!Facing(m, "sweep", d)
  <2>1. \A x : x \in Plans!Facing(r, "sweep", d) <=> x \in Plans!Facing(m, "sweep", d)
    BY <1>1, <1>3, <1>4
  <2> QED
    BY <2>1
<1>6. ASSUME NEW k \in {"gap", "block"}
      PROVE  {z \in Plans!Facing(r, k, d) : z.tradable} = {z \in Plans!Facing(m, k, d) : z.tradable}
  <2>1. ~(f \in Plans!Facing(m, k, d) /\ f.tradable)
    <3>1. f.kind = k /\ f.dir = d /\ f.tradable => FALSE
      BY <1>4
    <3> QED
      BY <1>3, <3>1
  <2>2. \A x : x \in Plans!Facing(r, k, d) <=> x \in Plans!Facing(m, k, d) /\ x # f
    BY <1>1, <1>3
  <2> QED
    BY <2>1, <2>2
<1>7. ASSUME NEW k \in {"mss", "bos", "choch", "level", "asia", "range", "bias"}
      PROVE  Plans!Kind(r, k) = Plans!Kind(m, k)
  <2>1. f.kind # k
    BY <1>4
  <2>2. \A x : x \in Plans!Kind(r, k) <=> x \in Plans!Kind(m, k)
    BY <1>1, <1>2, <2>1
  <2> QED
    BY <2>2
<1>8. {x \in Plans!Kind(r, "pool") : x.resting} = {x \in Plans!Kind(m, "pool") : x.resting}
  <2>1. ~(f \in Plans!Kind(m, "pool") /\ f.resting)
    BY <1>2, <1>4
  <2>2. \A x : x \in Plans!Kind(r, "pool") <=> x \in Plans!Kind(m, "pool") /\ x # f
    BY <1>1, <1>2
  <2> QED
    BY <2>1, <2>2
<1>9. Alike(m, r, d) /\ Alike(r, m, d)
  BY <1>5, <1>6, <1>7, <1>8 DEF Alike
<1> QED
  BY <1>9 DEF r

\* Where the evidence is alike the targets are the same, and so is a plan at an entry.
LEMMA PlansAlike ==
    ASSUME NEW m, NEW r, NEW d, Alike(m, r, d), NEW name, NEW e, NEW b, NEW stop
    PROVE  Plans!Plans(r, name, e, b, stop) = Plans!Plans(m, name, e, b, stop)
<1>1. Plans!Kind(r, "level") = Plans!Kind(m, "level")
  BY DEF Alike
<1>2. {x \in Plans!Kind(r, "pool") : x.resting} = {x \in Plans!Kind(m, "pool") : x.resting}
  BY DEF Alike
<1>3. Plans!Candidates(r) = Plans!Candidates(m)
  BY <1>1, <1>2, Zenon DEF Plans!Candidates
<1>4. \A p : Plans!Blocked(r, e, b, p) <=> Plans!Blocked(m, e, b, p)
  BY <1>1, Zenon DEF Plans!Blocked
<1>5. Plans!Viable(r, e, b, stop) = Plans!Viable(m, e, b, stop)
  <2>1. \A q, z : z \in Plans!Viable(q, e, b, stop) <=>
          /\ z \in Plans!Candidates(q) /\ Plans!Ahead(e, b, z)
          /\ Plans!Away(z, b) >= 2 * Plans!Away(stop, b) /\ ~Plans!Blocked(q, e, b, z)
    BY DEF Plans!Viable
  <2>2. \A z : z \in Plans!Viable(r, e, b, stop) <=> z \in Plans!Viable(m, e, b, stop)
    BY <1>3, <1>4, <2>1, Zenon
  <2> QED
    BY <2>2
<1>6. Plans!Targets(r, e, b, stop) = Plans!Targets(m, e, b, stop)
  <2>1. Preferred(r, e, b, stop) = Preferred(m, e, b, stop)
    BY <1>5, Zenon DEF Preferred
  <2>2. Chosen(r, e, b, stop) = Chosen(m, e, b, stop)
    BY <1>5, <2>1, Zenon DEF Chosen
  <2>3. \A t : t \in Plans!Targets(r, e, b, stop) <=> t \in Plans!Targets(m, e, b, stop)
    BY <1>5, <2>2, TargetsAre
  <2> QED
    BY <2>3
<1> QED
  BY <1>6, Zenon DEF Plans!Plans

\* So is an entry into a zone, and the chain that leads to it.
LEMMA ChainsAlike ==
    ASSUME NEW m, NEW r, NEW d, Alike(m, r, d)
    PROVE  /\ Plans!Chains(r, d) = Plans!Chains(m, d)
           /\ \A name, s, z, b : Plans!Entered(r, name, d, s, z, b) = Plans!Entered(m, name, d, s, z, b)
<1>1. Plans!Facing(r, "sweep", d) = Plans!Facing(m, "sweep", d)
  BY DEF Alike
<1>2. /\ Plans!Kind(r, "mss") = Plans!Kind(m, "mss") /\ Plans!Kind(r, "bias") = Plans!Kind(m, "bias")
      /\ Plans!Kind(r, "range") = Plans!Kind(m, "range")
  BY DEF Alike
<1>3. Plans!RecentSweep(r, d) = Plans!RecentSweep(m, d)
  BY <1>1, Zenon DEF Plans!RecentSweep
<1>4. \A frames : Plans!Conflicts(r, d, frames) <=> Plans!Conflicts(m, d, frames)
  BY <1>2, Zenon DEF Plans!Conflicts
<1>5. Plans!LastShift(r) = Plans!LastShift(m)
  BY <1>2, Zenon DEF Plans!LastShift
<1>6. Plans!Chains(r, d) = Plans!Chains(m, d)
  <2>1. \A q, x : x \in Plans!Chains(q, d) <=>
          /\ x \in Plans!RecentSweep(q, d) /\ ~Plans!Conflicts(q, d, {"H4", "D1", "W1", "MN1"})
          /\ x.after >= 50 /\ \E y \in Plans!LastShift(q) : y.dir = d /\ y.age <= x.age
    BY DEF Plans!Chains
  <2>2. \A x : x \in Plans!Chains(r, d) <=> x \in Plans!Chains(m, d)
    BY <1>3, <1>4, <1>5, <2>1, Zenon
  <2> QED
    BY <2>2
<1>7. ASSUME NEW name, NEW s, NEW z, NEW b
      PROVE  Plans!Entered(r, name, d, s, z, b) = Plans!Entered(m, name, d, s, z, b)
  <2>1. Plans!CorrectSide(r, d, b, 10) <=> Plans!CorrectSide(m, d, b, 10)
    BY <1>2, Zenon DEF Plans!CorrectSide
  <2> DEFINE stop == Plans!StructuralStop(d, z.top, z.bottom, Plans!SweepExtreme(s), (15 * Plans!ATR) \div 100)
  <2>2. Plans!Plans(r, name, d, b, stop) = Plans!Plans(m, name, d, b, stop)
    BY PlansAlike
  <2>3. \A q : Plans!Entered(q, name, d, s, z, b) =
          IF Plans!Away(b, 0) <= 4 * Plans!ATR /\ Plans!CorrectSide(q, d, b, 10)
          THEN Plans!Plans(q, name, d, b, stop) ELSE {}
    BY Zenon DEF Plans!Entered
  <2> HIDE DEF stop
  <2> QED
    BY <2>1, <2>2, <2>3
<1> QED
  BY <1>6, <1>7

\* Then the plans into the gaps, the blocks and the ranges are the same.
LEMMA StrategiesAlike ==
    ASSUME NEW m, NEW r, NEW d, Alike(m, r, d)
    PROVE  /\ \A p : p \in Plans!SweepMssFvg(m, d) => p \in Plans!SweepMssFvg(r, d)
           /\ \A p : p \in Plans!SweepMssOb(m, d) => p \in Plans!SweepMssOb(r, d)
           /\ \A minutes, p : p \in Plans!SessionRangeExpansion(m, d, minutes)
                                => p \in Plans!SessionRangeExpansion(r, d, minutes)
<1>1. /\ Plans!Chains(r, d) = Plans!Chains(m, d)
      /\ \A name, s, z, b : Plans!Entered(r, name, d, s, z, b) = Plans!Entered(m, name, d, s, z, b)
  BY ChainsAlike
<1>2. \A k \in {"gap", "block"} : \A z : z.tradable => (z \in Plans!Facing(r, k, d) <=> z \in Plans!Facing(m, k, d))
  <2> SUFFICES ASSUME NEW k \in {"gap", "block"}, NEW z, z.tradable
               PROVE  z \in Plans!Facing(r, k, d) <=> z \in Plans!Facing(m, k, d)
    BY Zenon
  <2>1. {x \in Plans!Facing(r, k, d) : x.tradable} = {x \in Plans!Facing(m, k, d) : x.tradable}
    BY DEF Alike
  <2>2. \A q : z \in {x \in Plans!Facing(q, k, d) : x.tradable} <=> z \in Plans!Facing(q, k, d)
    OBVIOUS
  <2> QED
    BY <2>1, <2>2, Zenon
<1>3. \A age : LeftGaps(r, d, age) = LeftGaps(m, d, age)
  <2> SUFFICES ASSUME NEW age PROVE LeftGaps(r, d, age) = LeftGaps(m, d, age)
    OBVIOUS
  <2>1. \A q, z : z \in LeftGaps(q, d, age) <=>
          z \in Plans!Facing(q, "gap", d) /\ z.tradable /\ z.age <= age /\ z.size >= 50
    BY DEF LeftGaps
  <2>2. \A z : z \in LeftGaps(r, d, age) <=> z \in LeftGaps(m, d, age)
    BY <1>2, <2>1, Zenon
  <2> QED
    BY <2>2
<1>4. Plans!EntryBlock(r, d) = Plans!EntryBlock(m, d)
  <2>1. \A z : z \in Plans!Facing(r, "block", d) /\ z.tradable <=> z \in Plans!Facing(m, "block", d) /\ z.tradable
    BY <1>2, Zenon
  <2>2. /\ {b \in Plans!Facing(r, "block", d) : b.tradable /\ b.caused}
             = {b \in Plans!Facing(m, "block", d) : b.tradable /\ b.caused}
        /\ {b \in Plans!Facing(r, "block", d) : b.tradable /\ b.breaker}
             = {b \in Plans!Facing(m, "block", d) : b.tradable /\ b.breaker}
    BY <2>1
  <2>3. (\E b \in Plans!Facing(r, "block", d) : b.tradable /\ b.caused)
          <=> \E b \in Plans!Facing(m, "block", d) : b.tradable /\ b.caused
    BY <2>1, Zenon
  <2>4. Entries(r, d) = Entries(m, d)
    BY <2>2, <2>3, Zenon DEF Entries
  <2> QED
    BY <2>4, BlockPlansAre
<1>5. \A p : p \in Plans!SweepMssFvg(m, d) => p \in Plans!SweepMssFvg(r, d)
  BY <1>1, <1>3, GapPlansAre
<1>6. \A p : p \in Plans!SweepMssOb(m, d) => p \in Plans!SweepMssOb(r, d)
  BY <1>1, <1>4, BlockPlansAre
<1>7. ASSUME NEW minutes, NEW p \in Plans!SessionRangeExpansion(m, d, minutes)
      PROVE  p \in Plans!SessionRangeExpansion(r, d, minutes)
  <2>1. /\ Plans!Kind(r, "asia") = Plans!Kind(m, "asia") /\ Plans!Kind(r, "bias") = Plans!Kind(m, "bias")
        /\ Plans!Kind(r, "mss") = Plans!Kind(m, "mss") /\ Plans!Kind(r, "bos") = Plans!Kind(m, "bos")
        /\ Plans!Kind(r, "range") = Plans!Kind(m, "range")
        /\ Plans!Facing(r, "sweep", d) = Plans!Facing(m, "sweep", d)
    BY DEF Alike
  <2>2. \A a : Plans!AsiaTaken(r, d, a) <=> Plans!AsiaTaken(m, d, a)
    BY <2>1, Zenon DEF Plans!AsiaTaken
  <2>3. Plans!Conflicts(r, d, {"H4", "D1"}) <=> Plans!Conflicts(m, d, {"H4", "D1"})
    BY <2>1, Zenon DEF Plans!Conflicts
  <2>4. Plans!ShiftOrBreak(r) = Plans!ShiftOrBreak(m)
    BY <2>1, Zenon DEF Plans!ShiftOrBreak, Plans!LastShift
  <2>5. Plans!CorrectSide(r, d, 0, 15) <=> Plans!CorrectSide(m, d, 0, 15)
    BY <2>1, Zenon DEF Plans!CorrectSide
  <2>6. \A a : a \in Expanded(m, d, minutes) => a \in Expanded(r, d, minutes)
    <3>1. \A q, z : z \in Expanded(q, d, minutes) <=>
            /\ z \in Plans!Kind(q, "asia") /\ minutes <= 240
            /\ 10 * (z.high - z.low) >= 8 * Plans!ATR /\ z.high - z.low <= 4 * Plans!ATR
            /\ Plans!AsiaTaken(q, d, z) /\ ~Plans!Conflicts(q, d, {"H4", "D1"})
            /\ (\E v \in Plans!ShiftOrBreak(q) : v.dir = d) /\ Plans!CorrectSide(q, d, 0, 15)
      BY DEF Expanded
    <3> QED
      BY <2>1, <2>2, <2>3, <2>4, <2>5, <3>1, Zenon
  <2> DEFINE name == "session_range_expansion"
             stop(a) == Plans!StructuralStop(d, SweptEdge(d, a), SweptEdge(d, a), SweptEdge(d, a),
                                             (25 * Plans!ATR) \div 100)
  <2>7. \A q : p \in Plans!SessionRangeExpansion(q, d, minutes) <=>
                 \E a \in Expanded(q, d, minutes) : p \in Plans!Plans(q, name, d, 0, stop(a))
    BY RangePlansAre
  <2>8. \A a : Plans!Plans(r, name, d, 0, stop(a)) = Plans!Plans(m, name, d, 0, stop(a))
    BY PlansAlike
  <2> HIDE DEF name, stop
  <2> QED
    BY <1>7, <2>6, <2>7, <2>8, Zenon
<1> QED
  BY <1>5, <1>6, <1>7

\* The plan at an entry has the direction that was asked.
LEMMA PlansFace ==
    ASSUME NEW m, NEW name, NEW d, NEW b, NEW stop, NEW p \in Plans!Plans(m, name, d, b, stop)
    PROVE  p.dir = d
BY DEF Plans!Plans

\* So have the plans of the strategies.
LEMMA StrategiesFace ==
    ASSUME NEW m, NEW d, NEW minutes, NEW p,
           \/ p \in Plans!SweepMssFvg(m, d) \/ p \in Plans!SweepMssOb(m, d)
           \/ p \in Plans!SessionRangeExpansion(m, d, minutes)
    PROVE  p.dir = d
<1>1. \A name, s, z, b : p \in Plans!Entered(m, name, d, s, z, b) => p.dir = d
  BY PlansFace DEF Plans!Entered
<1>2. CASE p \in Plans!SweepMssFvg(m, d)
  BY <1>1, <1>2, GapPlansAre
<1>3. CASE p \in Plans!SweepMssOb(m, d)
  BY <1>1, <1>3, BlockPlansAre
<1>4. CASE p \in Plans!SessionRangeExpansion(m, d, minutes)
  BY <1>4, RangePlansAre, PlansFace
<1> QED
  BY <1>2, <1>3, <1>4

\* The last events of the structure go one way.
LEMMA LatestOneWay ==
    ASSUME NEW m, \A f \in m : Sound(f), OneWay(m)
    PROVE  \A x, y \in Plans!LastEvent(m) : x.dir = y.dir
<1> SUFFICES ASSUME NEW x \in Plans!LastEvent(m), NEW y \in Plans!LastEvent(m)
             PROVE  x.dir = y.dir
  OBVIOUS
<1>1. x \in Events(m) /\ y \in Events(m) /\ x.age <= y.age /\ y.age <= x.age
  BY DEF Plans!LastEvent, Plans!EventKinds, Plans!Latest, Events
<1>2. x.age \in Int /\ y.age \in Int
  BY <1>1 DEF Events, Sound
<1>3. x.age = y.age
  BY <1>1, <1>2
<1> QED
  BY <1>1, <1>3 DEF OneWay

\* The reversion of a direction is not lost to a sweep of the other side: what is
\* rejected faces one way, that of the last event.
LEMMA ReversionAlike ==
    ASSUME NEW m, NEW r, NEW d, Alike(m, r, d), \A f \in r : Sound(f), OneWay(r),
           NEW p \in Plans!PdhPdlReversion(m), p.dir = d
    PROVE  p \in Plans!PdhPdlReversion(r)
<1>1. \A q, x : x \in Plans!Rejected(q) <=>
        /\ x \in Plans!Kind(q, "sweep") /\ x.period /\ x.age <= 8 /\ x.quality >= 55 /\ x.closed
        /\ \E e \in Plans!LastEvent(q) : e.dir = x.dir
  BY DEF Plans!Rejected
<1>2. Events(r) = Events(m) /\ Plans!Facing(r, "sweep", d) = Plans!Facing(m, "sweep", d)
  <2>1. \A k \in {"mss", "bos", "choch"} : Plans!Kind(r, k) = Plans!Kind(m, k)
    BY DEF Alike
  <2>2. \A q, x : x \in Events(q) <=>
          x \in Plans!Kind(q, "mss") \/ x \in Plans!Kind(q, "bos") \/ x \in Plans!Kind(q, "choch")
    BY DEF Events, Plans!Kind
  <2>3. \A x : x \in Events(r) <=> x \in Events(m)
    BY <2>1, <2>2
  <2>4. Events(r) = Events(m)
    BY <2>3 DEF Events
  <2> QED
    BY <2>4 DEF Alike
<1>3. \A x : x.dir = d => (x \in Plans!Kind(r, "sweep") <=> x \in Plans!Kind(m, "sweep"))
  <2>1. \A q, x : x \in Plans!Facing(q, "sweep", d) <=> x \in Plans!Kind(q, "sweep") /\ x.dir = d
    BY DEF Plans!Facing
  <2> QED
    BY <1>2, <2>1, Zenon
<1>4. \A x : x.dir = d => (x \in Plans!Rejected(r) <=> x \in Plans!Rejected(m))
  <2> SUFFICES ASSUME NEW x, x.dir = d PROVE x \in Plans!Rejected(r) <=> x \in Plans!Rejected(m)
    OBVIOUS
  <2>1. x \in Plans!Kind(r, "sweep") <=> x \in Plans!Kind(m, "sweep")
    BY <1>3
  <2>2. Plans!LastEvent(r) = Plans!LastEvent(m)
    BY <1>2 DEF Plans!LastEvent, Plans!EventKinds, Events
  <2>3. \A q : x \in Plans!Rejected(q) <=>
          /\ x \in Plans!Kind(q, "sweep") /\ x.period /\ x.age <= 8 /\ x.quality >= 55 /\ x.closed
          /\ \E e \in Plans!LastEvent(q) : e.dir = x.dir
    BY <1>1
  <2> QED
    BY <2>1, <2>2, <2>3, Zenon
<1>5. \A x : Plans!Reversion(r, x) = Plans!Reversion(m, x)
  BY PlansAlike DEF Plans!Reversion
<1>6. PICK s \in Plans!Rejected(m) :
        /\ p \in Plans!Reversion(m, s)
        /\ \A u \in Plans!Rejected(m) : Plans!Reversion(m, u) # {} => u.age <= s.age
  BY ReversionPlansAre
<1>7. s.dir = d
  BY <1>6, PlansFace DEF Plans!Reversion
<1>8. s \in Plans!Rejected(r)
  BY <1>4, <1>7
<1>9. \A u \in Plans!Rejected(r) : u.dir = d
  <2>1. \A x, y \in Plans!LastEvent(r) : x.dir = y.dir
    BY LatestOneWay
  <2>2. PICK y \in Plans!LastEvent(r) : y.dir = d
    BY <1>1, <1>7, <1>8
  <2> QED
    BY <1>1, <2>1, <2>2
<1>10. \A u \in Plans!Rejected(r) : Plans!Reversion(r, u) # {} => u.age <= s.age
  BY <1>4, <1>5, <1>6, <1>9
<1> QED
  BY <1>5, <1>6, <1>8, <1>10, ReversionPlansAre

\* Where the evidence is alike, so are the plans.
LEMMA DetectedAlike ==
    ASSUME NEW m, NEW r, NEW d, Alike(m, r, d), \A f \in r : Sound(f), OneWay(r), NEW c,
           NEW p \in Plans!Detected(m, c), p.dir = d
    PROVE  p \in Plans!Detected(r, c)
<1>1. ASSUME NEW e, \/ p \in Plans!SweepMssFvg(m, e) \/ p \in Plans!SweepMssOb(m, e)
                    \/ p \in Plans!SessionRangeExpansion(m, e, c.minutes)
      PROVE  e = d
  BY <1>1, StrategiesFace
<1>2. p \in Plans!PdhPdlReversion(m) => p \in Plans!PdhPdlReversion(r)
  BY ReversionAlike
<1>3. /\ p \in Plans!SweepMssFvg(m, d) => p \in Plans!SweepMssFvg(r, d)
      /\ p \in Plans!SweepMssOb(m, d) => p \in Plans!SweepMssOb(r, d)
      /\ p \in Plans!SessionRangeExpansion(m, d, c.minutes) => p \in Plans!SessionRangeExpansion(r, d, c.minutes)
  BY StrategiesAlike
<1>4. CASE Plans!Allowed("sweep_mss_fvg", c) /\ \E e \in Plans!Directions : p \in Plans!SweepMssFvg(m, e)
  <2>1. PICK e \in Plans!Directions : p \in Plans!SweepMssFvg(m, e)
    BY <1>4
  <2>2. e = d
    BY <1>1, <2>1
  <2>3. d \in Plans!Directions /\ p \in Plans!SweepMssFvg(r, d)
    BY <1>3, <2>1, <2>2
  <2> QED
    BY <1>4, <2>3, DetectedAre
<1>5. CASE Plans!Allowed("sweep_mss_ob", c) /\ \E e \in Plans!Directions : p \in Plans!SweepMssOb(m, e)
  <2>1. PICK e \in Plans!Directions : p \in Plans!SweepMssOb(m, e)
    BY <1>5
  <2>2. e = d
    BY <1>1, <2>1
  <2>3. d \in Plans!Directions /\ p \in Plans!SweepMssOb(r, d)
    BY <1>3, <2>1, <2>2
  <2> QED
    BY <1>5, <2>3, DetectedAre
<1>6. CASE /\ Plans!Allowed("session_range_expansion", c)
           /\ \E e \in Plans!Directions : p \in Plans!SessionRangeExpansion(m, e, c.minutes)
  <2>1. PICK e \in Plans!Directions : p \in Plans!SessionRangeExpansion(m, e, c.minutes)
    BY <1>6
  <2>2. e = d
    BY <1>1, <2>1
  <2>3. d \in Plans!Directions /\ p \in Plans!SessionRangeExpansion(r, d, c.minutes)
    BY <1>3, <2>1, <2>2
  <2> QED
    BY <1>6, <2>3, DetectedAre
<1>7. CASE Plans!Allowed("pdh_pdl_reversion", c) /\ p \in Plans!PdhPdlReversion(m)
  BY <1>2, <1>7, DetectedAre
<1> QED
  BY <1>4, <1>5, <1>6, <1>7, DetectedAre

-----------------------------------------------------------------------------
(* The invariant of the plans.                                             *)

\* A market is made of features that a strategy can read, the events of one bar
\* going one way.
PlansInv == setupMarket \subseteq SetupSights /\ setupConditions \in SetupSettings

\* What appears may do so.
LEMMA PlansStep ==
    ASSUME PlansInv, [Plans!SetupsNext]_setupVars
    PROVE  PlansInv'
<1>1. CASE Plans!Appears
  BY <1>1 DEF PlansInv, Plans!Appears
<1>2. CASE Plans!Vanishes
  BY <1>2 DEF PlansInv, Plans!Vanishes
<1>3. CASE UNCHANGED setupVars
  BY <1>3 DEF PlansInv, setupVars
<1> QED
  BY <1>1, <1>2, <1>3 DEF Plans!SetupsNext

\* What is no evidence for a direction changes no plan of it.
LEMMA OwnEvidence ==
    ASSUME PlansInv
    PROVE  Plans!OnOwnEvidence
<1> SUFFICES ASSUME NEW d \in Plans!Directions, NEW f \in setupMarket, Plans!NoEvidence(f, d)
             PROVE  Plans!PlansOf(setupMarket \ {f}, d) = Plans!PlansOf(setupMarket, d)
  BY DEF Plans!OnOwnEvidence
<1> DEFINE r == setupMarket \ {f}
<1>1. r \subseteq setupMarket
  OBVIOUS
<1>2. Alike(setupMarket, r, d) /\ Alike(r, setupMarket, d)
  BY WithoutNone
<1> HIDE DEF r
<1>3. \A x \in setupMarket : x \in SetupSights /\ Sound(x)
  BY SetupAssumption, FeatureReverses DEF PlansInv
<1>4. OneWay(setupMarket) /\ OneWay(r)
  BY <1>1, <1>3, SetupAssumption DEF OneWay, Events, Plans!EventKinds
<1>5. \A q, p : p \in Plans!PlansOf(q, d) <=> p \in Plans!Detected(q, setupConditions) /\ p.dir = d
  BY DEF Plans!PlansOf
<1>6. \A p \in Plans!Detected(setupMarket, setupConditions) : p.dir = d => p \in Plans!Detected(r, setupConditions)
  <2>1. \A x \in r : Sound(x)
    BY <1>1, <1>3
  <2> QED
    BY <1>2, <1>4, <2>1, DetectedAlike
<1>7. \A p \in Plans!Detected(r, setupConditions) : p.dir = d => p \in Plans!Detected(setupMarket, setupConditions)
  <2>1. \A x \in setupMarket : Sound(x)
    BY <1>3
  <2> QED
    BY <1>2, <1>4, <2>1, DetectedAlike
<1>8. Plans!PlansOf(r, d) = Plans!PlansOf(setupMarket, d)
  <2>1. \A p : p \in Plans!PlansOf(r, d) <=> p \in Plans!PlansOf(setupMarket, d)
    BY <1>5, <1>6, <1>7, Zenon
  <2> QED
    BY <2>1 DEF Plans!PlansOf
<1> QED
  BY <1>8 DEF r

\* A strategy favours no side, and a plan rests on its own evidence: turn the market and
\* the conditions upside down, and the plans are the same upside down; take away what
\* faces the other way, is used up or was taken, and the plans of a direction stay.  It
\* holds for any features whose prices stay away from those that stand for none, as long
\* as the events of one bar go one way, which StructureAnalyzer sees to.
THEOREM PlansAreSound == DeskSpec => []PlansSound
<1>1. DeskInit => PlansInv
  BY DEF DeskInit, PlansInv, Plans!MarketInit
<1>2. PlansInv /\ [DeskNext]_deskVars => PlansInv'
  BY PartsMove, PlansStep
<1>3. PlansInv => PlansSound
  <2> SUFFICES ASSUME PlansInv PROVE PlansSound
    OBVIOUS
  <2>1. Mates(setupMarket, Plans!Mirrored(setupMarket)) /\ setupConditions \in Plans!Settings
    BY SetupAssumption, MirroredMates DEF PlansInv
  <2>2. Plans!Detected(Plans!Mirrored(setupMarket), Plans!MirrorConditions(setupConditions))
          = Plans!Mirrored(Plans!Detected(setupMarket, setupConditions))
    BY <2>1, MatesAgree
  <2> QED
    BY <2>2, OwnEvidence, Zenon DEF PlansSound, Plans!SetupMirror
<1> QED
  BY <1>1, <1>2, <1>3, PTL DEF DeskSpec
=============================================================================
