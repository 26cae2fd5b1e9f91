------------------------------- MODULE History -------------------------------
(***************************************************************************)
(* The stored bars: data/harvest.py walks backwards from the newest bar    *)
(* of the broker, one committed chunk after the other, and data/resample.py *)
(* derives the higher timeframes that a backtest reads from what it left.  *)
(*                                                                         *)
(* Bars are numbered by their opening; the broker's last is still forming. *)
(***************************************************************************)
EXTENDS Integers, FiniteSets, FiniteSetsExt

CONSTANTS
    Chunk,   \* bars in one request
    Wanted,  \* bars that a harvest may ask for
    Ratio,   \* base bars in one higher bar
    MaxBar   \* bound: bars the market makes

VARIABLES
    closed,  \* the last bar that has closed
    stored,  \* the rows of BarRow: [bar, final]
    harvest  \* the harvest that runs: [on, wanted, now, fetched, earliest, exhausted]

historyVars == <<closed, stored, harvest>>

NoHarvest == [on |-> FALSE, wanted |-> 0, now |-> 0, fetched |-> 0, earliest |-> 0, exhausted |-> FALSE]

HistoryInit == closed = 0 /\ stored = {} /\ harvest = NoHarvest

BarCloses ==
    /\ closed + 1 < MaxBar
    /\ closed' = closed + 1
    /\ UNCHANGED <<stored, harvest>>

-----------------------------------------------------------------------------
(* harvest().                                                              *)

\* Broker.bars(): the last `count` bars up to and with `end`, 0 for the newest.
Served(count, end) ==
    LET last == IF end = 0 THEN closed + 1 ELSE end
    IN {k \in 1..last : k > last - count}

\* Mutation: the bar that is forming is kept.
CompleteOnly_All(batch, now) == batch

\* _complete_only().
CompleteOnly(batch, now) == {k \in batch : k <= now}

Held == {b.bar : b \in stored}

\* BarRepository.upsert_many(): a bar that is held stays as it is.
Upserted(batch) == stored \cup {[bar |-> k, final |-> k <= closed] : k \in batch \ Held}

HarvestBegins ==
    /\ ~harvest.on
    /\ \E wanted \in Wanted :
         harvest' = [NoHarvest EXCEPT !.on = TRUE, !.wanted = wanted, !.now = closed]
    /\ UNCHANGED <<closed, stored>>

\* One turn of the loop: a chunk is stored, or there is no more.
HarvestChunk ==
    LET want == Min({Chunk, harvest.wanted - harvest.fetched})
        served == Served(want, harvest.earliest)
        batch == CompleteOnly(served, harvest.now)
        older == batch # {} /\ (harvest.earliest = 0 \/ Min(batch) < harvest.earliest)
    IN /\ harvest.on /\ ~harvest.exhausted /\ want > 0
       /\ IF older
          THEN /\ stored' = Upserted(batch)
               /\ harvest' = [harvest EXCEPT
                    !.fetched = @ + Cardinality(batch), !.earliest = Min(batch),
                    !.exhausted = Cardinality(served) < want]
          ELSE /\ harvest' = [harvest EXCEPT !.exhausted = TRUE]
               /\ UNCHANGED stored
       /\ UNCHANGED closed

HarvestEnds ==
    /\ harvest.on /\ (harvest.exhausted \/ harvest.fetched >= harvest.wanted)
    /\ harvest' = NoHarvest
    /\ UNCHANGED <<closed, stored>>

\* The operator closes the window, or the broker fails.
HarvestStops ==
    /\ harvest.on
    /\ harvest' = NoHarvest
    /\ UNCHANGED <<closed, stored>>

HistoryNext == BarCloses \/ HarvestBegins \/ HarvestChunk \/ HarvestEnds \/ HarvestStops

HistorySpec == HistoryInit /\ [][HistoryNext]_historyVars

-----------------------------------------------------------------------------
(* resample(): a higher bar is the number of its bucket.                   *)

Bucket(k) == (k - 1) \div Ratio
InBucket(b) == {k \in Held : Bucket(k) = b}

\* The last bucket is dropped when the last bar does not reach its end.
Higher ==
    {b \in {Bucket(k) : k \in Held} : b = Bucket(Max(Held)) => Max(Held) = (b + 1) * Ratio}

-----------------------------------------------------------------------------
(* Properties                                                              *)

HistoryTypeOK ==
    /\ closed \in 0..MaxBar - 1
    /\ stored \subseteq [bar : 1..MaxBar, final : BOOLEAN]
    /\ harvest.fetched <= harvest.wanted

\* No bar is stored before it has closed, wherever in the market's time the
\* chunks fall and whatever earlier harvests left: a stored bar is never
\* written again, so one that was forming would stay wrong.
StoredIsFinal == \A b \in stored : b.final

\* A higher bar that a backtest reads is made of all its base bars, but for the
\* first one of a history and for those beside a hole that two harvests left.
HigherIsWhole ==
    \A b \in Higher :
        \/ Cardinality(InBucket(b)) = Ratio
        \/ \E k \in b * Ratio + 1..(b + 1) * Ratio : k \notin Held /\ \E j \in Held : j > k

\* The report says so when the broker has no more history, and only then.
ExhaustedIsTrue == harvest.exhausted => harvest.earliest \in {0, 1}
=============================================================================
