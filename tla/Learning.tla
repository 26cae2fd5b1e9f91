------------------------------- MODULE Learning -------------------------------
(***************************************************************************)
(* What a model is trained on: the labels of ml/labeling.py, which look    *)
(* forward through the bars, and the folds of ml/purged_cv.py, which must  *)
(* keep what one sample looked at out of the training for another.  A      *)
(* candidate of bar e enters at its close; the minutes are not known.      *)
(***************************************************************************)
EXTENDS Bars

CONSTANTS
    Risk, TargetR, \* the distance of the stop; that of the target, in risks
    Horizon,     \* max_bars
    Splits, EmbargoPct

VARIABLE samples \* the candidates that are trained on, sorted

vars == <<bars, samples>>

-----------------------------------------------------------------------------
(* triple_barrier().                                                       *)

Holds(i, price) == bars[i].l <= price /\ price <= bars[i].h

Stop(s) == bars[s.t0].c - s.dir * Risk
Target(s) == bars[s.t0].c + s.dir * TargetR * Risk

\* A bar that holds both barriers is a loss.
Wins(s, i) == Holds(i, Target(s)) /\ ~Holds(i, Stop(s))

\* The first bar within the horizon that holds a barrier; the last of the
\* horizon, if it is in the data; or none.
Resolution(s) ==
    LET hits == {i \in Indices : i \in s.t0 + 1..s.t0 + Horizon /\ (Holds(i, Stop(s)) \/ Holds(i, Target(s)))}
    IN IF hits # {} THEN {Min(hits)} ELSE {s.t0 + Horizon} \cap Indices

Candidates == [t0 : Indices, dir : Dirs]

\* A LabelledSample: the bar of its resolution, and whether the trade was won.
Sample(s, i) ==
    [t0 |-> s.t0, dir |-> s.dir, t1 |-> i,
     win |-> \/ Wins(s, i)
             \/ ~Holds(i, Stop(s)) /\ ~Holds(i, Target(s)) /\ s.dir * (bars[i].c - bars[s.t0].c) > 0]

\* A candidate without a resolution has no label.
Labelled == UNION {{Sample(s, i) : i \in Resolution(s)} : s \in Candidates}

-----------------------------------------------------------------------------
(* PurgedKFold.split().                                                    *)

Bound(k) == (k * Len(samples)) \div Splits
Test(k) == Bound(k) + 1..Bound(k + 1)
Embargo == (Len(samples) * EmbargoPct) \div 100

\* Mutation: the outcome of the last test sample ends the test window.
TestEnd_Last(k) == samples[Bound(k + 1)].t1

TestEnd(k) == Max({samples[j].t1 : j \in Test(k)})

\* Samples that overlap the test window, and those that follow it, are left out.
Train(k) ==
    LET from == samples[Bound(k) + 1].t0
        end == TestEnd(k)
    IN {i \in DOMAIN samples \ Test(k) :
          /\ ~(samples[i].t1 >= from /\ samples[i].t0 <= end)
          /\ i \notin Bound(k + 1) + 1..Bound(k + 1) + Embargo}

-----------------------------------------------------------------------------
Sooner(s, u) == s.t0 < u.t0 \/ (s.t0 = u.t0 /\ s.dir < u.dir)

BarCloses == samples = <<>> /\ NewBar /\ UNCHANGED samples

\* Enough candidates have a label: all, or all but one that did not qualify.
Collect ==
    /\ samples = <<>>
    /\ LET labelled == Labelled IN
       \E out \in {{}} \cup {{s} : s \in labelled} :
         LET chosen == labelled \ out IN
         /\ Cardinality(chosen) >= 2 * Splits
         /\ samples' = [k \in 1..Cardinality(chosen) |->
                          CHOOSE s \in chosen : Cardinality({u \in chosen : Sooner(u, s)}) = k - 1]
    /\ UNCHANGED bars

LearningInit == bars = <<>> /\ samples = <<>>
LearningNext == BarCloses \/ Collect
LearningSpec == LearningInit /\ [][LearningNext]_vars

-----------------------------------------------------------------------------
(* Properties                                                              *)

\* The bars that a label was computed from.
Seen(s) == s.t0 + 1..s.t1

\* No bar that decided the label of a training sample decides that of a sample
\* which the model is then tested on.
NothingLeaks ==
    samples # <<>> =>
        \A k \in 0..Splits - 1 : \A i \in Train(k), j \in Test(k) :
            Seen(samples[i]) \cap Seen(samples[j]) = {}

-----------------------------------------------------------------------------
(* What the code's texts say besides, and does not hold.                   *)

\* labeling.py: "walk FORWARD from the decision bar until one of three barriers is
\* touched", and where both may have been "the LOSS is taken".  No win is learned that
\* could have been stopped before its end.  It holds only where bars do not open away
\* from the last close: a bar that opens beyond the stop does not hold it.
WinsAreProven ==
    \A k \in DOMAIN samples :
        LET s == samples[k] IN s.win => \A i \in Seen(s) : 0 - Tip(0 - s.dir, i) > s.dir * Stop(s)
=============================================================================
