----------------------------- MODULE EngineProofs -----------------------------
(***************************************************************************)
(* Theorems about Engine: what the unlocked threads keep to although their *)
(* checks and their sends are apart, for every number of tickets, every    *)
(* set of commands and every flaky ticket.                                 *)
(***************************************************************************)
EXTENDS Engine, FiniteSetTheorems, TLAPS

\* The roll of the day keeps the types of what it assigns.
LEMMA RollTypes ==
  ASSUME trades \in Nat, rolled \in BOOLEAN,
         Roll \/ UNCHANGED <<trades, rolled>>
  PROVE  trades' \in Nat /\ rolled' \in BOOLEAN
<1>1. CASE Roll
  <2>1. trades' = trades \/ trades' = 0
    BY <1>1, Zenon DEF Roll
  <2>2. rolled' = TRUE
    BY <1>1, Zenon DEF Roll
  <2>3. QED
    BY <2>1, <2>2
<1>2. CASE UNCHANGED <<trades, rolled>>
  BY <1>2
<1>3. QED
  BY <1>1, <1>2

-----------------------------------------------------------------------------
\* Every variable keeps its type.
THEOREM TypeCorrect == EngineSpec => []EngineTypeOK
<1>1. EngineInit => EngineTypeOK
  <2> SUFFICES ASSUME EngineInit PROVE EngineTypeOK
    OBVIOUS
  <2>1. /\ pc \in [Threads -> {"idle", "next", "gate", "send", "adopt"}]
        /\ engine \in [Threads -> Engines]
        /\ ticket \in [Threads -> Tickets \cup {0}]
    BY DEF EngineInit, First, Engines
  <2>2. /\ owner \in [Tickets -> Engines \cup {"none"}]
        /\ target \in [Flattens -> SUBSET Tickets]
        /\ earlier \in [Commands -> SUBSET Commands]
        /\ status \in [Commands -> {"none", "QUEUED", "CLAIMED", "DONE", "FAILED"}]
    BY DEF EngineInit
  <2>3. QED
    BY <2>1, <2>2 DEF EngineInit, EngineTypeOK
<1>2. EngineTypeOK /\ [EngineNext]_tradingVars => EngineTypeOK'
  <2> SUFFICES ASSUME EngineTypeOK, [EngineNext]_tradingVars PROVE EngineTypeOK'
    OBVIOUS
  <2> USE DEF EngineTypeOK, deciding, commanding, positions
  <2>1. ASSUME NEW th \in Threads, Decide(th) PROVE EngineTypeOK'
    <3>0. ASSUME Roll \/ UNCHANGED <<trades, rolled>>
          PROVE  trades' \in Nat /\ rolled' \in BOOLEAN
      BY <3>0, RollTypes
    <3> USE DEF Proceed, Abort, First, Engines
    <3>1. CASE Observe(th) BY <3>0, <3>1 DEF Observe
    <3>2. CASE NoTrade(th) BY <3>0, <3>2 DEF NoTrade
    <3>3. CASE Gate(th) BY <3>3 DEF Gate
    <3>4. CASE Filled(th) BY <3>4 DEF Filled, Opens, Count
    <3>5. CASE NotFilled(th) BY <3>5 DEF NotFilled, Opens, HaltReasons
    <3>6. CASE Adopt(th) BY <3>6 DEF Adopt, standing
    <3>7. CASE AdoptFails(th) BY <3>7 DEF AdoptFails
    <3>8. QED
      BY <2>1, <3>1, <3>2, <3>3, <3>4, <3>5, <3>6, <3>7 DEF Decide
  <2>2. CASE Drain
    <3>1. CASE Claim BY <3>1 DEF Claim
    <3>2. ASSUME NEW c \in Commands, RunCommand(c) PROVE EngineTypeOK'
      BY <3>2 DEF RunCommand, HaltReasons
    <3>3. CASE ReadPositions BY <3>3 DEF ReadPositions, OurPositions, standing
    <3>4. CASE Complete BY <3>4 DEF Complete, NextInBatch, Finished
    <3>5. CASE CompleteFails BY <3>5 DEF CompleteFails
    <3>6. ASSUME NEW t \in Tickets, CloseOne(t) PROVE EngineTypeOK'
      BY <3>6 DEF CloseOne, Closes
    <3>7. ASSUME NEW t \in Tickets, CloseRefused(t) PROVE EngineTypeOK'
      BY <3>7 DEF CloseRefused
    <3>8. QED
      BY <2>2, <3>1, <3>2, <3>3, <3>4, <3>5, <3>6, <3>7 DEF Drain
  <2>3. CASE ProcessDies BY <2>3 DEF ProcessDies, First, Engines
  <2>4. CASE Start BY <2>4 DEF Start
  <2>5. CASE DayTurns BY <2>5 DEF DayTurns
  <2>6. ASSUME NEW t \in Tickets, PositionCloses(t) PROVE EngineTypeOK'
    BY <2>6 DEF PositionCloses, Closes
  <2>7. ASSUME NEW c \in Commands, QueueCommand(c) PROVE EngineTypeOK'
    BY <2>7 DEF QueueCommand, standing
  <2>8. CASE UNCHANGED tradingVars BY <2>8 DEF tradingVars
  <2>9. QED
    BY <2>1, <2>2, <2>3, <2>4, <2>5, <2>6, <2>7, <2>8 DEF EngineNext
<1>3. QED
  BY <1>1, <1>2, PTL DEF EngineSpec

-----------------------------------------------------------------------------
(* What a step can do to the open positions.                               *)

\* A position that is opened was not open, and carries the thread's magic.
LEMMA OpensOne ==
  ASSUME EngineTypeOK, NEW th \in Threads, NEW t \in Tickets, Opens(th, t)
  PROVE  /\ t \notin standing /\ standing' = standing \cup {t}
         /\ owner'[t] = engine[th]
         /\ \A u \in Tickets \ {t} : owner'[u] = owner[u]
         /\ OurPositions' \subseteq OurPositions \cup {t}
<1>1. /\ t \notin standing /\ standing' = standing \cup {t}
      /\ owner'[t] = engine[th]
      /\ \A u \in Tickets \ {t} : owner'[u] = owner[u]
  BY DEF EngineTypeOK, Opens, Fresh, standing, Engines
<1>2. standing \subseteq Tickets
  BY DEF standing
<1>3. QED
  BY <1>1, <1>2 DEF OurPositions

\* A position that is closed leaves the others as they are.
LEMMA ClosesOne ==
  ASSUME EngineTypeOK, NEW t \in Tickets, Closes(t)
  PROVE  /\ standing' = standing \ {t}
         /\ \A u \in Tickets \ {t} : owner'[u] = owner[u]
         /\ OurPositions' = OurPositions \ {t}
<1>1. /\ standing' = standing \ {t}
      /\ \A u \in Tickets \ {t} : owner'[u] = owner[u]
  BY DEF EngineTypeOK, Closes, standing
<1>2. standing \subseteq Tickets
  BY DEF standing
<1>3. QED
  BY <1>1, <1>2 DEF OurPositions

\* A step of the other threads either closes a position or leaves all alone.
LEMMA OtherSteps ==
  ASSUME EngineTypeOK, [EngineNext]_tradingVars, ~(\E th \in Threads : Decide(th)), ~ProcessDies
  PROVE  /\ UNCHANGED <<pc, engine, ticket>>
         /\ UNCHANGED owner \/ \E t \in Tickets : Closes(t)
  BY DEF EngineNext, tradingVars, deciding, commanding, positions, Drain, Claim, RunCommand,
         ReadPositions, Complete, NextInBatch, CompleteFails, CloseOne,
         CloseRefused, Start, DayTurns, PositionCloses, QueueCommand

-----------------------------------------------------------------------------
\* The loop decides for the scalp and the m5 thread for the other two.
LanesApart == engine["loop"] = "scalp" /\ engine["m5"] \in {"aplus", "intraday"}

\* The thread whose engines may open the positions that t is one of.
Lane(t) == IF owner[t] = "scalp" THEN "loop" ELSE "m5"

\* A thread past its checks found no position of its engines on the list: no
\* other thread can have put one on it in between.
PastChecks(th) == pc[th] \in {"gate", "send"}

LaneFree == \A th \in Threads, t \in OurPositions : PastChecks(th) => Lane(t) # th

\* A/A+ and intraday share one position: neither tolerates a listed one of the
\* other.
OnePerLane == \A t, u \in OurPositions : Lane(t) = Lane(u) => t = u

LaneInv == LanesApart /\ LaneFree /\ OnePerLane

\* The scalp engine belongs to one thread and stays there, the other two to the other.
LEMMA LanesStayApart ==
  ASSUME EngineTypeOK, LanesApart, [EngineNext]_tradingVars
  PROVE  LanesApart'
<1> USE DEF LanesApart, EngineTypeOK, Threads, First
<1>1. ASSUME NEW th \in Threads, Decide(th) PROVE LanesApart'
  BY <1>1 DEF Decide, Observe, NoTrade, Gate, Filled, NotFilled, Adopt,
              AdoptFails, Proceed, Abort
<1>2. CASE ProcessDies
  BY <1>2 DEF ProcessDies
<1>3. CASE ~(\E th \in Threads : Decide(th)) /\ ~ProcessDies
  BY <1>3, OtherSteps
<1>4. QED
  BY <1>1, <1>2, <1>3

\* A thread never has two positions on the list although check and send are
\* apart, and a send that reports nothing may have opened one.
LEMMA LanesHold == EngineSpec => []LaneInv
<1>1. EngineInit => LaneInv
  BY DEF EngineInit, LaneInv, LanesApart, LaneFree, OnePerLane, PastChecks, Lane, standing,
         OurPositions, First, Threads
<1>2. EngineTypeOK /\ LaneInv /\ [EngineNext]_tradingVars => LaneInv'
  <2> SUFFICES ASSUME EngineTypeOK, LaneInv, [EngineNext]_tradingVars PROVE LaneInv'
    OBVIOUS
  <2>0. LanesApart'
    BY LanesStayApart DEF LaneInv
  <2>1. ASSUME NEW th \in Threads, Decide(th)
        PROVE  LaneFree' /\ OnePerLane'
    <3>1. CASE Observe(th)
      <4>1. \A t \in OurPositions : Lane(t) # th
        BY <3>1 DEF Observe, NoStacking, OurPositions, Lane, LaneInv, LanesApart,
                    Threads, EngineTypeOK, standing, Engines
      <4>2. owner' = owner /\ \A o \in Threads \ {th} : pc'[o] = pc[o]
        BY <3>1 DEF Observe, positions, EngineTypeOK
      <4>3. QED
        BY <4>1, <4>2 DEF LaneInv, LaneFree, OnePerLane, PastChecks, Lane, standing,
                    OurPositions
    <3>2. ASSUME Proceed(th) \/ Abort(th), UNCHANGED owner
          PROVE  LaneFree' /\ OnePerLane'
      <4>1. ~PastChecks(th)' /\ \A o \in Threads \ {th} :
                pc'[o] = pc[o] /\ engine'[o] = engine[o]
        BY <3>2 DEF Proceed, Abort, PastChecks, EngineTypeOK
      <4>2. QED
        BY <3>2, <4>1 DEF LaneInv, LaneFree, OnePerLane, PastChecks, Lane, standing,
                    OurPositions
    <3>3. ASSUME NEW t \in Tickets, Opens(th, t), pc[th] = "send",
                 pc'[th] \notin {"gate", "send"},
                 \A o \in Threads \ {th} :
                    pc'[o] = pc[o] /\ engine'[o] = engine[o]
          PROVE  LaneFree' /\ OnePerLane'
      <4>1. /\ t \notin standing /\ OurPositions' \subseteq OurPositions \cup {t}
            /\ owner'[t] = engine[th]
            /\ \A u \in Tickets \ {t} : owner'[u] = owner[u]
        BY <3>3, OpensOne
      <4>2. Lane(t)' = th /\ \A u \in OurPositions : Lane(u)' = Lane(u)
        BY <4>1 DEF Lane, LaneInv, LanesApart, Threads, standing, OurPositions
      <4>3. \A u \in OurPositions : Lane(u) # th
        BY <3>3 DEF LaneInv, LaneFree, PastChecks
      <4>4. OnePerLane'
        BY <4>1, <4>2, <4>3 DEF LaneInv, OnePerLane
      <4>5. LaneFree'
        BY <3>3, <4>1, <4>2 DEF LaneInv, LaneFree, PastChecks
      <4>6. QED
        BY <4>4, <4>5
    <3>4. CASE Gate(th)
      BY <3>4 DEF Gate, LaneInv, LaneFree, OnePerLane, PastChecks, Lane, standing,
                  OurPositions, positions, EngineTypeOK
    <3>5. CASE Filled(th)
      <4>1. pc'[th] \notin {"gate", "send"} /\ \A o \in Threads \ {th} :
                pc'[o] = pc[o] /\ engine'[o] = engine[o]
        BY <3>5 DEF Filled, EngineTypeOK
      <4>2. QED
        BY <3>3, <3>5, <4>1 DEF Filled
    <3>6. CASE NotFilled(th)
      <4>1. pc'[th] \notin {"gate", "send"} /\ \A o \in Threads \ {th} :
                pc'[o] = pc[o] /\ engine'[o] = engine[o]
        BY <3>6 DEF NotFilled, Proceed, Abort, EngineTypeOK
      <4>2. QED
        BY <3>2, <3>3, <3>6, <4>1 DEF NotFilled
    <3>7. QED
      BY <2>1, <3>1, <3>2, <3>4, <3>5, <3>6
      DEF Decide, NoTrade, Adopt, AdoptFails, positions
  <2>2. CASE ProcessDies
    <3>1. owner' = owner /\ \A th \in Threads : pc'[th] = "idle"
      BY <2>2 DEF ProcessDies
    <3>2. QED
      BY <2>0, <3>1 DEF LaneInv, LaneFree, OnePerLane, PastChecks, Lane, standing,
                    OurPositions
  <2>3. CASE ~(\E th \in Threads : Decide(th)) /\ ~ProcessDies
    <3>1. pc' = pc /\ engine' = engine
      BY <2>3, OtherSteps
    <3>2. /\ OurPositions' \subseteq OurPositions
          /\ \A u \in OurPositions' : Lane(u)' = Lane(u)
      BY <2>3, OtherSteps, ClosesOne DEF standing, OurPositions, Lane
    <3>3. QED
      <4>1. OnePerLane'
        BY <3>2 DEF LaneInv, OnePerLane
      <4>2. LaneFree'
        BY <3>1, <3>2 DEF LaneInv, LaneFree, PastChecks
      <4>3. QED
        BY <2>0, <4>1, <4>2 DEF LaneInv
  <2>4. QED
    BY <2>0, <2>1, <2>2, <2>3 DEF LaneInv
<1>3. QED
  BY <1>1, <1>2, TypeCorrect, PTL DEF EngineSpec, LaneInv

\* No engine ever has two positions on the broker's list.
THEOREM OneEach == EngineSpec => []OnePerEngine
<1>1. LaneInv => OnePerEngine
  BY DEF LaneInv, OnePerLane, OnePerEngine, Lane
<1>2. QED
  BY <1>1, LanesHold, PTL

\* ... and, from a limit of two up, the list never shows more than
\* max_concurrent_positions.  (With a limit of one the two threads may each
\* find it empty.)
THEOREM WithinTheLimit ==
  MaxConcurrent >= 2 => (EngineSpec => []AtMostMaxConcurrent)
<1> SUFFICES ASSUME MaxConcurrent >= 2 PROVE EngineSpec => []AtMostMaxConcurrent
  OBVIOUS
<1>1. LaneInv => AtMostMaxConcurrent
  <2> SUFFICES ASSUME LaneInv PROVE Cardinality(OurPositions) <= MaxConcurrent
    BY DEF AtMostMaxConcurrent
  <2>1. \E a, b : OurPositions \subseteq {a, b}
    <3> DEFINE In(th) == {t \in OurPositions : Lane(t) = th}
    <3>1. \E a : In("loop") \subseteq {a}
      BY DEF LaneInv, OnePerLane
    <3>2. \E b : In("m5") \subseteq {b}
      BY DEF LaneInv, OnePerLane
    <3>3. OurPositions = In("loop") \cup In("m5")
      BY DEF Lane
    <3>4. QED
      BY <3>1, <3>2, <3>3
  <2>2. PICK a, b : OurPositions \subseteq {a, b}
    BY <2>1
  <2>3. IsFiniteSet({a, b}) /\ Cardinality({a, b}) <= 2
    <3>1. IsFiniteSet({a}) /\ Cardinality({a}) = 1
      BY FS_Singleton
    <3>2. {a, b} = {a} \cup {b}
      OBVIOUS
    <3>3. /\ IsFiniteSet({a} \cup {b})
          /\ Cardinality({a} \cup {b}) =
                IF b \in {a} THEN Cardinality({a}) ELSE Cardinality({a}) + 1
      BY <3>1, FS_AddElement
    <3>4. QED
      BY <3>1, <3>2, <3>3
  <2>4. Cardinality(OurPositions) <= Cardinality({a, b}) /\ Cardinality(OurPositions) \in Nat
    BY <2>2, <2>3, FS_Subset, FS_CardinalityType
  <2>5. Cardinality({a, b}) \in Nat
    BY <2>3, FS_CardinalityType
  <2>6. QED
    BY <2>3, <2>4, <2>5, BoundAssumption
<1>2. QED
  BY <1>1, LanesHold, PTL

-----------------------------------------------------------------------------
\* The trades that are counted, and those a thread has been allowed: the m5
\* thread when it observes, the loop when it passes its gate.
Allowed(th) ==
  IF pc[th] = "send" \/ (th = "m5" /\ pc[th] = "gate") THEN 1 ELSE 0

DayInv == trades + Allowed("m5") + Allowed("loop") <= MaxTrades + 1

\* The daily limit is never overrun by more than one trade.
THEOREM DayLimit == EngineSpec => []DayLimitByOne
<1> USE BoundAssumption
<1>1. EngineInit => DayInv
  BY DEF EngineInit, DayInv, Allowed, Threads
<1>2. EngineTypeOK /\ DayInv /\ [EngineNext]_tradingVars => DayInv'
  <2> SUFFICES ASSUME EngineTypeOK, DayInv, [EngineNext]_tradingVars PROVE DayInv'
    OBVIOUS
  <2>0. trades \in Nat /\ pc \in [Threads -> {"idle", "next", "gate", "send", "adopt"}]
    BY DEF EngineTypeOK
  <2>1. ASSUME NEW th \in Threads, Decide(th) PROVE DayInv'
    <3>0. ASSUME Roll \/ UNCHANGED <<trades, rolled>>
          PROVE  trades' \in Nat /\ trades' <= trades
      <4>1. trades' = trades \/ trades' = 0
        BY <3>0, Zenon DEF Roll
      <4>2. QED
        BY <2>0, <4>1
    <3>1. CASE Observe(th)
      <4>1. trades' \in Nat /\ trades' <= trades
        BY <3>0, <3>1 DEF Observe
      <4>2. pc' = [pc EXCEPT ![th] = "gate"] /\ (th = "m5" => trades' < MaxTrades)
        BY <3>1 DEF Observe
      <4>3. CASE th = "m5"
        <5>1. Allowed("m5")' <= 1 /\ Allowed("m5")' \in Nat
          BY DEF Allowed
        <5>2. Allowed("loop")' \in 0..1
          BY DEF Allowed
        <5>3. QED
          BY <4>1, <4>2, <4>3, <5>1, <5>2 DEF DayInv
      <4>4. CASE th = "loop"
        <5>1. pc'["m5"] = pc["m5"] /\ pc'["loop"] = "gate"
          BY <2>0, <4>2, <4>4 DEF Threads
        <5>2. Allowed("m5")' = Allowed("m5") /\ Allowed("loop")' <= Allowed("loop")
          BY <5>1 DEF Allowed
        <5>3. /\ Allowed("m5") \in Nat /\ Allowed("loop") \in Nat
              /\ Allowed("loop")' \in Nat
          BY DEF Allowed
        <5>4. QED
          BY <2>0, <4>1, <5>2, <5>3 DEF DayInv
      <4>5. QED
        BY <4>3, <4>4 DEF Threads
    <3>2. CASE NoTrade(th)
      <4>1. trades' \in Nat /\ trades' <= trades
        BY <3>0, <3>2 DEF NoTrade
      <4>2. pc' \in {[pc EXCEPT ![th] = "next"], [pc EXCEPT ![th] = "idle"]}
        BY <3>2 DEF NoTrade, Proceed, Abort
      <4>3. /\ Allowed("m5")' <= Allowed("m5") /\ Allowed("loop")' <= Allowed("loop")
            /\ Allowed("m5") \in Nat /\ Allowed("loop") \in Nat
            /\ Allowed("m5")' \in Nat /\ Allowed("loop")' \in Nat
        BY <2>0, <4>2 DEF Allowed, Threads
      <4>4. QED
        BY <2>0, <4>1, <4>3 DEF DayInv
    <3>3. CASE Gate(th)
      <4>1. /\ pc[th] = "gate" /\ trades' = trades
            /\ pc' = [pc EXCEPT ![th] = "send"]
            /\ th = "loop" => trades < MaxTrades
        BY <3>3 DEF Gate
      <4>2. QED
        BY <2>0, <4>1 DEF DayInv, Allowed, Threads
    <3>4. CASE Filled(th)
      <4>1. /\ pc[th] = "send" /\ trades' = trades + 1
            /\ pc' = [pc EXCEPT ![th] = "adopt"]
        BY <3>4 DEF Filled, Count
      <4>2. QED
        BY <2>0, <4>1 DEF DayInv, Allowed, Threads
    <3>5. CASE NotFilled(th) \/ Adopt(th) \/ AdoptFails(th)
      <4>1. /\ trades' = trades
            /\ pc' \in {[pc EXCEPT ![th] = "next"], [pc EXCEPT ![th] = "idle"]}
        BY <3>5 DEF NotFilled, Adopt, AdoptFails, Proceed, Abort
      <4>2. QED
        BY <2>0, <4>1 DEF DayInv, Allowed, Threads
    <3>6. QED
      BY <2>1, <3>1, <3>2, <3>3, <3>4, <3>5 DEF Decide
  <2>2. CASE ProcessDies
    BY <2>2 DEF ProcessDies, DayInv, Allowed, Threads
  <2>3. CASE ~(\E th \in Threads : Decide(th)) /\ ~ProcessDies
    <3>1. pc' = pc /\ trades' = trades
      BY <2>3, OtherSteps DEF EngineNext, tradingVars, Drain, Claim, RunCommand, ReadPositions,
         Complete, CompleteFails, CloseOne, CloseRefused, Start, DayTurns,
         PositionCloses, QueueCommand
    <3>2. QED
      BY <3>1 DEF DayInv, Allowed
  <2>4. QED
    BY <2>1, <2>2, <2>3
<1>3. EngineTypeOK /\ DayInv => DayLimitByOne
  BY DEF EngineTypeOK, DayInv, Allowed, DayLimitByOne
<1>4. QED
  BY <1>1, <1>2, <1>3, TypeCorrect, PTL DEF EngineSpec

\* The three limits together, although two threads check them apart from their
\* sends.
THEOREM LimitsAreKept ==
  MaxConcurrent >= 2 => (EngineSpec => []LimitsHold)
<1>1. OnePerEngine /\ AtMostMaxConcurrent /\ DayLimitByOne => LimitsHold
  BY DEF LimitsHold
<1>2. QED
  BY <1>1, OneEach, WithinTheLimit, DayLimit, PTL

-----------------------------------------------------------------------------
\* Before the halt nothing is late; after it only a send that is under way can
\* still be, because no gate opens.
Sending(th) == IF pc[th] = "send" THEN 1 ELSE 0

LateInv == /\ "MANUAL" \notin halted => late = 0
           /\ late + Sending("m5") + Sending("loop") <= 2

\* An engine halted by hand opens at most one more position per thread.
THEOREM LateBounded == EngineSpec => []LateEntriesBounded
<1>1. EngineInit => LateInv
  BY DEF EngineInit, LateInv, Sending, Threads
<1>2. EngineTypeOK /\ LateInv /\ [EngineNext]_tradingVars => LateInv'
  <2> SUFFICES ASSUME EngineTypeOK, LateInv, [EngineNext]_tradingVars PROVE LateInv'
    OBVIOUS
  <2>0. late \in Nat /\ pc \in [Threads -> {"idle", "next", "gate", "send", "adopt"}]
    BY DEF EngineTypeOK
  <2>1. ASSUME NEW th \in Threads, Decide(th) PROVE LateInv'
    <3>1. CASE Gate(th)
      <4>1. /\ pc[th] = "gate" /\ late' = late /\ halted' = halted /\ halted = {}
            /\ pc' = [pc EXCEPT ![th] = "send"]
        BY <3>1 DEF Gate
      <4>2. late = 0
        BY <4>1 DEF LateInv
      <4>3. QED
        BY <2>0, <4>1, <4>2 DEF LateInv, Sending, Threads
    <3>2. CASE Filled(th) \/ NotFilled(th)
      <4>1. /\ pc[th] = "send" /\ halted \subseteq halted'
            /\ "MANUAL" \in halted' => "MANUAL" \in halted
            /\ late' = late \/ ("MANUAL" \in halted /\ late' = late + 1)
        BY <3>2 DEF Filled, NotFilled, Opens
      <4>2. pc' \in {[pc EXCEPT ![th] = x] : x \in {"next", "idle", "adopt"}}
        BY <3>2 DEF Filled, NotFilled, Proceed, Abort
      <4>3. QED
        BY <2>0, <4>1, <4>2 DEF LateInv, Sending, Threads
    <3>3. CASE Observe(th) \/ NoTrade(th) \/ Adopt(th) \/ AdoptFails(th)
      <4>1. late' = late /\ halted' = halted
        BY <3>3 DEF Observe, NoTrade, Adopt, AdoptFails
      <4>2. pc' \in {[pc EXCEPT ![th] = x] : x \in {"next", "idle", "gate"}}
        BY <3>3 DEF Observe, NoTrade, Adopt, AdoptFails, Proceed, Abort
      <4>3. QED
        BY <2>0, <4>1, <4>2 DEF LateInv, Sending, Threads
    <3>4. QED
      BY <2>1, <3>1, <3>2, <3>3 DEF Decide
  <2>2. CASE ProcessDies
    BY <2>2 DEF ProcessDies, LateInv, Sending, Threads
  <2>3. CASE ~(\E th \in Threads : Decide(th)) /\ ~ProcessDies
    <3>1. pc' = pc /\ late' = late /\ halted \subseteq halted'
      BY <2>3, OtherSteps DEF EngineNext, tradingVars, Drain, Claim, RunCommand, ReadPositions,
         Complete, CompleteFails, CloseOne, CloseRefused, Start, DayTurns,
         PositionCloses, QueueCommand
    <3>2. QED
      BY <3>1 DEF LateInv, Sending
  <2>4. QED
    BY <2>1, <2>2, <2>3
<1>3. EngineTypeOK /\ LateInv => LateEntriesBounded
  <2>1. IsFiniteSet({"m5"}) /\ Cardinality({"m5"}) = 1
    BY FS_Singleton
  <2>2. Cardinality({"m5"} \cup {"loop"}) = 2
    BY <2>1, FS_AddElement
  <2>3. Threads = {"m5"} \cup {"loop"}
    BY DEF Threads
  <2>4. QED
    BY <2>2, <2>3 DEF EngineTypeOK, LateInv, Sending, LateEntriesBounded
<1>4. QED
  BY <1>1, <1>2, <1>3, TypeCorrect, PTL DEF EngineSpec

-----------------------------------------------------------------------------
\* A reported fill is either open or no longer kept as one.
ManagedInv == filled \subseteq standing /\ FilledIsManaged

\* A step of thread th that leaves the positions alone and is not about to adopt
\* one takes nothing out of management.
LEMMA StillManaged ==
  ASSUME EngineTypeOK, ManagedInv, NEW th \in Threads,
         pc[th] = "adopt" => ticket[th] \in book' \cup Flaky \/ ticket[th] \notin filled',
         \A o \in Threads \ {th} : pc'[o] = pc[o] /\ ticket'[o] = ticket[o],
         book \subseteq book', filled' \subseteq filled, standing \subseteq standing'
  PROVE  ManagedInv'
  BY DEF ManagedInv, FilledIsManaged

\* A fill whose calls do not fail is managed from its adoption until it closes.
THEOREM FillsManaged == EngineSpec => []FilledIsManaged
<1>1. EngineInit => ManagedInv
  BY DEF EngineInit, ManagedInv, FilledIsManaged, standing
<1>2. EngineTypeOK /\ ManagedInv /\ [EngineNext]_tradingVars => ManagedInv'
  <2> SUFFICES ASSUME EngineTypeOK, ManagedInv, [EngineNext]_tradingVars PROVE ManagedInv'
    OBVIOUS
  <2>1. ASSUME NEW th \in Threads, Decide(th) PROVE ManagedInv'
    <3>1. ASSUME Proceed(th) \/ Abort(th)
          PROVE  \A o \in Threads \ {th} : pc'[o] = pc[o] /\ ticket'[o] = ticket[o]
      BY <3>1 DEF Proceed, Abort, EngineTypeOK
    <3>2. CASE Observe(th) \/ Gate(th)
      <4>1. /\ \A o \in Threads \ {th} : pc'[o] = pc[o] /\ ticket'[o] = ticket[o]
            /\ pc[th] # "adopt" /\ book' = book /\ filled' = filled /\ owner' = owner
        BY <3>2 DEF Observe, Gate, positions, EngineTypeOK
      <4>2. QED
        BY <4>1, StillManaged DEF standing
    <3>3. CASE NoTrade(th)
      <4>1. pc[th] # "adopt" /\ book' = book /\ filled' = filled /\ owner' = owner
        BY <3>3 DEF NoTrade, positions
      <4>2. QED
        BY <3>1, <3>3, <4>1, StillManaged DEF standing, NoTrade
    <3>4. CASE Filled(th)
      <4>1. PICK t \in Tickets : Opens(th, t) /\ filled' = filled \cup {t}
                                  /\ ticket' = [ticket EXCEPT ![th] = t]
        BY <3>4 DEF Filled
      <4>2. pc[th] = "send" /\ book' = book /\ pc' = [pc EXCEPT ![th] = "adopt"]
        BY <3>4 DEF Filled
      <4>3. standing' = standing \cup {t}
        BY <4>1, OpensOne
      <4>4. /\ pc'[th] = "adopt" /\ ticket'[th] = t
            /\ \A o \in Threads \ {th} : pc'[o] = pc[o] /\ ticket'[o] = ticket[o]
        BY <4>1, <4>2 DEF EngineTypeOK
      <4>5. QED
        BY <4>1, <4>2, <4>3, <4>4 DEF ManagedInv, FilledIsManaged
    <3>5. CASE NotFilled(th)
      <4>1. pc[th] # "adopt" /\ book' = book /\ filled' = filled /\ standing \subseteq standing'
        BY <3>5, OpensOne DEF NotFilled, standing
      <4>2. QED
        BY <3>1, <3>5, <4>1, StillManaged DEF NotFilled
    <3>6. CASE Adopt(th)
      <4>1. /\ book' = book \cup ({ticket[th]} \cap standing)
            /\ filled' = filled /\ owner' = owner
        BY <3>6 DEF Adopt
      <4>2. ticket[th] \in book' \/ ticket[th] \notin filled'
        BY <4>1 DEF ManagedInv
      <4>3. QED
        BY <3>1, <3>6, <4>1, <4>2, StillManaged DEF standing, Adopt
    <3>7. CASE AdoptFails(th)
      <4>1. ticket[th] \in Flaky /\ book' = book /\ filled' = filled /\ owner' = owner
        BY <3>7 DEF AdoptFails, positions
      <4>2. QED
        BY <3>1, <3>7, <4>1, StillManaged DEF standing, AdoptFails
    <3>8. QED
      BY <2>1, <3>2, <3>3, <3>4, <3>5, <3>6, <3>7 DEF Decide
  <2>2. CASE ProcessDies
    BY <2>2 DEF ProcessDies, ManagedInv, FilledIsManaged
  <2>3. CASE ~(\E th \in Threads : Decide(th)) /\ ~ProcessDies
    <3>1. pc' = pc /\ ticket' = ticket
      BY <2>3, OtherSteps
    <3>2. ASSUME NEW t \in Tickets, Closes(t) PROVE ManagedInv'
      <4>1. standing' = standing \ {t} /\ book' = book \ {t} /\ filled' = filled \ {t}
        BY <3>2, ClosesOne DEF Closes
      <4>2. QED
        BY <3>1, <4>1 DEF ManagedInv, FilledIsManaged
    <3>3. ASSUME NEW t \in Tickets, CloseRefused(t) PROVE ManagedInv'
      <4>1. /\ owner' = owner /\ filled' = filled /\ book' \in {book, book \ {t}}
            /\ t \notin standing \/ t \in Flaky
        BY <3>3 DEF CloseRefused
      <4>2. QED
        BY <3>1, <4>1 DEF ManagedInv, FilledIsManaged, standing
    <3>4. ASSUME owner' = owner, filled' = filled, book' = book PROVE ManagedInv'
      BY <3>1, <3>4 DEF ManagedInv, FilledIsManaged, standing
    <3>5. QED
      BY <2>3, <3>2, <3>3, <3>4 DEF EngineNext, tradingVars, positions, Drain, Claim, RunCommand,
         ReadPositions, Complete, CompleteFails, CloseOne, Start, DayTurns,
         PositionCloses, QueueCommand
  <2>4. QED
    BY <2>1, <2>2, <2>3
<1>3. ManagedInv => FilledIsManaged
  BY DEF ManagedInv
<1>4. QED
  BY <1>1, <1>2, <1>3, TypeCorrect, PTL DEF EngineSpec

-----------------------------------------------------------------------------
(* The command thread.                                                     *)

Running == stage \in {"read", "close", "complete"}

\* A claimed command is in the batch or in hand, and nothing else is.
HandsInv ==
  /\ ~up => stage = "idle"
  /\ stage = "idle" => batch = {}
  /\ \A c \in batch : status[c] = "CLAIMED"
  /\ Running => current \in Commands \ batch /\ status[current] = "CLAIMED"
  /\ ~Running => current = "none"
  /\ up /\ ~dbFailed =>
        \A c \in Commands : status[c] = "CLAIMED" => c \in batch \/ c = current

\* What was open when the FLATTEN in hand was queued is still to be closed, is
\* closed or not listed, or has made the command a failed one.
FlatInv ==
  /\ \A c \in Flattens : target[c] \subseteq standing
  /\ stage = "close" =>
        /\ current \in Flattens
        /\ failed \/ target[current] \cap OurPositions \subseteq todo
  /\ stage = "read" => current \in Flattens
  /\ stage = "complete" => current \notin Flattens \/ failed
  /\ DoneClosesListed

\* A step that is not one of the command thread, its queue or the process
\* leaves the commands alone.
LEMMA OthersLeaveCommands ==
  ASSUME [EngineNext]_tradingVars, ~Drain, ~ProcessDies, ~Start,
         ~(\E c \in Commands : QueueCommand(c))
  PROVE  /\ up' = up /\ dbFailed' = dbFailed /\ status' = status
         /\ batch' = batch /\ current' = current /\ stage' = stage
         /\ todo' = todo /\ failed' = failed
  BY DEF EngineNext, tradingVars, commanding, Decide, Observe, NoTrade, Gate, Filled,
         NotFilled, Adopt, AdoptFails, DayTurns, PositionCloses

\* No command stays claimed by nobody while completions can be stored.
LEMMA HandsHold == EngineSpec => []HandsInv
<1> USE CommandAssumption
<1>1. EngineInit => HandsInv
  BY DEF EngineInit, HandsInv, Running
<1>2. EngineTypeOK /\ HandsInv /\ [EngineNext]_tradingVars => HandsInv'
  <2> SUFFICES ASSUME EngineTypeOK, HandsInv, [EngineNext]_tradingVars PROVE HandsInv'
    OBVIOUS
  <2> USE DEF HandsInv, Running
  <2>1. CASE Drain
    <3>1. CASE Claim
      BY <3>1 DEF Claim, Queued, EngineTypeOK
    <3>2. ASSUME NEW c \in Commands, RunCommand(c) PROVE HandsInv'
      BY <3>2 DEF RunCommand, EngineTypeOK
    <3>3. CASE ReadPositions
      BY <3>3 DEF ReadPositions
    <3>4. CASE Complete
      BY <3>4 DEF Complete, NextInBatch, Finished, EngineTypeOK
    <3>5. CASE CompleteFails
      BY <3>5 DEF CompleteFails
    <3>6. ASSUME NEW t \in Tickets, CloseOne(t) \/ CloseRefused(t) PROVE HandsInv'
      BY <3>6 DEF CloseOne, CloseRefused
    <3>7. QED
      BY <2>1, <3>1, <3>2, <3>3, <3>4, <3>5, <3>6 DEF Drain
  <2>2. CASE ProcessDies
    BY <2>2 DEF ProcessDies
  <2>3. CASE Start
    BY <2>3 DEF Start, commanding, EngineTypeOK
  <2>4. ASSUME NEW c \in Commands, QueueCommand(c) PROVE HandsInv'
    BY <2>4 DEF QueueCommand, commanding, EngineTypeOK
  <2>5. CASE /\ ~Drain /\ ~ProcessDies /\ ~Start
             /\ ~(\E c \in Commands : QueueCommand(c))
    BY <2>5, OthersLeaveCommands
  <2>6. QED
    BY <2>1, <2>2, <2>3, <2>4, <2>5
<1>3. QED
  BY <1>1, <1>2, TypeCorrect, PTL DEF EngineSpec

\* ... and so none is stranded.
THEOREM NoneStranded == EngineSpec => []NothingStranded
<1>1. HandsInv => NothingStranded
  BY DEF HandsInv, NothingStranded
<1>2. QED
  BY <1>1, HandsHold, PTL

\* A FLATTEN that is reported DONE has closed all that the broker lists of what
\* was open when it was queued.
THEOREM DoneMeansFlat == EngineSpec => []DoneClosesListed
<1> USE CommandAssumption
<1>1. EngineInit => FlatInv
  BY DEF EngineInit, FlatInv, DoneClosesListed, Commands, standing
<1>2. EngineTypeOK /\ HandsInv /\ FlatInv /\ [EngineNext]_tradingVars => FlatInv'
  <2> SUFFICES ASSUME EngineTypeOK, HandsInv, FlatInv, [EngineNext]_tradingVars PROVE FlatInv'
    OBVIOUS
  <2>0. Flattens \subseteq Commands
    BY DEF Commands
  <2>1. ASSUME NEW t \in Tickets, Closes(t), status' = status, stage' = stage,
               current' = current, failed' = failed,
               todo' = todo \/ todo' = todo \ {t}
        PROVE  FlatInv'
    <3>1. /\ standing' = standing \ {t} /\ OurPositions' = OurPositions \ {t}
          /\ \A c \in Flattens : target'[c] = target[c] \ {t}
      BY <2>1, ClosesOne DEF Closes
    <3>2. QED
      BY <2>1, <3>1 DEF FlatInv, DoneClosesListed
  <2>2. ASSUME target' = target, standing \subseteq standing',
               OurPositions' \cap standing \subseteq OurPositions, status' = status,
               stage' = stage, current' = current, failed' = failed, todo' = todo
        PROVE  FlatInv'
    BY <2>2 DEF FlatInv, DoneClosesListed
  <2>3. CASE Drain
    <3> USE DEF positions
    <3>1. CASE Claim
      BY <3>1, <2>0 DEF Claim, FlatInv, DoneClosesListed, standing, OurPositions, Queued
    <3>2. ASSUME NEW c \in Commands, RunCommand(c) PROVE FlatInv'
      BY <3>2 DEF RunCommand, FlatInv, DoneClosesListed, standing, OurPositions
    <3>3. CASE ReadPositions
      <4>1. OurPositions' = OurPositions /\ standing' = standing
        BY <3>3 DEF ReadPositions, OurPositions, standing
      <4>2. QED
        BY <3>3, <4>1 DEF ReadPositions, FlatInv, DoneClosesListed
    <3>4. CASE Complete
      BY <2>0, <3>4 DEF Complete, NextInBatch, Finished, FlatInv, DoneClosesListed, standing,
                        OurPositions, HandsInv, Running, EngineTypeOK
    <3>5. CASE CompleteFails
      BY <3>5 DEF CompleteFails, FlatInv, DoneClosesListed, standing, OurPositions
    <3>6. ASSUME NEW t \in Tickets, CloseOne(t) PROVE FlatInv'
      BY <2>1, <3>6 DEF CloseOne
    <3>7. ASSUME NEW t \in Tickets, CloseRefused(t) PROVE FlatInv'
      BY <3>7 DEF CloseRefused, FlatInv, DoneClosesListed, standing, OurPositions
    <3>8. QED
      BY <2>3, <3>1, <3>2, <3>3, <3>4, <3>5, <3>6, <3>7 DEF Drain
  <2>4. CASE ProcessDies
    BY <2>4 DEF ProcessDies, FlatInv, DoneClosesListed, standing, OurPositions
  <2>5. CASE Start
    BY <2>0, <2>5 DEF Start, FlatInv, DoneClosesListed, standing, OurPositions,
                      positions, commanding, HandsInv
  <2>6. ASSUME NEW c \in Commands, QueueCommand(c) PROVE FlatInv'
    <3>1. /\ owner' = owner /\ commanding' = commanding /\ status[c] = "none"
          /\ status' = [status EXCEPT ![c] = "QUEUED"]
          /\ target' = [f \in Flattens |-> IF f = c THEN standing ELSE target[f]]
      BY <2>6 DEF QueueCommand, commanding
    <3>2. c # current \/ ~Running
      BY <3>1 DEF HandsInv
    <3>3. QED
      BY <2>0, <3>1, <3>2 DEF FlatInv, DoneClosesListed, standing, OurPositions,
                              commanding, Running, EngineTypeOK
  <2>7. CASE /\ ~Drain /\ ~ProcessDies /\ ~Start
             /\ ~(\E c \in Commands : QueueCommand(c))
    <3>1. /\ status' = status /\ current' = current /\ stage' = stage
          /\ todo' = todo /\ failed' = failed
      BY <2>7, OthersLeaveCommands
    <3>2. CASE \E t \in Tickets : PositionCloses(t)
      BY <2>1, <3>1, <3>2 DEF PositionCloses
    <3>3. CASE ~(\E t \in Tickets : PositionCloses(t))
      <4>1. target' = target
        BY <2>7, <3>3 DEF EngineNext, tradingVars, positions, Decide, Observe, NoTrade, Gate,
           Filled, NotFilled, Adopt, AdoptFails, DayTurns
      <4>2. CASE owner' = owner
        BY <2>2, <3>1, <4>1, <4>2 DEF standing, OurPositions
      <4>3. CASE \E th \in Threads, t \in Tickets : Opens(th, t)
        BY <2>2, <3>1, <4>1, <4>3, OpensOne
      <4>4. QED
        BY <2>7, <3>3, <4>2, <4>3 DEF EngineNext, tradingVars, positions, Decide, Observe,
           NoTrade, Gate, Filled, NotFilled, Adopt, AdoptFails, DayTurns

    <3>4. QED
      BY <3>2, <3>3
  <2>8. QED
    BY <2>3, <2>4, <2>5, <2>6, <2>7
<1>3. FlatInv => DoneClosesListed
  BY DEF FlatInv
<1>4. QED
  BY <1>1, <1>2, <1>3, TypeCorrect, HandsHold, PTL DEF EngineSpec

=============================================================================
