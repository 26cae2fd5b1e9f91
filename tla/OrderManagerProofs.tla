------------------------- MODULE OrderManagerProofs -------------------------
(***************************************************************************)
(* Theorems about OrderManager, for every set of tags, every retry budget  *)
(* and every number of crashes.                                            *)
(***************************************************************************)
EXTENDS OrderManager, TLAPS

-----------------------------------------------------------------------------
(* What a send can be answered.                                            *)

\* A success means the order was executed or waits, an explicit refusal that it
\* was not; only without late landing is every order settled with its answer.
LEMMA SendResultFacts ==
  ASSUME NEW r \in SendResults
  PROVE  /\ r[1] \in Replies
         /\ r[1] = "ok" => r[2] \in {"lands", "queued"}
         /\ r[1] = "reprice" => r[2] = "lost"
         /\ r[2] = "queued" => LateLanding
  BY DEF SendResults, Replies, Fates

-----------------------------------------------------------------------------
(* Type correctness.                                                       *)

\* Every variable keeps its type through every handler of order_manager.py.
THEOREM TypeCorrect == Spec => []TypeOK
<1>1. Init => TypeOK
  BY DEF Init, TypeOK, Phases
<1>2. TypeOK /\ [Next]_vars => TypeOK'
  <2> SUFFICES ASSUME TypeOK, [Next]_vars PROVE TypeOK'
    OBVIOUS
  <2> USE DEF TypeOK, Phases, Replies, Statuses, Unresolved, Reasons,
              engineVars, threadVars, brokerVars
  <2>1. ASSUME NEW t \in Tags, Approve(t) PROVE TypeOK'
    BY <2>1 DEF Approve
  <2>2. ASSUME NEW t \in Tags, Execute(t) PROVE TypeOK'
    <3>1. CASE GuardRefuses(t) BY <3>1 DEF GuardRefuses, Return
    <3>2. CASE GuardPasses(t) BY <3>2 DEF GuardPasses, Persist
    <3>3. CASE QuoteRefuses(t) BY <3>3 DEF QuoteRefuses, Abandon, Persist, Return
    <3>4. CASE QuotePasses(t) BY <3>4 DEF QuotePasses, Persist
    <3>5. CASE Send(t)
      <4>1. PICK r \in SendResults :
               /\ reply' = [reply EXCEPT ![t] = r[1]]
               /\ open' = [open EXCEPT ![t] = IF r[2] = "lands" THEN @ + 1 ELSE @]
               /\ recent' = [recent EXCEPT ![t] = @ \/ r[2] = "lands"]
               /\ landed' = [landed EXCEPT ![t] = @ \/ r[2] = "lands"]
               /\ inflight' = [inflight EXCEPT ![t] = IF r[2] = "queued" THEN @ + 1 ELSE @]
               /\ acknowledged' = [acknowledged EXCEPT ![t] = @ \/ r[1] = "ok"]
        BY <3>5 DEF Send
      <4>2. r[1] \in Replies
        BY SendResultFacts
      <4>3. reply' \in [Tags -> Replies \cup {"none"}]
        BY <4>1, <4>2
      <4>4. open' \in [Tags -> Nat] /\ inflight' \in [Tags -> Nat]
        BY <4>1
      <4>5. /\ recent' \in [Tags -> BOOLEAN] /\ landed' \in [Tags -> BOOLEAN]
            /\ acknowledged' \in [Tags -> BOOLEAN]
        BY <4>1, Zenon
      <4>6. QED
        BY <3>5, <4>3, <4>4, <4>5 DEF Send
    <3>6. CASE OnFilled(t) BY <3>6 DEF OnFilled, Persist, Return
    <3>7. CASE OnAmbiguous(t) BY <3>7 DEF OnAmbiguous, Persist
    <3>8. CASE OnReprice(t)
      BY <3>8 DEF OnReprice, Abandon, Retry, Persist, Return
    <3>9. CASE OnTransient(t) BY <3>9 DEF OnTransient, Abandon, Persist, Return
    <3>10. CASE FindBeforeRetry(t)
      BY <3>10 DEF FindBeforeRetry, Return, Retry
    <3>11. CASE OnAbort(t) BY <3>11 DEF OnAbort, Abandon, Persist, Return
    <3>12. CASE OnKill(t) BY <3>12 DEF OnKill, Abandon, Persist, Return
    <3>13. CASE Poll(t) BY <3>13 DEF Poll, Persist, Return
    <3>14. CASE GiveUp(t) BY <3>14 DEF GiveUp, Persist, Return
    <3>15. QED
      BY <2>2, <3>1, <3>2, <3>3, <3>4, <3>5, <3>6, <3>7, <3>8, <3>9,
         <3>10, <3>11, <3>12, <3>13, <3>14 DEF Execute
  <2>3. ASSUME NEW t \in Tags, ResolveAtStartup(t) PROVE TypeOK'
    BY <2>3 DEF ResolveAtStartup, Persist
  <2>4. ASSUME NEW t \in Tags, Server(t) PROVE TypeOK'
    <3>1. CASE Land(t) BY <3>1 DEF Land
    <3>2. CASE Lose(t) BY <3>2 DEF Lose
    <3>3. CASE ServerCloses(t) BY <3>3 DEF ServerCloses
    <3>4. CASE HistoryAges(t) BY <3>4 DEF HistoryAges
    <3>5. QED BY <2>4, <3>1, <3>2, <3>3, <3>4 DEF Server
  <2>5. CASE Crash BY <2>5 DEF Crash
  <2>6. CASE Restart BY <2>6 DEF Restart
  <2>7. CASE EngineReady BY <2>7 DEF EngineReady
  <2>8. CASE UNCHANGED vars BY <2>8 DEF vars
  <2>9. QED
    BY <2>1, <2>2, <2>3, <2>4, <2>5, <2>6, <2>7, <2>8 DEF Next
<1>3. QED
  BY <1>1, <1>2, PTL DEF Spec

-----------------------------------------------------------------------------
(* Evidence: what is reported was executed or acknowledged.                *)

\* Everything execute() can take for a fill is either the trace of an executed
\* order (an open position, a deal in the history) or the server's own word.
Evidence ==
    \A t \in Tags :
        /\ open[t] > 0 \/ recent[t] => landed[t]
        /\ phase[t] = "reply" /\ reply[t] = "ok" => acknowledged[t]
        /\ "FILLED" \in {record[t], outcome[t]} => landed[t] \/ acknowledged[t]

\* Every step keeps the evidence.
LEMMA EvidenceStep ==
  ASSUME TypeOK, Evidence, [Next]_vars
  PROVE  Evidence'
<1> USE DEF engineVars, threadVars, brokerVars, TypeOK, Evidence
<1>1. ASSUME NEW t \in Tags, Approve(t) PROVE Evidence'
  BY <1>1 DEF Approve
<1>2. ASSUME NEW t \in Tags, Execute(t) PROVE Evidence'
  <2>1. CASE GuardRefuses(t)
    BY <2>1 DEF GuardRefuses, Return
  <2>2. CASE GuardPasses(t)
    BY <2>2 DEF GuardPasses, Persist
  <2>3. CASE QuoteRefuses(t)
    BY <2>3 DEF QuoteRefuses, Abandon, Persist, Return
  <2>4. CASE QuotePasses(t)
    BY <2>4 DEF QuotePasses, Persist
  <2>5. CASE Send(t)
    <3>1. PICK r \in SendResults :
             /\ reply' = [reply EXCEPT ![t] = r[1]]
             /\ open' = [open EXCEPT ![t] = IF r[2] = "lands" THEN @ + 1 ELSE @]
             /\ recent' = [recent EXCEPT ![t] = @ \/ r[2] = "lands"]
             /\ landed' = [landed EXCEPT ![t] = @ \/ r[2] = "lands"]
             /\ acknowledged' = [acknowledged EXCEPT ![t] = @ \/ r[1] = "ok"]
      BY <2>5 DEF Send
    <3>2. UNCHANGED <<record, outcome>> /\ phase' = [phase EXCEPT ![t] = "reply"]
      BY <2>5 DEF Send
    <3>3. \A u \in Tags : /\ landed[u] => landed'[u]
                          /\ acknowledged[u] => acknowledged'[u]
      BY <3>1, Zenon
    <3>4. reply'[t] = "ok" => acknowledged'[t]
      BY <3>1, Zenon
    <3>5. \A u \in Tags \ {t} : /\ open'[u] = open[u] /\ recent'[u] = recent[u]
                                /\ reply'[u] = reply[u] /\ phase'[u] = phase[u]
      BY <3>1, <3>2
    <3>6. open'[t] > 0 \/ recent'[t] => landed'[t]
      <4>1. CASE r[2] = "lands"
        BY <3>1, <4>1, Zenon
      <4>2. CASE r[2] # "lands"
        <5>1. open'[t] = open[t]
          BY <3>1, <4>2
        <5>2. recent'[t] = recent[t]
          BY <3>1, <4>2, Zenon
        <5>3. QED
          BY <3>3, <5>1, <5>2
      <4>3. QED
        BY <4>1, <4>2
    <3>7. ASSUME NEW u \in Tags
          PROVE  /\ open'[u] > 0 \/ recent'[u] => landed'[u]
                 /\ phase'[u] = "reply" /\ reply'[u] = "ok" => acknowledged'[u]
                 /\ "FILLED" \in {record'[u], outcome'[u]} => landed'[u] \/ acknowledged'[u]
      <4>1. CASE u = t
        BY <3>2, <3>3, <3>4, <3>6, <4>1
      <4>2. CASE u # t
        BY <3>2, <3>3, <3>5, <4>2
      <4>3. QED
        BY <4>1, <4>2
    <3>8. QED
      BY <3>7
  <2>6. CASE OnFilled(t)
    BY <2>6 DEF OnFilled, Persist, Return
  <2>7. CASE OnAmbiguous(t)
    BY <2>7 DEF OnAmbiguous, Persist
  <2>8. CASE OnReprice(t)
    BY <2>8 DEF OnReprice, LastAttempt, Abandon, Retry, Persist, Return
  <2>9. CASE OnTransient(t)
    BY <2>9 DEF OnTransient, LastAttempt, Abandon, Persist, Return
  <2>10. CASE FindBeforeRetry(t)
    BY <2>10 DEF FindBeforeRetry, FindAnswers, Visible, Return, Retry
  <2>11. CASE OnAbort(t)
    BY <2>11 DEF OnAbort, Abandon, Persist, Return
  <2>12. CASE OnKill(t)
    BY <2>12 DEF OnKill, Abandon, Persist, Return
  <2>13. CASE Poll(t)
    BY <2>13, ZenonT(60) DEF Poll, FindAnswers, Visible, Persist, Return
  <2>14. CASE GiveUp(t)
    BY <2>14 DEF GiveUp, Persist, Return
  <2>15. QED
    BY <1>2, <2>1, <2>2, <2>3, <2>4, <2>5, <2>6, <2>7,
       <2>8, <2>9, <2>10, <2>11, <2>12, <2>13, <2>14 DEF Execute
<1>3. ASSUME NEW t \in Tags, ResolveAtStartup(t) PROVE Evidence'
  BY <1>3 DEF ResolveAtStartup, FindAnswers, Visible, Persist
<1>4. ASSUME NEW t \in Tags, Server(t) PROVE Evidence'
  BY <1>4 DEF Server, Land, Lose, ServerCloses, HistoryAges
<1>5. CASE Crash BY <1>5 DEF Crash
<1>6. CASE Restart BY <1>6 DEF Restart
<1>7. CASE EngineReady BY <1>7 DEF EngineReady
<1>8. CASE UNCHANGED vars BY <1>8 DEF vars
<1>9. QED
  BY <1>1, <1>2, <1>3, <1>4, <1>5, <1>6, <1>7, <1>8 DEF Next

\* A trade recorded or returned as FILLED was executed by the server, or the
\* server has said so.
THEOREM FillsAreFounded == Spec => []FilledIsFounded
<1>1. Init => Evidence
  BY DEF Init, Evidence
<1>2. TypeOK /\ Evidence /\ [Next]_vars => Evidence'
  BY EvidenceStep
<1>3. Evidence => FilledIsFounded
  BY DEF Evidence, FilledIsFounded
<1>4. QED
  BY <1>1, <1>2, <1>3, TypeCorrect, PTL DEF Spec

-----------------------------------------------------------------------------
(* An ambiguous send is not repeated, and the retries are bounded.         *)

\* From the ambiguous answer on, no handler leads back to a send.
LEMMA AmbiguousStep ==
  ASSUME TypeOK, AmbiguousNeverResent, [Next]_vars
  PROVE  AmbiguousNeverResent'
<1> USE DEF engineVars, threadVars, brokerVars, TypeOK, AmbiguousNeverResent
<1>1. ASSUME NEW t \in Tags, Approve(t) PROVE AmbiguousNeverResent'
  BY <1>1 DEF Approve
<1>2. ASSUME NEW t \in Tags, Execute(t) PROVE AmbiguousNeverResent'
  <2>1. CASE GuardRefuses(t)
    BY <2>1 DEF GuardRefuses, Return
  <2>2. CASE GuardPasses(t)
    BY <2>2 DEF GuardPasses, Persist
  <2>3. CASE QuoteRefuses(t)
    BY <2>3 DEF QuoteRefuses, Abandon, Persist, Return
  <2>4. CASE QuotePasses(t)
    BY <2>4 DEF QuotePasses, Persist
  <2>5. CASE Send(t)
    BY <2>5 DEF Send, SendResults, Fates
  <2>6. CASE OnFilled(t)
    BY <2>6 DEF OnFilled, Persist, Return
  <2>7. CASE OnAmbiguous(t)
    BY <2>7 DEF OnAmbiguous, Persist
  <2>8. CASE OnReprice(t)
    BY <2>8 DEF OnReprice, LastAttempt, Abandon, Retry, Persist, Return
  <2>9. CASE OnTransient(t)
    BY <2>9 DEF OnTransient, LastAttempt, Abandon, Persist, Return
  <2>10. CASE FindBeforeRetry(t)
    BY <2>10 DEF FindBeforeRetry, FindAnswers, Visible, Return, Retry
  <2>11. CASE OnAbort(t)
    BY <2>11 DEF OnAbort, Abandon, Persist, Return
  <2>12. CASE OnKill(t)
    BY <2>12 DEF OnKill, Abandon, Persist, Return
  <2>13. CASE Poll(t)
    BY <2>13 DEF Poll, FindAnswers, Visible, Persist, Return
  <2>14. CASE GiveUp(t)
    BY <2>14 DEF GiveUp, Persist, Return
  <2>15. QED
    BY <1>2, <2>1, <2>2, <2>3, <2>4, <2>5, <2>6, <2>7,
       <2>8, <2>9, <2>10, <2>11, <2>12, <2>13, <2>14 DEF Execute
<1>3. ASSUME NEW t \in Tags, ResolveAtStartup(t) PROVE AmbiguousNeverResent'
  BY <1>3 DEF ResolveAtStartup, FindAnswers, Visible, Persist
<1>4. ASSUME NEW t \in Tags, Server(t) PROVE AmbiguousNeverResent'
  BY <1>4 DEF Server, Land, Lose, ServerCloses, HistoryAges
<1>5. CASE Crash BY <1>5 DEF Crash
<1>6. CASE Restart BY <1>6 DEF Restart
<1>7. CASE EngineReady BY <1>7 DEF EngineReady
<1>8. CASE UNCHANGED vars BY <1>8 DEF vars
<1>9. QED
  BY <1>1, <1>2, <1>3, <1>4, <1>5, <1>6, <1>7, <1>8 DEF Next

\* Rule 2 of the module: an ambiguous send is never resent.
THEOREM NeverResent == Spec => []AmbiguousNeverResent
<1>1. Init => AmbiguousNeverResent
  BY DEF Init, AmbiguousNeverResent
<1>2. TypeOK /\ AmbiguousNeverResent /\ [Next]_vars => AmbiguousNeverResent'
  BY AmbiguousStep
<1>3. QED
  BY <1>1, <1>2, TypeCorrect, PTL DEF Spec

\* Waiting for the query before a retry, an execution has attempts left.
Budget ==
    \A t \in Tags :
        /\ attempt[t] <= MaxAttempts
        /\ phase[t] = "find" => attempt[t] < MaxAttempts

\* Only a handler that has tested for the last attempt makes another.
LEMMA BudgetStep ==
  ASSUME TypeOK, Budget, [Next]_vars
  PROVE  Budget'
<1> USE BoundsAssumption DEF engineVars, threadVars, brokerVars, TypeOK, Budget
<1>1. ASSUME NEW t \in Tags, Approve(t) PROVE Budget'
  BY <1>1 DEF Approve
<1>2. ASSUME NEW t \in Tags, Execute(t) PROVE Budget'
  <2>1. CASE GuardRefuses(t)
    BY <2>1 DEF GuardRefuses, Return
  <2>2. CASE GuardPasses(t)
    BY <2>2 DEF GuardPasses, Persist
  <2>3. CASE QuoteRefuses(t)
    BY <2>3 DEF QuoteRefuses, Abandon, Persist, Return
  <2>4. CASE QuotePasses(t)
    BY <2>4 DEF QuotePasses, Persist
  <2>5. CASE Send(t)
    BY <2>5 DEF Send, SendResults, Fates
  <2>6. CASE OnFilled(t)
    BY <2>6 DEF OnFilled, Persist, Return
  <2>7. CASE OnAmbiguous(t)
    BY <2>7 DEF OnAmbiguous, Persist
  <2>8. CASE OnReprice(t)
    BY <2>8 DEF OnReprice, LastAttempt, Abandon, Retry, Persist, Return
  <2>9. CASE OnTransient(t)
    BY <2>9 DEF OnTransient, LastAttempt, Abandon, Persist, Return
  <2>10. CASE FindBeforeRetry(t)
    BY <2>10 DEF FindBeforeRetry, FindAnswers, Visible, Return, Retry
  <2>11. CASE OnAbort(t)
    BY <2>11 DEF OnAbort, Abandon, Persist, Return
  <2>12. CASE OnKill(t)
    BY <2>12 DEF OnKill, Abandon, Persist, Return
  <2>13. CASE Poll(t)
    BY <2>13 DEF Poll, FindAnswers, Visible, Persist, Return
  <2>14. CASE GiveUp(t)
    BY <2>14 DEF GiveUp, Persist, Return
  <2>15. QED
    BY <1>2, <2>1, <2>2, <2>3, <2>4, <2>5, <2>6, <2>7,
       <2>8, <2>9, <2>10, <2>11, <2>12, <2>13, <2>14 DEF Execute
<1>3. ASSUME NEW t \in Tags, ResolveAtStartup(t) PROVE Budget'
  BY <1>3 DEF ResolveAtStartup, FindAnswers, Visible, Persist
<1>4. ASSUME NEW t \in Tags, Server(t) PROVE Budget'
  BY <1>4 DEF Server, Land, Lose, ServerCloses, HistoryAges
<1>5. CASE Crash BY <1>5 DEF Crash
<1>6. CASE Restart BY <1>6 DEF Restart
<1>7. CASE EngineReady BY <1>7 DEF EngineReady
<1>8. CASE UNCHANGED vars BY <1>8 DEF vars
<1>9. QED
  BY <1>1, <1>2, <1>3, <1>4, <1>5, <1>6, <1>7, <1>8 DEF Next

\* No execution makes more than max_send_retries + 1 sends.
THEOREM AttemptsBounded == Spec => []AttemptsWithinBudget
<1>1. Init => Budget
  BY BoundsAssumption DEF Init, Budget
<1>2. TypeOK /\ Budget /\ [Next]_vars => Budget'
  BY BudgetStep
<1>3. Budget => AttemptsWithinBudget
  BY DEF Budget, AttemptsWithinBudget
<1>4. QED
  BY <1>1, <1>2, <1>3, TypeCorrect, PTL DEF Spec

-----------------------------------------------------------------------------
(* The record follows the execution.                                       *)

\* Where execute() stands says what is recorded; only a running engine has
\* executions; and a RECONCILING record left behind has stopped the engine.
Course ==
    \A t \in Tags :
        /\ mode # "up" => phase[t] = "idle"
        /\ phase[t] = "quote" => record[t] \in {"INTENT", "SENT"}
        /\ phase[t] \in {"send", "reply", "find"} => record[t] = "SENT"
        /\ phase[t] = "poll" => record[t] = "RECONCILING"
        /\ mode = "up" /\ phase[t] \in {"idle", "approved"}
              /\ record[t] = "RECONCILING" => "STATE_DIVERGENCE" \in halts

\* Each handler writes the status that goes with the place it leads to.
LEMMA CourseStep ==
  ASSUME TypeOK, Course, [Next]_vars
  PROVE  Course'
<1> USE DEF engineVars, threadVars, brokerVars, TypeOK, Course, Unresolved
<1>1. ASSUME NEW t \in Tags, Approve(t) PROVE Course'
  BY <1>1 DEF Approve
<1>2. ASSUME NEW t \in Tags, Execute(t) PROVE Course'
  <2>1. CASE GuardRefuses(t)
    BY <2>1 DEF GuardRefuses, Return
  <2>2. CASE GuardPasses(t)
    BY <2>2 DEF GuardPasses, Persist
  <2>3. CASE QuoteRefuses(t)
    BY <2>3 DEF QuoteRefuses, Abandon, Persist, Return
  <2>4. CASE QuotePasses(t)
    BY <2>4 DEF QuotePasses, Persist
  <2>5. CASE Send(t)
    BY <2>5 DEF Send, SendResults, Fates
  <2>6. CASE OnFilled(t)
    BY <2>6 DEF OnFilled, Persist, Return
  <2>7. CASE OnAmbiguous(t)
    BY <2>7 DEF OnAmbiguous, Persist
  <2>8. CASE OnReprice(t)
    BY <2>8 DEF OnReprice, LastAttempt, Abandon, Retry, Persist, Return
  <2>9. CASE OnTransient(t)
    BY <2>9 DEF OnTransient, LastAttempt, Abandon, Persist, Return
  <2>10. CASE FindBeforeRetry(t)
    BY <2>10 DEF FindBeforeRetry, FindAnswers, Visible, Return, Retry
  <2>11. CASE OnAbort(t)
    BY <2>11 DEF OnAbort, Abandon, Persist, Return
  <2>12. CASE OnKill(t)
    BY <2>12 DEF OnKill, Abandon, Persist, Return
  <2>13. CASE Poll(t)
    BY <2>13 DEF Poll, FindAnswers, Visible, Persist, Return
  <2>14. CASE GiveUp(t)
    BY <2>14 DEF GiveUp, Persist, Return
  <2>15. QED
    BY <1>2, <2>1, <2>2, <2>3, <2>4, <2>5, <2>6, <2>7,
       <2>8, <2>9, <2>10, <2>11, <2>12, <2>13, <2>14 DEF Execute
<1>3. ASSUME NEW t \in Tags, ResolveAtStartup(t) PROVE Course'
  BY <1>3 DEF ResolveAtStartup, FindAnswers, Visible, Persist
<1>4. ASSUME NEW t \in Tags, Server(t) PROVE Course'
  BY <1>4 DEF Server, Land, Lose, ServerCloses, HistoryAges
<1>5. CASE Crash BY <1>5 DEF Crash
<1>6. CASE Restart BY <1>6 DEF Restart
<1>7. CASE EngineReady BY <1>7 DEF EngineReady
<1>8. CASE UNCHANGED vars BY <1>8 DEF vars
<1>9. QED
  BY <1>1, <1>2, <1>3, <1>4, <1>5, <1>6, <1>7, <1>8 DEF Next

\* The course holds in every reachable state.
LEMMA CourseHolds == Spec => []Course
<1>1. Init => Course
  BY DEF Init, Course
<1>2. TypeOK /\ Course /\ [Next]_vars => Course'
  BY CourseStep
<1>3. QED
  BY <1>1, <1>2, TypeCorrect, PTL DEF Spec

\* Rule 3 of the module: an order left unknown has stopped the engine.
THEOREM UnknownStops == Spec => []UnknownHalts
<1>1. Course => UnknownHalts
  BY DEF Course, UnknownHalts
<1>2. QED
  BY <1>1, CourseHolds, PTL

-----------------------------------------------------------------------------
(* One intended trade, one position.                                       *)

\* Nothing is queued, and a success was executed; an execution about to send has
\* no position open, and one that waits for an answer can see the position it may
\* have opened.
Single ==
    \A t \in Tags :
        /\ inflight[t] = 0
        /\ acknowledged[t] => landed[t]
        /\ open[t] <= 1
        /\ phase[t] \in {"quote", "send"} => open[t] = 0
        /\ phase[t] = "reply" /\ reply[t] = "reprice" => open[t] = 0
        /\ phase[t] \in {"reply", "find", "poll"} /\ open[t] > 0 => recent[t]

\* If the server settles every send at once and answers every query, a
\* retry starts only when the query has seen no position.
LEMMA SingleStep ==
  ASSUME ~LateLanding, ~FindFails, TypeOK, Single, [Next]_vars
  PROVE  Single'
<1> USE DEF engineVars, threadVars, brokerVars, TypeOK, Single
<1>1. ASSUME NEW t \in Tags, Approve(t) PROVE Single'
  BY <1>1 DEF Approve
<1>2. ASSUME NEW t \in Tags, Execute(t) PROVE Single'
  <2>1. CASE GuardRefuses(t)
    BY <2>1 DEF GuardRefuses, Return
  <2>2. CASE GuardPasses(t)
    BY <2>2 DEF GuardPasses, Persist
  <2>3. CASE QuoteRefuses(t)
    BY <2>3 DEF QuoteRefuses, Abandon, Persist, Return
  <2>4. CASE QuotePasses(t)
    BY <2>4 DEF QuotePasses, Persist
  <2>5. CASE Send(t)
    <3>1. PICK r \in SendResults :
             /\ reply' = [reply EXCEPT ![t] = r[1]]
             /\ open' = [open EXCEPT ![t] = IF r[2] = "lands" THEN @ + 1 ELSE @]
             /\ recent' = [recent EXCEPT ![t] = @ \/ r[2] = "lands"]
             /\ landed' = [landed EXCEPT ![t] = @ \/ r[2] = "lands"]
             /\ inflight' = [inflight EXCEPT ![t] = IF r[2] = "queued" THEN @ + 1 ELSE @]
             /\ acknowledged' = [acknowledged EXCEPT ![t] = @ \/ r[1] = "ok"]
      BY <2>5 DEF Send
    <3>2. /\ r[2] # "queued" /\ (r[1] = "reprice" => r[2] = "lost")
          /\ r[1] = "ok" => r[2] = "lands"
      BY SendResultFacts
    <3>3. \A u \in Tags : acknowledged'[u] => landed'[u]
      <4>1. ASSUME NEW u \in Tags, u # t
            PROVE  acknowledged'[u] = acknowledged[u] /\ landed'[u] = landed[u]
        BY <3>1, <4>1, Zenon
      <4>2. CASE r[1] = "ok"
        <5>1. landed'[t]
          BY <3>1, <3>2, <4>2, Zenon
        <5>2. QED
          BY <4>1, <5>1
      <4>3. CASE r[1] # "ok"
        <5>1. acknowledged'[t] => acknowledged[t]
          BY <3>1, <4>3, Zenon
        <5>2. landed[t] => landed'[t]
          BY <3>1, Zenon
        <5>3. QED
          BY <4>1, <5>1, <5>2
      <4>4. QED
        BY <4>2, <4>3
    <3>4. open[t] = 0 /\ phase' = [phase EXCEPT ![t] = "reply"]
      BY <2>5 DEF Send
    <3>5. CASE r[2] = "lands"
      <4>1. r[1] # "reprice"
        BY <3>2, <3>5
      <4>2. open[t] + 1 = 1
        BY <3>4
      <4>3. open' = [open EXCEPT ![t] = 1]
        BY <3>1, <3>5, <4>2, Zenon
      <4>4. recent' = [recent EXCEPT ![t] = TRUE]
        BY <3>1, <3>5, Zenon
      <4>5. inflight' = inflight
        BY <3>1, <3>5
      <4>6. QED
        BY <3>1, <3>4, <3>3, <4>1, <4>3, <4>4, <4>5
    <3>6. CASE r[2] # "lands"
      <4>1. open' = open /\ inflight' = inflight
        BY <3>1, <3>2, <3>6
      <4>2. recent' = recent
        BY <3>1, <3>6
      <4>3. QED
        BY <3>1, <3>4, <3>3, <4>1, <4>2
    <3>7. QED
      BY <3>5, <3>6
  <2>6. CASE OnFilled(t)
    BY <2>6 DEF OnFilled, Persist, Return
  <2>7. CASE OnAmbiguous(t)
    BY <2>7 DEF OnAmbiguous, Persist
  <2>8. CASE OnReprice(t)
    BY <2>8 DEF OnReprice, LastAttempt, Abandon, Retry, Persist, Return
  <2>9. CASE OnTransient(t)
    BY <2>9 DEF OnTransient, LastAttempt, Abandon, Persist, Return
  <2>10. CASE FindBeforeRetry(t)
    BY <2>10 DEF FindBeforeRetry, FindAnswers, Visible, Return, Retry
  <2>11. CASE OnAbort(t)
    BY <2>11 DEF OnAbort, Abandon, Persist, Return
  <2>12. CASE OnKill(t)
    BY <2>12 DEF OnKill, Abandon, Persist, Return
  <2>13. CASE Poll(t)
    BY <2>13 DEF Poll, FindAnswers, Visible, Persist, Return
  <2>14. CASE GiveUp(t)
    BY <2>14 DEF GiveUp, Persist, Return
  <2>15. QED
    BY <1>2, <2>1, <2>2, <2>3, <2>4, <2>5, <2>6, <2>7,
       <2>8, <2>9, <2>10, <2>11, <2>12, <2>13, <2>14 DEF Execute
<1>3. ASSUME NEW t \in Tags, ResolveAtStartup(t) PROVE Single'
  BY <1>3 DEF ResolveAtStartup, FindAnswers, Visible, Persist
<1>4. ASSUME NEW t \in Tags, Server(t) PROVE Single'
  BY <1>4 DEF Server, Land, Lose, ServerCloses, HistoryAges
<1>5. CASE Crash BY <1>5 DEF Crash
<1>6. CASE Restart BY <1>6 DEF Restart
<1>7. CASE EngineReady BY <1>7 DEF EngineReady
<1>8. CASE UNCHANGED vars BY <1>8 DEF vars
<1>9. QED
  BY <1>1, <1>2, <1>3, <1>4, <1>5, <1>6, <1>7, <1>8 DEF Next

\* One intended trade never becomes two positions, as long as the server
\* settles every send at once and answers every query by tag.
THEOREM OnePositionPerTag ==
    ~LateLanding /\ ~FindFails => (Spec => []AtMostOneOpen)
<1> SUFFICES ASSUME ~LateLanding, ~FindFails PROVE Spec => []AtMostOneOpen
  OBVIOUS
<1>1. Init => Single
  BY DEF Init, Single
<1>2. TypeOK /\ Single /\ [Next]_vars => Single'
  BY SingleStep
<1>3. Single => AtMostOneOpen
  BY DEF Single, AtMostOneOpen
<1>4. QED
  BY <1>1, <1>2, <1>3, TypeCorrect, PTL DEF Spec

-----------------------------------------------------------------------------
(* The order manager implements TradeIntent.                               *)

\* Every step of the order manager is a step of TradeIntent or invisible.
LEMMA IntentStepSimulation ==
  ASSUME ~LateLanding, ~FindFails, TypeOK, Single, Evidence, [Next]_vars
  PROVE  [Intent!Next]_(Intent!vars)
<1> USE DEF engineVars, threadVars, brokerVars, Intent!vars
<1>1. ASSUME NEW t \in Tags, Approve(t) PROVE UNCHANGED Intent!vars
  BY <1>1 DEF Approve
<1>2. ASSUME NEW t \in Tags, Execute(t) PROVE [Intent!Next]_(Intent!vars)
  <2>1. CASE GuardRefuses(t)
    BY <2>1 DEF GuardRefuses, Return, Intent!Next, Intent!ReportAbandoned
  <2>2. CASE GuardPasses(t)
    BY <2>2 DEF GuardPasses
  <2>3. CASE QuoteRefuses(t)
    BY <2>3 DEF QuoteRefuses, Abandon, Return, Intent!Next, Intent!ReportAbandoned
  <2>4. CASE QuotePasses(t)
    BY <2>4 DEF QuotePasses
  <2>5. CASE Send(t)
    <3>1. PICK r \in SendResults :
             /\ open' = [open EXCEPT ![t] = IF r[2] = "lands" THEN @ + 1 ELSE @]
             /\ landed' = [landed EXCEPT ![t] = @ \/ r[2] = "lands"]
      BY <2>5 DEF Send
    <3>2. open[t] = 0 /\ UNCHANGED <<outcome, halts>>
      BY <2>5 DEF Send, Single
    <3>3. CASE r[2] = "lands"
      <4>1. open[t] + 1 = 1
        BY <3>2
      <4>2. open' = [open EXCEPT ![t] = 1]
        BY <3>1, <3>3, <4>1, Zenon
      <4>3. landed' = [landed EXCEPT ![t] = TRUE]
        BY <3>1, <3>3, Zenon
      <4>4. Intent!Place(t)
        BY <3>2, <4>2, <4>3 DEF Intent!Place
      <4>5. QED
        BY <4>4 DEF Intent!Next
    <3>4. CASE r[2] # "lands"
      <4>1. UNCHANGED <<open, landed>>
        BY <3>1, <3>4 DEF TypeOK
      <4>2. QED
        BY <3>2, <4>1
    <3>5. QED
      BY <3>3, <3>4
  <2>6. CASE OnFilled(t)
    BY <2>6 DEF OnFilled, Return, Single, Evidence, Intent!Next, Intent!ReportFilled
  <2>7. CASE OnAmbiguous(t)
    BY <2>7 DEF OnAmbiguous
  <2>8. CASE OnReprice(t)
    BY <2>8 DEF OnReprice, Abandon, Retry, Return, Intent!Next, Intent!ReportAbandoned
  <2>9. CASE OnTransient(t)
    BY <2>9 DEF OnTransient, Abandon, Return, Intent!Next, Intent!ReportAbandoned
  <2>10. CASE FindBeforeRetry(t)
    BY <2>10 DEF FindBeforeRetry, FindAnswers, Visible, Retry, Return, Evidence,
                 Intent!Next, Intent!ReportFilled
  <2>11. CASE OnAbort(t)
    BY <2>11 DEF OnAbort, Abandon, Return, Intent!Next, Intent!ReportAbandoned
  <2>12. CASE OnKill(t)
    BY <2>12 DEF OnKill, Abandon, Return, Intent!Next, Intent!ReportAbandoned
  <2>13. CASE Poll(t)
    BY <2>13 DEF Poll, FindAnswers, Visible, Return, Evidence,
                 Intent!Next, Intent!ReportFilled
  <2>14. CASE GiveUp(t)
    BY <2>14 DEF GiveUp, Return, Intent!Next, Intent!ReportUnknown
  <2>15. QED
    BY <1>2, <2>1, <2>2, <2>3, <2>4, <2>5, <2>6, <2>7,
       <2>8, <2>9, <2>10, <2>11, <2>12, <2>13, <2>14 DEF Execute
<1>3. ASSUME NEW t \in Tags, ResolveAtStartup(t) PROVE UNCHANGED Intent!vars
  BY <1>3 DEF ResolveAtStartup
<1>4. ASSUME NEW t \in Tags, Server(t) PROVE [Intent!Next]_(Intent!vars)
  <2>1. ~Land(t) /\ ~Lose(t)
    BY DEF Land, Lose, Single
  <2>2. CASE ServerCloses(t)
    <3>1. open[t] = 1 /\ open[t] - 1 = 0
      BY <2>2 DEF ServerCloses, Single, TypeOK
    <3>2. open' = [open EXCEPT ![t] = 0]
      BY <2>2, <3>1, Zenon DEF ServerCloses
    <3>3. Intent!Release(t)
      BY <2>2, <3>1, <3>2 DEF ServerCloses, Intent!Release
    <3>4. QED
      BY <3>3 DEF Intent!Next
  <2>3. CASE HistoryAges(t)
    BY <2>3 DEF HistoryAges
  <2>4. QED
    BY <1>4, <2>1, <2>2, <2>3 DEF Server
<1>5. CASE Crash
  BY <1>5 DEF Crash, Intent!Next, Intent!Forget
<1>6. CASE Restart BY <1>6 DEF Restart
<1>7. CASE EngineReady BY <1>7 DEF EngineReady
<1>8. CASE UNCHANGED vars BY <1>8 DEF vars
<1>9. QED
  BY <1>1, <1>2, <1>3, <1>4, <1>5, <1>6, <1>7, <1>8 DEF Next

\* Under the same two conditions the order manager implements TradeIntent.
THEOREM OrderManagerImplementsTradeIntent ==
    ~LateLanding /\ ~FindFails => (Spec => ImplementsTradeIntent)
<1> SUFFICES ASSUME ~LateLanding, ~FindFails PROVE Spec => Intent!Spec
  BY DEF ImplementsTradeIntent
<1>1. Init => Intent!Init
  BY DEF Init, Intent!Init
<1>2. Init => Single /\ Evidence
  BY DEF Init, Single, Evidence
<1>3. TypeOK /\ Single /\ Evidence /\ [Next]_vars => Single' /\ Evidence'
  BY SingleStep, EvidenceStep
<1>4. TypeOK /\ Single /\ Evidence /\ [Next]_vars => [Intent!Next]_(Intent!vars)
  BY IntentStepSimulation
<1>5. QED
  BY <1>1, <1>2, <1>3, <1>4, TypeCorrect, PTL DEF Spec, Intent!Spec

=============================================================================
