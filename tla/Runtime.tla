------------------------------- MODULE Runtime -------------------------------
(***************************************************************************)
(* The engine's processes and the bridge that they call.  An engine that   *)
(* has the lock starts up with reads from the broker and then runs loops,  *)
(* whose threads (the event loop and the decision's) call it concurrently. *)
(***************************************************************************)
EXTENDS Bridge, InstanceLock

\* An engine is a client of the bridge.
ASSUME RuntimeAssumption == Engines \subseteq Clients

runtimeVars == <<bridgeVars, lockVars>>

CallersOf(e) == {t \in Callers : ClientOf[t] = e}
Idle(e) == \A t \in CallersOf(e) : at[t] = "idle"

RuntimeInit == BridgeInit /\ LockInit

-----------------------------------------------------------------------------
(* TradingEngine.startup() and run().                                      *)

Acquire(e) == AcquireStep(e) /\ UNCHANGED bridgeVars

\* startup() or a loop calls the broker.  stop() ends the loops that watch the
\* engine's flag; the scanner watches its own, which nobody clears, and calls on.
EngineCalls(e) ==
    /\ stage[e] = "held"
    /\ \E t \in CallersOf(e), mutates \in BOOLEAN : Take(t, mutates)
    /\ UNCHANGED lockVars

Calling(t) ==
    /\ \/ Request(t) \/ Fail(t)
       \/ \E verdict \in {"ok", "refused", "error", "ambiguous"} : Receive(t, verdict)
    /\ UNCHANGED lockVars

\* The process exits in order: startup() refuses, or Ctrl-C where no signal
\* handler can be set.
Quits(e) == Idle(e) /\ Releases(e) /\ ClientDies(e)

Killed(e) == Dies(e) /\ ClientDies(e)

EngineStep(e) == Acquire(e) \/ EngineCalls(e) \/ Quits(e) \/ Killed(e)

Serving == ServerStep /\ UNCHANGED lockVars

RuntimeNext ==
    \/ \E e \in Engines : EngineStep(e)
    \/ \E t \in Callers : Calling(t)
    \/ Serving

\* Timeouts elapse and the threads of a live process run on.  Nothing is
\* assumed of the bridge, which may hang, or of who gets the lock.
CallFairness == \A t \in Callers : WF_runtimeVars(Calling(t))

RuntimeSpec == RuntimeInit /\ [][RuntimeNext]_runtimeVars /\ CallFairness

-----------------------------------------------------------------------------
(* Properties                                                              *)

\* Types; a transport is locked exactly while one of its threads calls; and
\* an engine calls only while it holds the instance lock.
RuntimeTypeOK ==
    /\ BridgeTypeOK /\ LockTypeOK
    /\ \A e \in Engines : ~Idle(e) => stage[e] = "held"

\* No caller is given the answer to another call, and what was executed is what
\* the callers were told.
CallsAnswered == RuntimeTypeOK /\ AnswersMatch /\ ExecutedAsAnswered

\* A call gives the transport's lock back although the bridge hangs or dies:
\* what waits behind a slow send, a FLATTEN perhaps, does not wait for ever.
LockReleased == \A t \in Callers : (lock[ClientOf[t]] = t) ~> (lock[ClientOf[t]] # t)
=============================================================================
