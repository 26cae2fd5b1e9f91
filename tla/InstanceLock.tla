----------------------------- MODULE InstanceLock -----------------------------
(***************************************************************************)
(* SingleInstanceLock of engine/orchestrator.py, with SQLite: the file     *)
(* data/engine.lock, which holds the pid of the engine that made it.  A    *)
(* file is taken for one that a crash has left if it holds no number, the  *)
(* pid of no process, or that of a process which may not be signalled.     *)
(***************************************************************************)
EXTENDS Naturals, FiniteSets

CONSTANTS
    Engines,   \* processes that start an engine
    UserOf,    \* [Engines -> the operating system's user it runs as]
    MaxStarts  \* bound: starts of engines

Leftovers == {"absent", "dead", "empty", "garbage"}

ASSUME LockAssumption == MaxStarts \in Nat /\ Engines \cap (Leftovers \cup {"none"}) = {}

VARIABLES
    file,   \* "absent", the engine whose pid is in it or will be, "dead" (the
            \* pid of an engine that is gone), "empty" (its maker is gone) or
            \* "garbage" (no number)
    stage,  \* [Engines -> where acquire() stands]
    wrote,  \* [Engines -> has it written its pid?]
    starts

lockVars == <<file, stage, wrote, starts>>

Stages == {"down", "found", "stale", "recreate", "created", "held"}
Held == {e \in Engines : stage[e] = "held"}

\* An earlier engine may have been killed, before or after it wrote its pid, or
\* the disk have spoilt what it wrote.
LockInit ==
    /\ file \in Leftovers /\ stage = [e \in Engines |-> "down"]
    /\ wrote = [e \in Engines |-> FALSE]
    /\ starts = 0

\* os.open(O_CREAT | O_EXCL)
Makes(e) == file' = e /\ stage' = [stage EXCEPT ![e] = "created"]

Opens(e) ==
    /\ stage[e] = "down" /\ starts < MaxStarts
    /\ starts' = starts + 1
    /\ IF file = "absent"
       THEN Makes(e)
       ELSE stage' = [stage EXCEPT ![e] = "found"] /\ UNCHANGED file
    /\ UNCHANGED wrote

\* What os.kill(pid, 0) may answer engine e: of an engine that is gone, that
\* there is no such process, or that its pid is another's by now; of one that
\* lives, that it does, or that e may not ask.  An empty file, and one whose
\* maker has not written yet, reads as pid 0, e's own process group.
Answers(e) ==
    IF file = "dead" THEN {"no process", "not permitted", "alive"}
    ELSE IF file = "garbage" THEN {"no number"}
    ELSE IF file # "empty" /\ wrote[file] /\ UserOf[file] # UserOf[e]
         THEN {"not permitted"} ELSE {"alive"}

\* except (ValueError, ProcessLookupError, PermissionError)
IsStale(answer) == answer \in {"no number", "no process", "not permitted"}

\* read_text() raises if the file is gone, unless it goes, with its owner, when
\* it has just been read; an owner that answers refuses.
ChecksPid(e) ==
    /\ stage[e] = "found"
    /\ \/ /\ file = "absent"
          /\ stage' \in {[stage EXCEPT ![e] = s] : s \in {"down", "stale"}}
       \/ /\ file # "absent"
          /\ \E answer \in Answers(e) :
                stage' = [stage EXCEPT ![e] = IF IsStale(answer) THEN "stale" ELSE "down"]
    /\ UNCHANGED <<file, wrote, starts>>

Unlinks(e) ==
    /\ stage[e] = "stale"
    /\ file' = "absent" /\ stage' = [stage EXCEPT ![e] = "recreate"]
    /\ UNCHANGED <<wrote, starts>>

\* The second O_EXCL raises if there is a file again.
Recreates(e) ==
    /\ stage[e] = "recreate"
    /\ IF file = "absent"
       THEN Makes(e)
       ELSE stage' = [stage EXCEPT ![e] = "down"] /\ UNCHANGED file
    /\ UNCHANGED <<wrote, starts>>

WritesPid(e) ==
    /\ stage[e] = "created"
    /\ wrote' = [wrote EXCEPT ![e] = TRUE]
    /\ stage' = [stage EXCEPT ![e] = "held"]
    /\ UNCHANGED <<file, starts>>

AcquireStep(e) == Opens(e) \/ ChecksPid(e) \/ Unlinks(e) \/ Recreates(e) \/ WritesPid(e)

Ended(e) ==
    /\ stage' = [stage EXCEPT ![e] = "down"]
    /\ wrote' = [wrote EXCEPT ![e] = FALSE]
    /\ UNCHANGED <<starts>>

\* release(): whose file it is is not asked.
Releases(e) == stage[e] = "held" /\ file' = "absent" /\ Ended(e)

\* The process is killed.
Dies(e) ==
    /\ stage[e] # "down"
    /\ file' = IF file # e THEN file ELSE IF wrote[e] THEN "dead" ELSE "empty"
    /\ Ended(e)

LockTypeOK ==
    /\ file \in Engines \cup Leftovers
    /\ stage \in [Engines -> Stages] /\ wrote \in [Engines -> BOOLEAN]
    /\ starts \in 0..MaxStarts

-----------------------------------------------------------------------------
(* What the docstring says, and does not hold.                              *)

\* "Two engines against one account is catastrophic.  Refuse to start without
\* the lock": at most one engine holds it, whoever starts, crashes and restarts.
AtMostOneEngine == Cardinality(Held) <= 1
=============================================================================
