------------------------------ MODULE JobRunner ------------------------------
(***************************************************************************)
(* dashboard/jobs.py: the operations that the dashboard starts, one at a   *)
(* time, each a process with a thread that starts it, reads its output and *)
(* cleans up after it.                                                     *)
(***************************************************************************)
EXTENDS Naturals, FiniteSets

CONSTANTS
    MaxHistory, \* jobs that are remembered
    MaxJobs     \* bound: jobs started

Jobs == 1..MaxJobs

VARIABLES
    known,    \* the jobs of JobRunner._jobs
    current,  \* JobRunner._current, 0 for None
    process,  \* the job of JobRunner._process, 0 for None
    status,   \* [Jobs -> Job.status]
    thread,   \* [Jobs -> where its thread stands]
    child     \* [Jobs -> what became of its process]

jobVars == <<known, current, process, status, thread, child>>

JobInit ==
    /\ known = {} /\ current = 0 /\ process = 0
    /\ status = [j \in Jobs |-> "none"]
    /\ thread = [j \in Jobs |-> "none"]
    /\ child = [j \in Jobs |-> "none"]

\* Mutation: a job runs when its process is known.
Busy_Process == process # 0

Busy == current # 0

Youngest == {j \in known : Cardinality({i \in known : i > j}) < MaxHistory - 1}

\* start(); one that is refused changes nothing.
JobStarts(j) ==
    /\ ~Busy
    /\ thread[j] = "none" /\ \A i \in 1..j - 1 : thread[i] # "none"
    /\ known' = Youngest \cup {j}
    /\ current' = j
    /\ status' = [status EXCEPT ![j] = "RUNNING"]
    /\ thread' = [thread EXCEPT ![j] = "spawning"]
    /\ UNCHANGED <<process, child>>

\* The except clause of _run(): Popen() raises, or the loop that reads the
\* output does, whatever its process does by then.
RunFails(j) ==
    /\ thread[j] \in {"spawning", "reading"}
    /\ status' = [status EXCEPT ![j] = "ERROR"]
    /\ thread' = [thread EXCEPT ![j] = "ending"]
    /\ UNCHANGED <<known, current, process, child>>

Spawns(j) ==
    /\ thread[j] = "spawning"
    /\ child' = [child EXCEPT ![j] = "alive"]
    /\ thread' = [thread EXCEPT ![j] = "spawned"]
    /\ UNCHANGED <<known, current, process, status>>

\* _process is set, under the lock.
Publishes(j) ==
    /\ thread[j] = "spawned"
    /\ process' = j
    /\ thread' = [thread EXCEPT ![j] = "reading"]
    /\ UNCHANGED <<known, current, status, child>>

\* Its output has ended, and it has been waited for.
Reaps(j) ==
    /\ thread[j] = "reading" /\ child[j] \in {"succeeded", "failed"}
    /\ status' = [status EXCEPT ![j] = IF child[j] = "succeeded" THEN "PASSED" ELSE "FAILED"]
    /\ thread' = [thread EXCEPT ![j] = "ending"]
    /\ UNCHANGED <<known, current, process, child>>

\* The finally clause of _run().
Clears(j) ==
    /\ thread[j] = "ending"
    /\ current' = 0 /\ process' = 0
    /\ thread' = [thread EXCEPT ![j] = "done"]
    /\ UNCHANGED <<known, status, child>>

\* The process ends by itself, one way or the other.
Exits(j) ==
    /\ child[j] = "alive"
    /\ \E result \in {"succeeded", "failed"} : child' = [child EXCEPT ![j] = result]
    /\ UNCHANGED <<known, current, process, status, thread>>

\* cancel(): the process that is known is terminated, or killed.
Cancel ==
    /\ process # 0 /\ child[process] = "alive"
    /\ child' = [child EXCEPT ![process] = "failed"]
    /\ UNCHANGED <<known, current, process, status, thread>>

JobThread(j) == RunFails(j) \/ Spawns(j) \/ Publishes(j) \/ Reaps(j) \/ Clears(j)

JobNext ==
    \/ \E j \in Jobs : JobStarts(j) \/ JobThread(j) \/ Exits(j)
    \/ Cancel

JobSpec == JobInit /\ [][JobNext]_jobVars

-----------------------------------------------------------------------------
(* Properties                                                              *)

JobTypeOK ==
    /\ known \subseteq Jobs /\ current \in 0..MaxJobs /\ process \in {0, current}
    /\ status \in [Jobs -> {"none", "RUNNING", "PASSED", "FAILED", "ERROR"}]
    /\ child \in [Jobs -> {"none", "alive", "succeeded", "failed"}]

\* Jobs are serialised: the one that is current is known and its thread lives,
\* so that nothing is refused for a job that nobody will end; a thread that lives
\* is that of the current job; and what passed or failed has no process left.
\* (What ended with an ERROR may: its reader broke, and nobody waits for it.)
JobsSerialised ==
    /\ Busy => current \in known /\ thread[current] \notin {"none", "done"}
    /\ \A j \in Jobs :
         /\ thread[j] \notin {"none", "done"} => current = j
         /\ status[j] \in {"PASSED", "FAILED"} => child[j] \in {"succeeded", "failed"}
=============================================================================
