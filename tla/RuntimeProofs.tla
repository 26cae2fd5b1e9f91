---------------------------- MODULE RuntimeProofs ----------------------------
(***************************************************************************)
(* Theorems about Runtime: that calls and answers belong together and take *)
(* effect once, for every number of engines, threads, calls, connections   *)
(* and deaths.                                                             *)
(***************************************************************************)
EXTENDS Runtime, SequenceTheorems, FiniteSetTheorems, TLAPS

-----------------------------------------------------------------------------
(* The instance lock.                                                      *)

\* The lock's variables keep their types.
LEMMA LockTypes ==
  ASSUME LockTypeOK, [RuntimeNext]_runtimeVars PROVE LockTypeOK'
<1> USE LockAssumption DEF LockTypeOK, Stages, Leftovers
<1>1. ASSUME NEW e \in Engines, Opens(e) PROVE LockTypeOK'
  BY <1>1 DEF Opens, Makes
<1>2. ASSUME NEW e \in Engines, ChecksPid(e) PROVE LockTypeOK'
  BY <1>2 DEF ChecksPid
<1>3. ASSUME NEW e \in Engines, Unlinks(e) PROVE LockTypeOK'
  BY <1>3 DEF Unlinks
<1>4. ASSUME NEW e \in Engines, Recreates(e) PROVE LockTypeOK'
  BY <1>4 DEF Recreates, Makes
<1>5. ASSUME NEW e \in Engines, WritesPid(e) PROVE LockTypeOK'
  BY <1>5 DEF WritesPid
<1>6. ASSUME NEW e \in Engines, Releases(e) PROVE LockTypeOK'
  BY <1>6 DEF Releases, Ended
<1>7. ASSUME NEW e \in Engines, Dies(e) PROVE LockTypeOK'
  BY <1>7 DEF Dies, Ended
<1>8. CASE UNCHANGED lockVars
  BY <1>8 DEF lockVars
<1>9. QED
  BY <1>1, <1>2, <1>3, <1>4, <1>5, <1>6, <1>7, <1>8 DEF RuntimeNext, EngineStep, Acquire,
     AcquireStep, EngineCalls, Quits, Killed, Calling, Serving, runtimeVars

\* The lock's variables have their types at the start.
LEMMA LockInitTypes ==
  ASSUME RuntimeInit PROVE LockTypeOK
<1> USE LockAssumption DEF RuntimeInit, LockInit, Stages, Leftovers
<1>1. stage \in [Engines -> Stages] /\ wrote \in [Engines -> BOOLEAN]
  BY Zenon
<1>2. file \in Engines \cup Leftovers
  BY Zenon
<1>3. starts \in 0..MaxStarts
  OBVIOUS
<1>4. QED
  BY <1>1, <1>2, <1>3 DEF LockTypeOK

-----------------------------------------------------------------------------
(* The way of a call.                                                      *)

Verdicts == {"ok", "refused", "error", "ambiguous"}
Job == [call : Calls, conn : 0..MaxConns]
Response == [call : Calls, verdict : Verdicts]

WireTypes ==
    /\ up \in [Conns -> Seq(Calls)] /\ down \in [Conns -> Seq(Response)]
    /\ linked \in [Conns -> BOOLEAN]
    /\ queue \in Seq(Job) /\ working \in Seq(Job)
    /\ Len(working) <= 1

\* An end that the client holds is open and nobody else's, and what is closed
\* or unserved is empty.
Sockets ==
    /\ \A c \in Clients : sock[c] # 0 =>
          linked[sock[c]] /\ \A d \in Clients : sock[d] = sock[c] => d = c
    /\ \A k \in Conns : ~linked[k] => down[k] = <<>>
    /\ \A k \in Conns : handler[k] = "gone" => up[k] = <<>>

\* A connection carries one thing at a time: a request, a job or a response.
OneAtATime ==
    \A k \in Conns :
        /\ Len(up[k]) <= 1 /\ Len(down[k]) <= 1
        /\ up[k] # <<>> => down[k] = <<>>
        /\ handler[k] = "wait" => up[k] = <<>> /\ down[k] = <<>>

\* For a job that somebody waits for, its handler does, and for no other.
JobsAwaited ==
    /\ \A i \in 1..Len(queue) : queue[i].conn # 0 =>
          /\ handler[queue[i].conn] = "wait"
          /\ \A j \in 1..Len(queue) : queue[j].conn = queue[i].conn => j = i
    /\ working # <<>> /\ working[1].conn # 0 =>
          /\ handler[working[1].conn] = "wait"
          /\ \A j \in 1..Len(queue) : queue[j].conn # working[1].conn

Wired == WireTypes /\ Sockets /\ OneAtATime /\ JobsAwaited

-----------------------------------------------------------------------------
Busy(k) == up[k] # <<>> \/ down[k] # <<>> \/ handler[k] = "wait"

\* What a connection carries is of the caller that reads from it.
CarriesCallOf(t, k) ==
    /\ up[k] # <<>> => up[k][1] = call[t]
    /\ down[k] # <<>> => down[k][1].call = call[t]
    /\ \A i \in 1..Len(queue) : queue[i].conn = k => queue[i].call = call[t]
    /\ working # <<>> /\ working[1].conn = k => working[1].call = call[t]

Matched ==
    /\ \A t \in Callers : at[t] = "read" =>
          /\ sock[ClientOf[t]] # 0
          /\ CarriesCallOf(t, sock[ClientOf[t]])
    /\ \A c \in Clients : sock[c] # 0 /\ Busy(sock[c]) =>
          \E t \in Callers : ClientOf[t] = c /\ at[t] = "read"

-----------------------------------------------------------------------------
OnWire(r) == \E k \in Conns : up[k] # <<>> /\ up[k][1] = r
Queued(r) == \E i \in 1..Len(queue) : queue[i].call = r
Worked(r) == working # <<>> /\ working[1].call = r
Pending(r) == OnWire(r) \/ Queued(r) \/ Worked(r)

ToldRefused(r) ==
    r \in refused \/ \E k \in Conns : down[k] # <<>> /\ down[k][1] = [call |-> r, verdict |-> "refused"]

\* A mutating call is in one place only.
OnePlace ==
    \A r \in mutating :
        /\ \A k, l \in Conns :
              up[k] # <<>> /\ up[k][1] = r /\ up[l] # <<>> /\ up[l][1] = r => k = l
        /\ \A i, j \in 1..Len(queue) : queue[i].call = r /\ queue[j].call = r => i = j
        /\ OnWire(r) => ~Queued(r) /\ ~Worked(r)
        /\ Queued(r) => ~Worked(r)

Sending(r) == \E t \in Callers : at[t] = "send" /\ call[t] = r

\* What is still to be sent was not, what is pending has not run, and what was
\* refused is neither.
Once ==
    \A r \in Calls :
        /\ r \in mutating /\ Sending(r) => ~Pending(r)
        /\ r \in mutating /\ (Sending(r) \/ Pending(r)) => ran[r] = 0
        /\ ToldRefused(r) => r \in mutating /\ ~Sending(r) /\ ~Pending(r) /\ ran[r] = 0
        /\ ran[r] <= 1 /\ (ran[r] # 0 => r \in mutating)

\* The calls are numbered as they are made.
Numbered ==
    /\ \A t \in Callers : /\ at[t] = "idle" => call[t] = 0
                          /\ at[t] # "idle" => call[t] \in 1..made
    /\ \A t, u \in Callers : at[t] # "idle" /\ call[u] = call[t] => u = t
    /\ mutating \subseteq 1..made
    /\ \A r \in Calls : Pending(r) => r <= made

-----------------------------------------------------------------------------
(* What the pieces of a step do.                                           *)

\* The queue and the job worked on are sequences of jobs.
LEMMA JobSequences ==
  ASSUME WireTypes
  PROVE  /\ Len(queue) \in Nat /\ \A i \in 1..Len(queue) : queue[i] \in Job
         /\ working = <<>> \/ (Len(working) = 1 /\ working[1] \in Job)
<1>1. Len(queue) \in Nat /\ \A i \in 1..Len(queue) : queue[i] \in Job
  BY DEF WireTypes
<1>2. working = <<>> \/ (Len(working) = 1 /\ working[1] \in Job)
  <2> SUFFICES ASSUME working # <<>> PROVE Len(working) = 1 /\ working[1] \in Job
    OBVIOUS
  <2>1. Len(working) \in Nat \ {0}
    BY EmptySeq DEF WireTypes
  <2>2. Len(working) <= 1 /\ working \in Seq(Job)
    BY DEF WireTypes
  <2>3. Len(working) = 1
    <3> DEFINE n == Len(working)
    <3>1. n \in Nat \ {0} /\ n <= 1
      BY <2>1, <2>2
    <3> HIDE DEF n
    <3>2. n = 1
      BY <3>1
    <3>3. QED
      BY <3>2 DEF n
  <2>4. QED
    BY <2>2, <2>3, ElementOfSeq
<1>3. QED
  BY <1>1, <1>2

\* Jobs that nobody waits for any more are the same jobs.
LEMMA DisownedJobs ==
  ASSUME NEW jobs \in Seq(Job), NEW k \in Conns
  PROVE  /\ Disowned(jobs, k) \in Seq(Job) /\ Len(Disowned(jobs, k)) = Len(jobs)
         /\ \A i \in 1..Len(jobs) :
              /\ Disowned(jobs, k)[i].call = jobs[i].call
              /\ Disowned(jobs, k)[i].conn = IF jobs[i].conn = k THEN 0 ELSE jobs[i].conn
<1>1. Len(jobs) \in Nat /\ DOMAIN jobs = 1..Len(jobs) /\ \A i \in 1..Len(jobs) : jobs[i] \in Job
  BY LenProperties
<1>2. \A i \in 1..Len(jobs) : [jobs[i] EXCEPT !.conn = 0] \in Job
  BY <1>1, BridgeAssumption DEF Job
<1>3. Disowned(jobs, k) \in [1..Len(jobs) -> Job]
  BY <1>1, <1>2 DEF Disowned
<1>4. Disowned(jobs, k) \in Seq(Job)
  BY <1>1, <1>3, SeqDef
<1>5. Len(Disowned(jobs, k)) = Len(jobs)
  BY <1>1, <1>3, <1>4, LenProperties
<1>6. \A i \in 1..Len(jobs) :
        /\ Disowned(jobs, k)[i].call = jobs[i].call
        /\ Disowned(jobs, k)[i].conn = IF jobs[i].conn = k THEN 0 ELSE jobs[i].conn
  BY <1>1 DEF Disowned, Job
<1>7. QED
  BY <1>4, <1>5, <1>6

\* An answer ends the wait of a handler, and reaches an end that is open.
LEMMA ReplyReaches ==
  ASSUME BridgeTypeOK, Wired, NEW k \in Conns, handler[k] = "wait",
         NEW r \in Calls, NEW v \in Verdicts, Responds(k, r, v)
  PROVE  /\ up' = up
         /\ down' \in [Conns -> Seq(Response)]
         /\ handler' \in [Conns -> {"gone", "read", "wait"}]
         /\ \A j \in Conns \ {k} : handler'[j] = handler[j] /\ down'[j] = down[j]
         /\ handler'[k] = IF linked[k] THEN "read" ELSE "gone"
         /\ down'[k] = IF linked[k] THEN <<[call |-> r, verdict |-> v]>> ELSE <<>>
<1> USE DEF Wired, WireTypes, OneAtATime, Sockets
<1>1. up[k] = <<>> /\ down[k] = <<>>
  OBVIOUS
<1>2. up' = up
  BY <1>1 DEF Responds
<1>3. [call |-> r, verdict |-> v] \in Response
  BY DEF Response
<1>4. Append(<<>>, [call |-> r, verdict |-> v]) = <<[call |-> r, verdict |-> v]>>
  OBVIOUS
<1>5. /\ down' \in [Conns -> Seq(Response)]
      /\ \A j \in Conns \ {k} : down'[j] = down[j]
      /\ down'[k] = IF linked[k] THEN <<[call |-> r, verdict |-> v]>> ELSE <<>>
  BY <1>1, <1>3, <1>4 DEF Responds
<1>6. /\ handler' \in [Conns -> {"gone", "read", "wait"}]
      /\ \A j \in Conns \ {k} : handler'[j] = handler[j]
      /\ handler'[k] = IF linked[k] THEN "read" ELSE "gone"
  BY DEF Responds, BridgeTypeOK
<1>7. QED
  BY <1>2, <1>5, <1>6

\* A socket that is dropped leaves an end that is closed and empty.
LEMMA DropCloses ==
  ASSUME BridgeTypeOK, WireTypes, NEW c \in Clients, Drop(c)
  PROVE  /\ sock' = [sock EXCEPT ![c] = 0]
         /\ linked' \in [Conns -> BOOLEAN] /\ down' \in [Conns -> Seq(Response)]
         /\ \A k \in Conns : k = sock[c] => ~linked'[k] /\ down'[k] = <<>>
         /\ \A k \in Conns : k # sock[c] => linked'[k] = linked[k] /\ down'[k] = down[k]
<1>1. linked' \in [Conns -> BOOLEAN]
  BY Zenon DEF Drop
<1>2. down' \in [Conns -> Seq(Response)]
  BY DEF Drop, WireTypes
<1>3. \A k \in Conns : k = sock[c] => ~linked'[k] /\ down'[k] = <<>>
  BY DEF Drop
<1>4. \A k \in Conns : k # sock[c] => linked'[k] = linked[k] /\ down'[k] = down[k]
  <2> SUFFICES ASSUME NEW k \in Conns, k # sock[c]
               PROVE  linked'[k] = linked[k] /\ down'[k] = down[k]
    OBVIOUS
  <2>1. linked[k] \in BOOLEAN
    BY DEF WireTypes
  <2>2. linked'[k] <=> linked[k]
    BY Zenon DEF Drop
  <2>3. linked'[k] \in BOOLEAN
    BY <1>1
  <2>4. QED
    BY <2>1, <2>2, <2>3 DEF Drop
<1>5. QED
  BY <1>1, <1>2, <1>3, <1>4 DEF Drop

\* What a call may come to: only what changes something has an effect or is
\* refused, and never both.
LEMMA EndsOfCalls ==
  ASSUME NEW r \in Calls, NEW end \in Ends(r)
  PROVE  /\ end[1] \in {0, 1} /\ end[2] \in Verdicts
         /\ end[1] = 1 => r \in mutating /\ end[2] # "refused"
         /\ end[2] = "refused" => r \in mutating /\ end[1] = 0
  BY DEF Ends, Verdicts

-----------------------------------------------------------------------------
(* The invariant of the calls, and its preservation, an action at a time.  *)

CallInv ==
    BridgeTypeOK /\ AnswersMatch /\ Wired /\ Matched /\ OnePlace /\ Once /\ Numbered

\* One thread of a client calls at a time, and each has a call of its own.
LEMMA OneCaller ==
  ASSUME BridgeTypeOK, NEW t \in Callers, NEW u \in Callers,
         at[t] # "idle", at[u] # "idle", ClientOf[u] = ClientOf[t]
  PROVE  u = t
  BY DEF BridgeTypeOK

\* A thread that begins a call takes a connection of its own.
LEMMA TakeKeeps ==
  ASSUME CallInv, NEW t \in Callers, NEW m \in BOOLEAN, Take(t, m)
  PROVE  CallInv'
<1> USE BridgeAssumption DEF CallInv, BridgeTypeOK
<1>1. /\ made' = made + 1 /\ made + 1 \in Calls /\ made \in Nat
      /\ at' = [at EXCEPT ![t] = "send"] /\ call' = [call EXCEPT ![t] = made + 1]
      /\ lock' = [lock EXCEPT ![ClientOf[t]] = t]
      /\ at[t] = "idle" /\ lock[ClientOf[t]] = "none" /\ ClientOf[t] \in Clients
  <2>1. /\ made' = made + 1 /\ made < MaxCalls
        /\ at' = [at EXCEPT ![t] = "send"] /\ call' = [call EXCEPT ![t] = made + 1]
        /\ lock' = [lock EXCEPT ![ClientOf[t]] = t]
        /\ at[t] = "idle" /\ lock[ClientOf[t]] = "none"
    BY Zenon DEF Take, Unlocked
  <2>2. QED
    BY <2>1 DEF Calls
<1>m. /\ mutating \subseteq mutating' /\ mutating' \subseteq mutating \cup {made + 1}
      /\ mutating' \subseteq Calls
  BY <1>1 DEF Take
<1>2. UNCHANGED <<refused, mixed, tries, sock, wireVars, serverVars>>
  BY DEF Take
<1> USE DEF wireVars, serverVars
<1>3. BridgeTypeOK' /\ AnswersMatch'
  <2>1. /\ made' \in 0..MaxCalls /\ at' \in [Callers -> {"idle", "send", "read"}]
        /\ call' \in [Callers -> 0..MaxCalls] /\ lock' \in [Clients -> Callers \cup {"none"}]
    BY <1>1 DEF Calls
  <2>2. \A u \in Callers : at'[u] # "idle" <=> lock'[ClientOf[u]] = u
    BY <1>1
  <2>3. QED
    BY <1>2, <1>m, <2>1, <2>2 DEF AnswersMatch
<1>4. Wired'
  BY <1>2 DEF Wired, WireTypes, Sockets, OneAtATime, JobsAwaited
<1>5. Matched'
  <2>1. \A u \in Callers : at'[u] = "read" <=> at[u] = "read"
    BY <1>1
  <2>2. \A u \in Callers : at[u] = "read" => call'[u] = call[u]
    BY <1>1
  <2>3. QED
    BY <1>2, <2>1, <2>2 DEF Matched, CarriesCallOf, Busy
<1>6. \A r \in Calls : (Pending(r)' <=> Pending(r)) /\ (ToldRefused(r)' <=> ToldRefused(r))
  BY <1>2 DEF Pending, OnWire, Queued, Worked, ToldRefused
<1>7. \A r \in Calls : r > made => ~Pending(r) /\ ran[r] = 0 /\ ~ToldRefused(r)
  BY <1>1 DEF Numbered, Once, Calls
<1>8. OnePlace'
  <2>1. \A r \in mutating : r \in Calls
    OBVIOUS
  <2>2. \A r \in mutating' : r \in mutating \/ ~Pending(r)
    BY <1>m, <1>1, <1>7
  <2>3. QED
    BY <1>2, <2>2 DEF OnePlace, Pending, OnWire, Queued, Worked
<1>9. Once'
  <2> SUFFICES ASSUME NEW r \in Calls
               PROVE  /\ r \in mutating' /\ Sending(r)' => ~Pending(r)'
                      /\ r \in mutating' /\ (Sending(r)' \/ Pending(r)') => ran'[r] = 0
                      /\ ToldRefused(r)' => r \in mutating' /\ ~Sending(r)' /\ ~Pending(r)' /\ ran'[r] = 0
                      /\ ran'[r] <= 1 /\ (ran'[r] # 0 => r \in mutating')
    BY DEF Once
  <2>1. Sending(r)' => Sending(r) \/ r = made + 1
    BY <1>1 DEF Sending
  <2>2. r = made + 1 => ~Pending(r) /\ ran[r] = 0 /\ ~ToldRefused(r)
    BY <1>1, <1>7
  <2>3. r # made + 1 => (r \in mutating' <=> r \in mutating)
    BY <1>1, <1>m
  <2>4. QED
    BY <1>1, <1>2, <1>m, <1>6, <2>1, <2>2, <2>3 DEF Once
<1>10. Numbered'
  <2>1. \A u \in Callers : call[u] # made + 1
    BY <1>1 DEF Numbered
  <2>2. \A r \in Calls : Pending(r)' => r <= made'
    BY <1>1, <1>6 DEF Numbered, Calls
  <2>3. mutating' \subseteq 1..made'
    BY <1>1, <1>m DEF Numbered
  <2>4. /\ \A u \in Callers : /\ at'[u] = "idle" => call'[u] = 0
                              /\ at'[u] # "idle" => call'[u] \in 1..made'
        /\ \A u, v \in Callers : at'[u] # "idle" /\ call'[v] = call'[u] => v = u
    BY <1>1, <2>1 DEF Numbered
  <2>5. QED
    BY <2>2, <2>3, <2>4 DEF Numbered
<1>11. QED
  BY <1>3, <1>4, <1>5, <1>8, <1>9, <1>10

\* The connection that a request is written to carries nothing.
LEMMA SentOnQuiet ==
  ASSUME CallInv, NEW t \in Callers, at[t] = "send", NEW k \in Conns,
         k = sock[ClientOf[t]] \/ (sock[ClientOf[t]] = 0 /\ Free(k))
  PROVE  /\ ~Busy(k)
         /\ \A i \in 1..Len(queue) : queue[i].conn # k
         /\ working # <<>> => working[1].conn # k
         /\ \A d \in Clients : sock[d] = k => d = ClientOf[t]
<1> USE BridgeAssumption DEF CallInv, Conns
<1>1. ClientOf[t] \in Clients
  OBVIOUS
<1>2. k # 0
  OBVIOUS
<1>3. ~Busy(k)
  <2>1. CASE k = sock[ClientOf[t]]
    <3>1. ~(\E u \in Callers : ClientOf[u] = ClientOf[t] /\ at[u] = "read")
      BY OneCaller
    <3>2. QED
      BY <1>1, <1>2, <2>1, <3>1 DEF Matched
  <2>2. CASE Free(k)
    BY <2>2 DEF Free, Busy, Wired, Sockets
  <2>3. QED
    BY <2>1, <2>2
<1>4. /\ \A i \in 1..Len(queue) : queue[i].conn # k
      /\ working # <<>> => working[1].conn # k
  BY <1>2, <1>3 DEF Busy, Wired, JobsAwaited
<1>5. \A d \in Clients : sock[d] = k => d = ClientOf[t]
  BY <1>1, <1>2 DEF Free, Wired, Sockets
<1>6. QED
  BY <1>3, <1>4, <1>5

\* A request goes out on the connection of its call, once.
LEMMA SendKeeps ==
  ASSUME CallInv, NEW t \in Callers, Request(t)
  PROVE  CallInv'
<1> USE BridgeAssumption DEF CallInv
<1> DEFINE c == ClientOf[t]
           r == call[t]
<1>1. /\ at[t] = "send" /\ at' = [at EXCEPT ![t] = "read"] /\ c \in Clients
      /\ UNCHANGED <<callVars, call, tries, lock, down, queue, working, ran, deaths>>
  BY DEF Request
<1>2. PICK k \in Conns :
        /\ k = sock[c] \/ (sock[c] = 0 /\ Free(k))
        /\ sock' = [sock EXCEPT ![c] = k]
        /\ up' = [up EXCEPT ![k] = Sent(t, k)]
        /\ IF sock[c] # 0 THEN UNCHANGED <<linked, handler>>
           ELSE linked' = [linked EXCEPT ![k] = TRUE] /\ handler' = [handler EXCEPT ![k] = "read"]
  BY DEF Request
<1>3. /\ ~Busy(k)
      /\ \A i \in 1..Len(queue) : queue[i].conn # k
      /\ working # <<>> => working[1].conn # k
      /\ \A d \in Clients : sock[d] = k => d = c
  BY <1>1, <1>2, SentOnQuiet
<1>4. /\ up[k] = <<>> /\ down[k] = <<>> /\ k # 0 /\ k \in 0..MaxConns
  BY <1>3 DEF Busy, Conns
<1>5. r \in Calls
  BY <1>1 DEF Numbered, BridgeTypeOK, Calls
<1>6. /\ up' \in [Conns -> Seq(Calls)]
      /\ \A j \in Conns \ {k} : up'[j] = up[j]
      /\ up'[k] = <<>> \/ (up'[k] = <<r>> /\ handler'[k] # "gone")
  <2>1. Sent(t, k) = <<>> \/ (Sent(t, k) = <<r>> /\ handler'[k] # "gone")
    BY <1>4 DEF Sent
  <2>2. <<>> \in Seq(Calls) /\ <<r>> \in Seq(Calls)
    BY <1>5
  <2>3. QED
    BY <1>2, <2>1, <2>2 DEF Wired, WireTypes
<1>7. /\ handler' \in [Conns -> {"gone", "read", "wait"}] /\ linked' \in [Conns -> BOOLEAN]
      /\ \A j \in Conns \ {k} : handler'[j] = handler[j] /\ linked'[j] = linked[j]
      /\ handler'[k] # "wait" /\ linked'[k]
  <2>1. CASE sock[c] # 0
    BY <1>1, <1>2, <1>3, <2>1 DEF Busy, Wired, WireTypes, Sockets, BridgeTypeOK
  <2>2. CASE sock[c] = 0
    BY <1>2, <2>2, ZenonT(60) DEF Wired, WireTypes, BridgeTypeOK
  <2>3. QED
    BY <2>1, <2>2
<1>8. BridgeTypeOK' /\ AnswersMatch'
  <2>1. at' \in [Callers -> {"idle", "send", "read"}] /\ sock' \in [Clients -> 0..MaxConns]
    BY <1>1, <1>2, <1>4 DEF BridgeTypeOK
  <2>2. \A u \in Callers : at'[u] # "idle" <=> at[u] # "idle"
    BY <1>1 DEF BridgeTypeOK
  <2>3. QED
    BY <1>1, <1>7, <2>1, <2>2 DEF BridgeTypeOK, AnswersMatch, callVars
<1>9. Wired'
  <2>1. WireTypes'
    BY <1>1, <1>6, <1>7 DEF Wired, WireTypes
  <2>2. Sockets'
    <3>1. \A d \in Clients : d # c => sock'[d] = sock[d] /\ sock[d] # k
      BY <1>2, <1>3 DEF BridgeTypeOK
    <3>2. sock'[c] = k
      BY <1>1, <1>2 DEF BridgeTypeOK
    <3>3. \A d \in Clients : sock'[d] \in 0..MaxConns
      BY <1>2, <1>4 DEF BridgeTypeOK
    <3>4. \A d \in Clients : sock'[d] # 0 =>
             linked'[sock'[d]] /\ \A f \in Clients : sock'[f] = sock'[d] => f = d
      BY <1>7, <3>1, <3>2, <3>3 DEF Wired, Sockets, Conns
    <3>5. \A j \in Conns : ~linked'[j] => down'[j] = <<>>
      BY <1>1, <1>7 DEF Wired, Sockets
    <3>6. \A j \in Conns : handler'[j] = "gone" => up'[j] = <<>>
      BY <1>6, <1>7 DEF Wired, Sockets
    <3>7. QED
      BY <3>4, <3>5, <3>6 DEF Sockets
  <2>3. OneAtATime'
    <3>1. down' = down /\ down[k] = <<>> /\ Len(<<>>) = 0 /\ Len(<<r>>) = 1
      BY <1>1, <1>4
    <3>2. /\ Len(up'[k]) <= 1 /\ Len(down'[k]) <= 1
          /\ up'[k] # <<>> => down'[k] = <<>>
          /\ handler'[k] # "wait"
      <4>1. down'[k] = <<>> /\ Len(down'[k]) = 0 /\ handler'[k] # "wait"
        BY <1>7, <3>1
      <4>2. Len(up'[k]) = 0 \/ Len(up'[k]) = 1
        BY <1>6, <3>1, Zenon
      <4>3. \A n : n = 0 \/ n = 1 => n <= 1
        OBVIOUS
      <4>4. QED
        BY <4>1, <4>2, <4>3, Zenon
    <3>3. \A j \in Conns \ {k} :
            up'[j] = up[j] /\ down'[j] = down[j] /\ handler'[j] = handler[j]
      BY <1>6, <1>7, <3>1
    <3>4. QED
      BY <3>2, <3>3 DEF Wired, OneAtATime
  <2>4. JobsAwaited'
    BY <1>1, <1>3, <1>7, JobSequences DEF Wired, JobsAwaited, Job, Conns
  <2>5. QED
    BY <2>1, <2>2, <2>3, <2>4 DEF Wired
<1>10. Matched'
  <2>1. \A d \in Clients : d # c => sock'[d] = sock[d] /\ sock[d] # k
    BY <1>2, <1>3 DEF BridgeTypeOK
  <2>2. sock'[c] = k
    BY <1>1, <1>2 DEF BridgeTypeOK
  <2>3. \A u \in Callers : u # t => at'[u] = at[u] /\ call'[u] = call[u]
    BY <1>1 DEF BridgeTypeOK
  <2>4. \A u \in Callers : u # t /\ at[u] = "read" => ClientOf[u] # c
    BY <1>1, OneCaller
  <2>5. ASSUME NEW u \in Callers, at'[u] = "read"
        PROVE  sock'[ClientOf[u]] # 0 /\ CarriesCallOf(u, sock[ClientOf[u]])'
    <3>1. CASE u = t
      BY <1>1, <1>3, <1>4, <1>6, <2>2, <3>1 DEF CarriesCallOf
    <3>2. CASE u # t
      <4>1. /\ ClientOf[u] \in Clients /\ ClientOf[u] # c /\ at[u] = "read"
            /\ sock'[ClientOf[u]] = sock[ClientOf[u]] /\ sock[ClientOf[u]] # k
        BY <2>1, <2>3, <2>4, <2>5, <3>2
      <4>2. sock[ClientOf[u]] # 0 /\ CarriesCallOf(u, sock[ClientOf[u]])
        BY <4>1 DEF Matched
      <4>3. sock[ClientOf[u]] \in Conns
        BY <4>1, <4>2 DEF BridgeTypeOK, Conns
      <4>4. QED
        BY <1>1, <1>6, <4>1, <4>2, <4>3 DEF CarriesCallOf
    <3>3. QED
      BY <3>1, <3>2
  <2>6. ASSUME NEW d \in Clients, sock'[d] # 0, Busy(sock[d])'
        PROVE  \E u \in Callers : ClientOf[u] = d /\ at'[u] = "read"
    <3>1. CASE d = c
      BY <1>1, <3>1 DEF BridgeTypeOK
    <3>2. CASE d # c
      <4>0. sock[d] \in Conns \ {k} /\ sock'[d] = sock[d]
        BY <2>1, <2>6, <3>2 DEF BridgeTypeOK, Conns
      <4>1. Busy(sock[d])
        BY <1>1, <1>6, <1>7, <2>6, <4>0 DEF Busy
      <4>2. PICK u \in Callers : ClientOf[u] = d /\ at[u] = "read"
        BY <2>6, <4>0, <4>1 DEF Matched
      <4>3. QED
        BY <1>1, <2>3, <4>2
    <3>3. QED
      BY <3>1, <3>2
  <2>7. QED
    BY <2>5, <2>6 DEF Matched
<1>11. Sending(r) /\ \A q \in Calls : Sending(q)' => Sending(q)
  BY <1>1 DEF Sending, BridgeTypeOK
<1>12. ~Sending(r)'
  BY <1>1 DEF Sending, Numbered, BridgeTypeOK
<1>13. \A q \in Calls : /\ OnWire(q)' => OnWire(q) \/ q = r
                        /\ Queued(q)' = Queued(q) /\ Worked(q)' = Worked(q)
                        /\ ToldRefused(q)' = ToldRefused(q)
  <2>1. \A q \in Calls : OnWire(q)' => OnWire(q) \/ q = r
    BY <1>6 DEF OnWire
  <2>2. \A q \in Calls : Queued(q)' = Queued(q) /\ Worked(q)' = Worked(q)
    BY <1>1 DEF Queued, Worked
  <2>3. \A q \in Calls : ToldRefused(q)' = ToldRefused(q)
    BY <1>1, Zenon DEF ToldRefused, callVars
  <2>4. QED
    BY <2>1, <2>2, <2>3
<1>14. mutating' = mutating /\ made' = made /\ ran' = ran /\ call' = call
  BY <1>1 DEF callVars
<1>15. r \in mutating => ~Pending(r)
  BY <1>5, <1>11 DEF Once
<1>16. OnePlace'
  <2> SUFFICES ASSUME NEW q \in mutating
               PROVE  /\ \A j, l \in Conns :
                           up'[j] # <<>> /\ up'[j][1] = q /\ up'[l] # <<>> /\ up'[l][1] = q => j = l
                      /\ \A i, j \in 1..Len(queue) : queue[i].call = q /\ queue[j].call = q => i = j
                      /\ OnWire(q)' => ~Queued(q)' /\ ~Worked(q)'
                      /\ Queued(q)' => ~Worked(q)'
    BY <1>1, <1>14 DEF OnePlace
  <2>1. q \in Calls
    BY DEF BridgeTypeOK
  <2>2. CASE q = r
    BY <1>6, <1>13, <1>15, <2>1, <2>2 DEF OnePlace, Pending, OnWire
  <2>3. CASE q # r
    <3>1. \A j \in Conns : up'[j] # <<>> /\ up'[j][1] = q => up[j] # <<>> /\ up[j][1] = q
      BY <1>6, <2>3
    <3>2. QED
      BY <1>13, <2>1, <2>3, <3>1 DEF OnePlace
  <2>4. QED
    BY <2>2, <2>3
<1>17. Once'
  <2>1. ~ToldRefused(r) /\ (r \in mutating => ran[r] = 0)
    BY <1>5, <1>11 DEF Once
  <2>2. \A q \in Calls : Pending(q)' => Pending(q) \/ q = r
    BY <1>13 DEF Pending
  <2>3. QED
    BY <1>11, <1>12, <1>13, <1>14, <2>1, <2>2 DEF Once
<1>18. Numbered'
  <2>1. \A q \in Calls : Pending(q)' => q <= made
    BY <1>1, <1>13 DEF Numbered, Pending, BridgeTypeOK
  <2>2. \A u \in Callers : at'[u] # "idle" <=> at[u] # "idle"
    BY <1>1 DEF BridgeTypeOK
  <2>3. QED
    BY <1>14, <2>1, <2>2 DEF Numbered
<1>19. QED
  BY <1>8, <1>9, <1>10, <1>16, <1>17, <1>18

\* A client whose socket is dropped, and none of whose threads reads then, leaves
\* the others as they were.
LEMMA DropLeavesOthers ==
  ASSUME CallInv, NEW c \in Clients, Drop(c), UNCHANGED <<callVars, up, serverVars>>,
         \A u \in Callers : ClientOf[u] # c => at'[u] = at[u] /\ call'[u] = call[u],
         \A u \in Callers : ClientOf[u] = c => at'[u] # "read"
  PROVE  /\ Wired' /\ Matched' /\ OnePlace'
         /\ \A r \in Calls : (Pending(r)' <=> Pending(r)) /\ (ToldRefused(r)' => ToldRefused(r))
<1> USE BridgeAssumption DEF CallInv, callVars, serverVars
<1> DEFINE k == sock[c]
<1>1. /\ sock' = [sock EXCEPT ![c] = 0]
      /\ linked' \in [Conns -> BOOLEAN] /\ down' \in [Conns -> Seq(Response)]
      /\ \A j \in Conns : j = k => ~linked'[j] /\ down'[j] = <<>>
      /\ \A j \in Conns : j # k => linked'[j] = linked[j] /\ down'[j] = down[j]
  BY DropCloses DEF Wired
<1>2. sock'[c] = 0 /\ \A d \in Clients : d # c => sock'[d] = sock[d]
  BY <1>1 DEF BridgeTypeOK
<1>3. \A d \in Clients : d # c /\ sock[d] # 0 => sock[d] # k /\ sock[d] \in Conns
  BY DEF Wired, Sockets, BridgeTypeOK, Conns
<1>4. Wired'
  <2>1. WireTypes'
    BY <1>1 DEF Wired, WireTypes
  <2>2. Sockets'
    <3>1. ASSUME NEW d \in Clients, sock'[d] # 0
          PROVE  linked'[sock'[d]] /\ \A f \in Clients : sock'[f] = sock'[d] => f = d
      <4>1. d # c /\ sock'[d] = sock[d] /\ sock[d] \in Conns /\ sock[d] # k /\ linked[sock[d]]
        BY <1>2, <1>3, <3>1 DEF Wired, Sockets
      <4>2. \A f \in Clients : sock'[f] = sock'[d] => f = d
        BY <1>2, <3>1, <4>1 DEF Wired, Sockets
      <4>3. QED
        BY <1>1, <4>1, <4>2
    <3>2. \A j \in Conns : ~linked'[j] => down'[j] = <<>>
      BY <1>1 DEF Wired, Sockets
    <3>3. QED
      BY <3>1, <3>2 DEF Wired, Sockets
  <2>3. OneAtATime'
    <3>1. ASSUME NEW j \in Conns
          PROVE  /\ Len(up[j]) <= 1 /\ Len(down'[j]) <= 1
                 /\ up[j] # <<>> => down'[j] = <<>>
                 /\ handler[j] = "wait" => up[j] = <<>> /\ down'[j] = <<>>
      <4>1. CASE j = k
        <5>1. down'[j] = <<>> /\ Len(<<>>) = 0
          BY <1>1, <4>1
        <5>2. Len(down'[j]) <= 1
          BY <5>1
        <5>3. QED
          BY <5>1, <5>2 DEF Wired, OneAtATime
      <4>2. CASE j # k
        BY <1>1, <4>2 DEF Wired, OneAtATime
      <4>3. QED
        BY <4>1, <4>2
    <3>2. QED
      BY <3>1 DEF OneAtATime
  <2>4. JobsAwaited'
    BY DEF Wired, JobsAwaited
  <2>5. QED
    BY <2>1, <2>2, <2>3, <2>4 DEF Wired
<1>5. Matched'
  <2>1. ASSUME NEW u \in Callers, at'[u] = "read"
        PROVE  sock'[ClientOf[u]] # 0 /\ CarriesCallOf(u, sock[ClientOf[u]])'
    <3>1. /\ ClientOf[u] \in Clients /\ ClientOf[u] # c
          /\ at[u] = "read" /\ call'[u] = call[u]
      BY <2>1
    <3>2. sock[ClientOf[u]] # 0 /\ CarriesCallOf(u, sock[ClientOf[u]])
      BY <3>1 DEF Matched
    <3>3. QED
      BY <1>1, <1>2, <1>3, <3>1, <3>2 DEF CarriesCallOf
  <2>2. ASSUME NEW d \in Clients, sock'[d] # 0, Busy(sock[d])'
        PROVE  \E u \in Callers : ClientOf[u] = d /\ at'[u] = "read"
    <3>1. d # c /\ sock'[d] = sock[d] /\ sock[d] \in Conns /\ sock[d] # k
      BY <1>2, <1>3, <2>2
    <3>2. Busy(sock[d])
      BY <1>1, <2>2, <3>1 DEF Busy
    <3>3. PICK u \in Callers : ClientOf[u] = d /\ at[u] = "read"
      BY <2>2, <3>1, <3>2 DEF Matched
    <3>4. QED
      BY <3>1, <3>3
  <2>3. QED
    BY <2>1, <2>2 DEF Matched
<1>6. OnePlace'
  BY DEF OnePlace, OnWire, Queued, Worked
<1>7. ASSUME NEW r \in Calls
      PROVE  (Pending(r)' <=> Pending(r)) /\ (ToldRefused(r)' => ToldRefused(r))
  <2>1. Pending(r)' <=> Pending(r)
    BY DEF Pending, OnWire, Queued, Worked
  <2>2. ToldRefused(r)' => ToldRefused(r)
    BY <1>1 DEF ToldRefused
  <2>3. QED
    BY <2>1, <2>2
<1>8. QED
  BY <1>4, <1>5, <1>6, <1>7

\* A call that fails drops its connection, and is sent once more or returns.
LEMMA FailKeeps ==
  ASSUME CallInv, NEW t \in Callers, Fail(t)
  PROVE  CallInv'
<1> USE BridgeAssumption DEF CallInv
<1> DEFINE c == ClientOf[t]
           r == call[t]
<1>1. /\ at[t] # "idle" /\ c \in Clients /\ Drop(c)
      /\ UNCHANGED <<callVars, up, serverVars>>
  BY DEF Fail, Fails
<1>2. \/ /\ r \notin mutating
         /\ at' = [at EXCEPT ![t] = "send"] /\ tries' = [tries EXCEPT ![t] = 2]
         /\ UNCHANGED <<call, lock>>
      \/ Returns(t)
  BY DEF Fail, Retried
<1>3. /\ at' \in [Callers -> {"idle", "send", "read"}] /\ call' \in [Callers -> 0..MaxCalls]
      /\ tries' \in [Callers -> 1..2] /\ lock' \in [Clients -> Callers \cup {"none"}]
      /\ \A u \in Callers : u # t => at'[u] = at[u] /\ call'[u] = call[u]
      /\ \/ at'[t] = "send" /\ call' = call /\ lock' = lock /\ r \notin mutating
         \/ at'[t] = "idle" /\ call'[t] = 0 /\ lock' = [lock EXCEPT ![c] = "none"]
  <2>1. CASE /\ r \notin mutating
             /\ at' = [at EXCEPT ![t] = "send"] /\ tries' = [tries EXCEPT ![t] = 2]
             /\ UNCHANGED <<call, lock>>
    BY <2>1 DEF BridgeTypeOK
  <2>2. CASE Returns(t)
    BY <1>1, <2>2 DEF Returns, BridgeTypeOK
  <2>3. QED
    BY <1>2, <2>1, <2>2
<1>4. \A u \in Callers : ClientOf[u] = c /\ u # t => at[u] = "idle"
  BY <1>1, OneCaller
<1>5. BridgeTypeOK' /\ AnswersMatch'
  <2>1. \A u \in Callers : at'[u] # "idle" <=> lock'[ClientOf[u]] = u
    <3>1. CASE at'[t] = "send" /\ lock' = lock
      BY <1>1, <1>3, <3>1 DEF BridgeTypeOK
    <3>2. CASE at'[t] = "idle" /\ lock' = [lock EXCEPT ![c] = "none"]
      BY <1>1, <1>3, <1>4, <3>2 DEF BridgeTypeOK
    <3>3. QED
      BY <1>3, <3>1, <3>2
  <2>2. sock' \in [Clients -> 0..MaxConns]
    BY <1>1 DEF Drop, BridgeTypeOK
  <2>3. QED
    BY <1>1, <1>3, <2>1, <2>2 DEF BridgeTypeOK, AnswersMatch, callVars, serverVars
<1>6. /\ Wired' /\ Matched' /\ OnePlace'
      /\ \A q \in Calls : (Pending(q)' <=> Pending(q)) /\ (ToldRefused(q)' => ToldRefused(q))
  <2>1. \A u \in Callers : ClientOf[u] # c => at'[u] = at[u] /\ call'[u] = call[u]
    BY <1>3
  <2>2. \A u \in Callers : ClientOf[u] = c => at'[u] # "read"
    BY <1>3, <1>4
  <2>3. QED
    BY <1>1, <2>1, <2>2, DropLeavesOthers
<1>7. mutating' = mutating /\ made' = made /\ ran' = ran
  BY <1>1 DEF callVars, serverVars
<1>8. Once'
  <2>1. \A q \in Calls : Sending(q)' => Sending(q) \/ (q = r /\ r \notin mutating)
    BY <1>3 DEF Sending
  <2>2. QED
    BY <1>6, <1>7, <2>1 DEF Once
<1>9. Numbered'
  <2>1. \A q \in Calls : Pending(q)' => q <= made'
    BY <1>6, <1>7 DEF Numbered
  <2>2. \A u \in Callers : /\ at'[u] = "idle" => call'[u] = 0
                           /\ at'[u] # "idle" => call'[u] \in 1..made'
    BY <1>1, <1>3, <1>7 DEF Numbered
  <2>3. \A u, v \in Callers : at'[u] # "idle" /\ call'[v] = call'[u] => v = u
    <3> SUFFICES ASSUME NEW u \in Callers, NEW v \in Callers,
                        at'[u] # "idle", call'[v] = call'[u]
                 PROVE  v = u
      OBVIOUS
    <3>1. at[u] # "idle" /\ call'[u] = call[u] /\ call[u] # 0
      BY <1>1, <1>3 DEF Numbered, BridgeTypeOK
    <3>2. call'[v] = call[v]
      BY <1>3, <3>1
    <3>3. QED
      BY <3>1, <3>2 DEF Numbered
  <2>4. QED
    BY <1>7, <2>1, <2>2, <2>3 DEF Numbered
<1>10. QED
  BY <1>5, <1>6, <1>8, <1>9

\* A client that dies takes its connections and nothing else.
LEMMA ClientDiesKeeps ==
  ASSUME CallInv, NEW c \in Clients, ClientDies(c)
  PROVE  CallInv'
<1> USE BridgeAssumption DEF CallInv
<1>1. Drop(c) /\ UNCHANGED <<callVars, up, serverVars>>
  BY DEF ClientDies
<1>2. /\ at' \in [Callers -> {"idle", "send", "read"}] /\ call' \in [Callers -> 0..MaxCalls]
      /\ tries' \in [Callers -> 1..2] /\ lock' \in [Clients -> Callers \cup {"none"}]
      /\ \A u \in Callers : ClientOf[u] = c => at'[u] = "idle" /\ call'[u] = 0
      /\ \A u \in Callers : ClientOf[u] # c => at'[u] = at[u] /\ call'[u] = call[u]
      /\ lock' = [lock EXCEPT ![c] = "none"]
  BY DEF ClientDies, BridgeTypeOK
<1>3. BridgeTypeOK' /\ AnswersMatch'
  <2>1. \A u \in Callers : at'[u] # "idle" <=> lock'[ClientOf[u]] = u
    BY <1>2 DEF BridgeTypeOK
  <2>2. sock' \in [Clients -> 0..MaxConns]
    BY <1>1 DEF Drop, BridgeTypeOK
  <2>3. QED
    BY <1>1, <1>2, <2>1, <2>2 DEF BridgeTypeOK, AnswersMatch, callVars, serverVars
<1>4. /\ Wired' /\ Matched' /\ OnePlace'
      /\ \A q \in Calls : (Pending(q)' <=> Pending(q)) /\ (ToldRefused(q)' => ToldRefused(q))
  BY <1>1, <1>2, DropLeavesOthers
<1>5. mutating' = mutating /\ made' = made /\ ran' = ran
  BY <1>1 DEF callVars, serverVars
<1>6. Once'
  <2>1. \A q \in Calls : Sending(q)' => Sending(q)
    BY <1>2 DEF Sending
  <2>2. QED
    BY <1>4, <1>5, <2>1 DEF Once
<1>7. Numbered'
  <2>1. \A q \in Calls : Pending(q)' => q <= made'
    BY <1>4, <1>5 DEF Numbered
  <2>2. \A u \in Callers : /\ at'[u] = "idle" => call'[u] = 0
                           /\ at'[u] # "idle" => call'[u] \in 1..made'
    BY <1>2, <1>5 DEF Numbered
  <2>3. \A u, v \in Callers : at'[u] # "idle" /\ call'[v] = call'[u] => v = u
    BY <1>2 DEF Numbered, BridgeTypeOK
  <2>4. QED
    BY <1>5, <2>1, <2>2, <2>3 DEF Numbered
<1>8. QED
  BY <1>3, <1>4, <1>6, <1>7


\* The caller that reads is given the answer to its call, and there is no other.
LEMMA AnswerIsCallers ==
  ASSUME CallInv, NEW t \in Callers, at[t] = "read", down[sock[ClientOf[t]]] # <<>>
  PROVE  LET k == sock[ClientOf[t]]
         IN  /\ k \in Conns /\ up[k] = <<>> /\ handler[k] # "wait"
             /\ Head(down[k]) = down[k][1] /\ down[k][1] \in Response
             /\ down[k][1].call = call[t] /\ Tail(down[k]) = <<>>
<1> USE BridgeAssumption DEF CallInv
<1> DEFINE k == sock[ClientOf[t]]
<1>1. k \in Conns
  BY DEF Matched, BridgeTypeOK, Conns
<1>2. up[k] = <<>> /\ handler[k] # "wait"
  BY <1>1 DEF Wired, OneAtATime
<1>3. down[k] \in Seq(Response) /\ down[k] # <<>>
  BY <1>1 DEF Wired, WireTypes
<1>4. Len(down[k]) \in Nat \ {0} /\ Len(down[k]) <= 1
  BY <1>1, <1>3, EmptySeq DEF Wired, OneAtATime
<1>5. Len(down[k]) = 1
  <2> DEFINE n == Len(down[k])
  <2>1. n \in Nat \ {0} /\ n <= 1
    BY <1>4
  <2> HIDE DEF n
  <2>2. n = 1
    BY <2>1
  <2>3. QED
    BY <2>2 DEF n
<1>6. Head(down[k]) = down[k][1] /\ down[k][1] \in Response
  BY <1>3, <1>5, ElementOfSeq
<1>7. Tail(down[k]) \in Seq(Response) /\ Len(Tail(down[k])) = 0
  <2>1. Tail(down[k]) \in Seq(Response) /\ Len(Tail(down[k])) = Len(down[k]) - 1
    BY <1>3, HeadTailProperties
  <2>2. QED
    BY <1>5, <2>1
<1>8. Tail(down[k]) = <<>>
  <2> DEFINE s == Tail(down[k])
  <2>1. s \in Seq(Response) /\ Len(s) = 0
    BY <1>7
  <2> HIDE DEF s
  <2>2. s = <<>>
    BY <2>1, EmptySeq
  <2>3. QED
    BY <2>2 DEF s
<1>9. down[k][1].call = call[t]
  BY <1>3 DEF Matched, CarriesCallOf
<1>10. QED
  BY <1>1, <1>2, <1>6, <1>8, <1>9

\* A response is read by the thread whose request it answers.
LEMMA ReceiveKeeps ==
  ASSUME CallInv, NEW t \in Callers, NEW verdict \in Verdicts, Receive(t, verdict)
  PROVE  CallInv'
<1> USE BridgeAssumption DEF CallInv
<1> DEFINE c == ClientOf[t]
           k == sock[c]
           r == call[t]
<1>1. /\ at[t] = "read" /\ c \in Clients /\ down[k] # <<>>
      /\ at' = [at EXCEPT ![t] = "idle"] /\ call' = [call EXCEPT ![t] = 0]
      /\ tries' = [tries EXCEPT ![t] = 1] /\ lock' = [lock EXCEPT ![c] = "none"]
      /\ down' = [down EXCEPT ![k] = Tail(@)]
      /\ UNCHANGED <<made, mutating, sock, up, linked, serverVars>>
  BY DEF Receive, Returns
<1>2. /\ k \in Conns /\ up[k] = <<>> /\ handler[k] # "wait"
      /\ Head(down[k]) = down[k][1] /\ down[k][1] \in Response
      /\ down[k][1].call = r /\ Tail(down[k]) = <<>>
  BY <1>1, AnswerIsCallers
<1>3. /\ down' \in [Conns -> Seq(Response)] /\ down'[k] = <<>>
      /\ \A j \in Conns \ {k} : down'[j] = down[j]
  BY <1>1, <1>2 DEF Wired, WireTypes
<1>4. /\ at' \in [Callers -> {"idle", "send", "read"}] /\ call' \in [Callers -> 0..MaxCalls]
      /\ tries' \in [Callers -> 1..2] /\ lock' \in [Clients -> Callers \cup {"none"}]
      /\ at'[t] = "idle" /\ call'[t] = 0
      /\ \A u \in Callers : u # t => at'[u] = at[u] /\ call'[u] = call[u]
  BY <1>1 DEF BridgeTypeOK
<1>5. r \in Calls
  BY <1>1 DEF Numbered, BridgeTypeOK, Calls
<1>6. refused \subseteq refused' /\ refused' \subseteq refused \cup {r} /\ refused' \subseteq Calls
  BY <1>5 DEF Receive, BridgeTypeOK
<1>7. r \in refused' => r \in refused \/ down[k][1] = [call |-> r, verdict |-> "refused"]
  <2>1. r \in refused' => r \in refused \/ down[k][1].verdict = "refused"
    BY <1>2 DEF Receive
  <2>2. QED
    BY <1>2, <2>1 DEF Response
<1>8. BridgeTypeOK' /\ AnswersMatch'
  <2>1. mixed' = FALSE
    <3>1. mixed' = (mixed \/ Head(down[k]).call # r)
      BY Zenon DEF Receive
    <3>2. Head(down[k]).call = r /\ mixed = FALSE
      BY <1>2 DEF AnswersMatch, BridgeTypeOK
    <3>3. QED
      BY <3>1, <3>2
  <2>2. \A u \in Callers : at'[u] # "idle" <=> lock'[ClientOf[u]] = u
    <3>1. \A u \in Callers : ClientOf[u] = c /\ u # t => at[u] = "idle"
      BY <1>1, OneCaller
    <3>2. QED
      BY <1>1, <1>4, <3>1 DEF BridgeTypeOK
  <2>3. QED
    BY <1>1, <1>4, <1>6, <2>1, <2>2 DEF BridgeTypeOK, AnswersMatch, serverVars
<1>9. Wired'
  <2>1. WireTypes'
    BY <1>1, <1>3 DEF Wired, WireTypes, serverVars
  <2>2. Sockets'
    BY <1>1, <1>3 DEF Wired, Sockets, serverVars
  <2>3. OneAtATime'
    <3>1. ASSUME NEW j \in Conns
          PROVE  /\ Len(up[j]) <= 1 /\ Len(down'[j]) <= 1
                 /\ up[j] # <<>> => down'[j] = <<>>
                 /\ handler[j] = "wait" => up[j] = <<>> /\ down'[j] = <<>>
      <4>1. CASE j = k
        <5>1. down'[j] = <<>> /\ Len(<<>>) = 0
          BY <1>3, <4>1
        <5>2. Len(down'[j]) <= 1
          BY <5>1
        <5>3. QED
          BY <5>1, <5>2 DEF Wired, OneAtATime
      <4>2. CASE j # k
        BY <1>3, <4>2 DEF Wired, OneAtATime
      <4>3. QED
        BY <4>1, <4>2
    <3>2. QED
      BY <1>1, <3>1 DEF OneAtATime, serverVars
  <2>4. JobsAwaited'
    BY <1>1 DEF Wired, JobsAwaited, serverVars
  <2>5. QED
    BY <2>1, <2>2, <2>3, <2>4 DEF Wired
<1>10. Matched'
  <2>1. \A d \in Clients : d # c /\ sock[d] # 0 => sock[d] # k /\ sock[d] \in Conns
    BY <1>1, <1>2 DEF Wired, Sockets, BridgeTypeOK, Conns
  <2>2. ASSUME NEW u \in Callers, at'[u] = "read"
        PROVE  sock'[ClientOf[u]] # 0 /\ CarriesCallOf(u, sock[ClientOf[u]])'
    <3>1. u # t /\ at[u] = "read" /\ call'[u] = call[u]
      BY <1>4, <2>2
    <3>2. ClientOf[u] \in Clients /\ ClientOf[u] # c
      BY <1>1, <3>1, OneCaller
    <3>3. sock[ClientOf[u]] # 0 /\ CarriesCallOf(u, sock[ClientOf[u]])
      BY <3>1 DEF Matched
    <3>4. QED
      BY <1>1, <1>3, <2>1, <3>1, <3>2, <3>3 DEF CarriesCallOf, serverVars
  <2>3. ASSUME NEW d \in Clients, sock'[d] # 0, Busy(sock[d])'
        PROVE  \E u \in Callers : ClientOf[u] = d /\ at'[u] = "read"
    <3>1. sock'[d] = sock[d] /\ up' = up /\ handler' = handler
      BY <1>1 DEF serverVars
    <3>2. d # c
      BY <1>2, <1>3, <2>3, <3>1 DEF Busy
    <3>3. Busy(sock[d])
      BY <1>3, <2>1, <2>3, <3>1, <3>2 DEF Busy
    <3>4. PICK u \in Callers : ClientOf[u] = d /\ at[u] = "read"
      BY <2>3, <3>1, <3>3 DEF Matched
    <3>5. QED
      BY <1>4, <3>2, <3>4
  <2>4. QED
    BY <2>2, <2>3 DEF Matched
<1>11. \A q \in Calls : Pending(q)' <=> Pending(q)
  BY <1>1 DEF Pending, OnWire, Queued, Worked, serverVars
<1>12. ASSUME NEW q \in Calls, ToldRefused(q)' PROVE ToldRefused(q)
  <2>1. CASE \E j \in Conns : down'[j] # <<>> /\ down'[j][1] = [call |-> q, verdict |-> "refused"]
    BY <1>3, <2>1 DEF ToldRefused
  <2>2. CASE q \in refused'
    BY <1>1, <1>2, <1>6, <1>7, <2>2 DEF ToldRefused
  <2>3. QED
    BY <1>12, <2>1, <2>2 DEF ToldRefused
<1>13. mutating' = mutating /\ made' = made /\ ran' = ran
  BY <1>1 DEF serverVars
<1>14. OnePlace'
  BY <1>1 DEF OnePlace, OnWire, Queued, Worked, serverVars
<1>15. Once'
  <2>1. \A q \in Calls : Sending(q)' => Sending(q)
    BY <1>4 DEF Sending
  <2>2. QED
    BY <1>11, <1>12, <1>13, <2>1 DEF Once
<1>16. Numbered'
  <2>1. \A q \in Calls : Pending(q)' => q <= made'
    BY <1>11, <1>13 DEF Numbered
  <2>2. \A u \in Callers : /\ at'[u] = "idle" => call'[u] = 0
                           /\ at'[u] # "idle" => call'[u] \in 1..made'
    BY <1>4, <1>13 DEF Numbered
  <2>3. \A u, v \in Callers : at'[u] # "idle" /\ call'[v] = call'[u] => v = u
    <3> SUFFICES ASSUME NEW u \in Callers, NEW v \in Callers,
                        at'[u] # "idle", call'[v] = call'[u]
                 PROVE  v = u
      OBVIOUS
    <3>1. at[u] # "idle" /\ call'[u] = call[u] /\ call[u] # 0
      BY <1>4 DEF Numbered, BridgeTypeOK
    <3>2. call'[v] = call[v]
      BY <1>4, <3>1
    <3>3. QED
      BY <3>1, <3>2 DEF Numbered
  <2>4. QED
    BY <1>13, <2>1, <2>2, <2>3 DEF Numbered
<1>17. QED
  BY <1>8, <1>9, <1>10, <1>14, <1>15, <1>16

\* A request that the handler has read is the only one: its connection is quiet.
LEMMA HandlerReadsKeeps ==
  ASSUME CallInv, NEW k \in Conns, HandlerReads(k)
  PROVE  CallInv'
<1> USE BridgeAssumption DEF CallInv
<1> DEFINE r == up[k][1]
           job == [call |-> r, conn |-> k]
           n == Len(queue)
<1>1. /\ handler[k] = "read" /\ up[k] # <<>>
      /\ queue' = Append(queue, [call |-> Head(up[k]), conn |-> k])
      /\ up' = [up EXCEPT ![k] = Tail(@)]
      /\ handler' = [handler EXCEPT ![k] = "wait"]
      /\ UNCHANGED <<clientVars, down, linked, working, ran, deaths>>
  BY DEF HandlerReads
<1> USE DEF clientVars, callVars
<1>2. Head(up[k]) = r /\ r \in Calls /\ Tail(up[k]) = <<>>
  <2>1. up[k] \in Seq(Calls) /\ up[k] # <<>>
    BY <1>1 DEF Wired, WireTypes
  <2>2. Len(up[k]) \in Nat \ {0} /\ Len(up[k]) <= 1
    BY <2>1, EmptySeq DEF Wired, OneAtATime
  <2>3. Len(up[k]) = 1
    <3> DEFINE m == Len(up[k])
    <3>1. m \in Nat \ {0} /\ m <= 1
      BY <2>2
    <3> HIDE DEF m
    <3>2. m = 1
      BY <3>1
    <3>3. QED
      BY <3>2 DEF m
  <2>4. Tail(up[k]) = <<>>
    <3> DEFINE s == Tail(up[k])
    <3>1. s \in Seq(Calls) /\ Len(s) = Len(up[k]) - 1
      BY <2>1, HeadTailProperties
    <3>2. Len(s) = 0
      BY <2>3, <3>1
    <3> HIDE DEF s
    <3>3. s = <<>>
      BY <3>1, <3>2, EmptySeq
    <3>4. QED
      BY <3>3 DEF s
  <2>5. QED
    BY <2>1, <2>3, <2>4, ElementOfSeq
<1>3. /\ up' \in [Conns -> Seq(Calls)] /\ up'[k] = <<>>
      /\ \A j \in Conns \ {k} : up'[j] = up[j]
  BY <1>1, <1>2 DEF Wired, WireTypes
<1>4. /\ handler' \in [Conns -> {"gone", "read", "wait"}] /\ handler'[k] = "wait"
      /\ \A j \in Conns \ {k} : handler'[j] = handler[j]
  BY <1>1 DEF BridgeTypeOK
<1>5. job \in Job /\ queue \in Seq(Job) /\ n \in Nat
  BY <1>2 DEF Job, Conns, Wired, WireTypes
<1>6. /\ queue' \in Seq(Job) /\ Len(queue') = n + 1 /\ queue'[n + 1] = job
      /\ \A i \in 1..n : queue'[i] = queue[i]
  BY <1>1, <1>2, <1>5, AppendProperties
<1>7. down[k] = <<>> /\ k # 0
  BY <1>1 DEF Wired, OneAtATime, Conns
<1>8. /\ \A i \in 1..n : queue[i].conn # k
      /\ working # <<>> => working[1].conn # k
  BY <1>1, <1>7 DEF Wired, JobsAwaited
<1> HIDE DEF n
<1>9. \A i \in 1..n + 1 : i \in 1..n \/ i = n + 1
  BY <1>5
<1>10. BridgeTypeOK' /\ AnswersMatch'
  BY <1>1, <1>4 DEF BridgeTypeOK, AnswersMatch
<1>11. Wired'
  <2>1. WireTypes'
    BY <1>1, <1>3, <1>6 DEF Wired, WireTypes
  <2>2. Sockets'
    BY <1>1, <1>3, <1>4 DEF Wired, Sockets
  <2>3. OneAtATime'
    <3>1. ASSUME NEW j \in Conns
          PROVE  /\ Len(up'[j]) <= 1 /\ Len(down[j]) <= 1
                 /\ up'[j] # <<>> => down[j] = <<>>
                 /\ handler'[j] = "wait" => up'[j] = <<>> /\ down[j] = <<>>
      <4>1. CASE j = k
        <5>1. up'[j] = <<>> /\ down[j] = <<>> /\ Len(<<>>) = 0
          BY <1>3, <1>7, <4>1
        <5>2. Len(up'[j]) <= 1
          BY <5>1
        <5>3. QED
          BY <5>1, <5>2 DEF Wired, OneAtATime
      <4>2. CASE j # k
        BY <1>3, <1>4, <4>2 DEF Wired, OneAtATime
      <4>3. QED
        BY <4>1, <4>2
    <3>2. QED
      BY <1>1, <3>1 DEF OneAtATime
  <2>4. JobsAwaited'
    <3>1. ASSUME NEW i \in 1..n + 1, queue'[i].conn # 0
          PROVE  /\ handler'[queue'[i].conn] = "wait"
                 /\ \A j \in 1..n + 1 : queue'[j].conn = queue'[i].conn => j = i
      <4>1. CASE i = n + 1
        <5>1. queue'[i].conn = k
          BY <1>6, <4>1
        <5>2. QED
          BY <1>4, <1>6, <1>8, <1>9, <4>1, <5>1
      <4>2. CASE i \in 1..n
        <5>1. queue'[i].conn = queue[i].conn /\ queue[i].conn \in Conns /\ queue[i].conn # k
          BY <1>6, <1>8, <3>1, <4>2, JobSequences DEF Wired, Job, Conns, n
        <5>2. /\ handler[queue[i].conn] = "wait"
              /\ \A j \in 1..n : queue[j].conn = queue[i].conn => j = i
          BY <3>1, <4>2, <5>1 DEF Wired, JobsAwaited, n
        <5>3. \A j \in 1..n + 1 : queue'[j].conn = queue'[i].conn => j = i
          BY <1>6, <1>9, <5>1, <5>2
        <5>4. QED
          BY <1>4, <5>1, <5>2, <5>3
      <4>3. QED
        BY <1>9, <4>1, <4>2
    <3>2. ASSUME working # <<>>, working[1].conn # 0
          PROVE  /\ handler'[working[1].conn] = "wait"
                 /\ \A j \in 1..n + 1 : queue'[j].conn # working[1].conn
      <4>1. working[1].conn \in Conns
        BY <3>2, JobSequences DEF Wired, Job, Conns
      <4>2. /\ handler[working[1].conn] = "wait"
            /\ \A j \in 1..n : queue[j].conn # working[1].conn
        BY <3>2 DEF Wired, JobsAwaited, n
      <4>3. QED
        BY <1>4, <1>6, <1>8, <1>9, <3>2, <4>1, <4>2
    <3>3. QED
      BY <1>1, <1>6, <3>1, <3>2 DEF JobsAwaited
  <2>5. QED
    BY <2>1, <2>2, <2>3, <2>4 DEF Wired
<1>12. \A i \in 1..Len(queue') : \/ i \in 1..n /\ queue'[i] = queue[i]
                                 \/ i = n + 1 /\ queue'[i].call = r /\ queue'[i].conn = k
  BY <1>6, <1>9
<1>13. Matched'
  <2>1. ASSUME NEW u \in Callers, at[u] = "read"
        PROVE  sock[ClientOf[u]] # 0 /\ CarriesCallOf(u, sock[ClientOf[u]])'
    <3>1. sock[ClientOf[u]] # 0 /\ CarriesCallOf(u, sock[ClientOf[u]])
      BY <2>1 DEF Matched
    <3>2. sock[ClientOf[u]] \in Conns
      BY <3>1 DEF BridgeTypeOK, Conns
    <3>3. \A i \in 1..Len(queue') : queue'[i].conn = sock[ClientOf[u]] => queue'[i].call = call[u]
      BY <1>1, <1>12, <3>1 DEF CarriesCallOf, n
    <3>4. QED
      BY <1>1, <1>3, <3>1, <3>2, <3>3 DEF CarriesCallOf
  <2>2. ASSUME NEW d \in Clients, sock[d] # 0, Busy(sock[d])'
        PROVE  \E u \in Callers : ClientOf[u] = d /\ at[u] = "read"
    <3>1. sock[d] \in Conns
      BY <2>2 DEF BridgeTypeOK, Conns
    <3>2. Busy(sock[d])
      BY <1>1, <1>3, <1>4, <2>2, <3>1 DEF Busy
    <3>3. QED
      BY <2>2, <3>2 DEF Matched
  <2>3. QED
    BY <1>1, <2>1, <2>2 DEF Matched
<1>14. ASSUME NEW q \in Calls
       PROVE  /\ OnWire(q)' => OnWire(q)
              /\ q # r => (Queued(q)' => Queued(q))
              /\ Worked(q)' <=> Worked(q)
              /\ Pending(q)' => Pending(q)
              /\ ToldRefused(q)' <=> ToldRefused(q)
  <2>1. OnWire(q)' => OnWire(q)
    BY <1>3 DEF OnWire
  <2>2. Queued(q)' => Queued(q) \/ q = r
    BY <1>12 DEF Queued, n
  <2>3. (Worked(q)' <=> Worked(q)) /\ (ToldRefused(q)' <=> ToldRefused(q))
    BY <1>1 DEF Worked, ToldRefused
  <2>4. OnWire(r)
    BY <1>1 DEF OnWire
  <2>5. QED
    BY <2>1, <2>2, <2>3, <2>4 DEF Pending
<1>15. OnePlace'
  <2> SUFFICES ASSUME NEW q \in mutating
               PROVE  /\ \A j, l \in Conns :
                           up'[j] # <<>> /\ up'[j][1] = q /\ up'[l] # <<>> /\ up'[l][1] = q => j = l
                      /\ \A i, j \in 1..Len(queue') : queue'[i].call = q /\ queue'[j].call = q => i = j
                      /\ OnWire(q)' => ~Queued(q)' /\ ~Worked(q)'
                      /\ Queued(q)' => ~Worked(q)'
    BY <1>1 DEF OnePlace
  <2>1. q \in Calls
    BY DEF BridgeTypeOK
  <2>2. CASE q = r
    <3>1. OnWire(q) /\ ~Queued(q) /\ ~Worked(q)
      BY <1>1, <2>2 DEF OnePlace, OnWire
    <3>2. ~OnWire(q)'
      BY <1>1, <1>3, <2>2 DEF OnePlace, OnWire
    <3>3. \A i \in 1..Len(queue') : queue'[i].call = q => i = n + 1
      BY <1>12, <3>1 DEF Queued, n
    <3>4. QED
      BY <1>14, <2>1, <3>1, <3>2, <3>3 DEF OnWire
  <2>3. CASE q # r
    <3>1. \A i \in 1..Len(queue') : queue'[i].call = q => i \in 1..n /\ queue[i].call = q
      BY <1>12, <2>3
    <3>2. \A i, j \in 1..Len(queue') : queue'[i].call = q /\ queue'[j].call = q => i = j
      BY <3>1 DEF OnePlace, n
    <3>3. \A j \in Conns : up'[j] # <<>> /\ up'[j][1] = q => up[j] # <<>> /\ up[j][1] = q
      BY <1>3
    <3>4. QED
      BY <1>14, <2>1, <2>3, <3>2, <3>3 DEF OnePlace
  <2>4. QED
    BY <2>2, <2>3
<1>16. Once'
  BY <1>1, <1>14 DEF Once, Sending
<1>17. Numbered'
  BY <1>1, <1>14 DEF Numbered
<1>18. QED
  BY <1>10, <1>11, <1>13, <1>15, <1>16, <1>17

\* A handler ends when its client has closed and nothing is left to read.
LEMMA HandlerEndsKeeps ==
  ASSUME CallInv, NEW k \in Conns, HandlerEnds(k)
  PROVE  CallInv'
<1> USE BridgeAssumption DEF CallInv
<1>1. /\ handler[k] = "read" /\ up[k] = <<>>
      /\ handler' = [handler EXCEPT ![k] = "gone"]
      /\ UNCHANGED <<clientVars, wireVars, queue, working, ran, deaths>>
  BY DEF HandlerEnds
<1> USE DEF clientVars, callVars, wireVars
<1>2. /\ handler' \in [Conns -> {"gone", "read", "wait"}] /\ handler'[k] = "gone"
      /\ \A j \in Conns \ {k} : handler'[j] = handler[j]
      /\ \A j \in Conns : handler'[j] = "wait" <=> handler[j] = "wait"
  BY <1>1 DEF BridgeTypeOK
<1>3. BridgeTypeOK' /\ AnswersMatch'
  BY <1>1, <1>2 DEF BridgeTypeOK, AnswersMatch
<1>4. Wired'
  <2>1. WireTypes' /\ Sockets' /\ OneAtATime'
    BY <1>1, <1>2 DEF Wired, WireTypes, Sockets, OneAtATime
  <2>2. JobsAwaited'
    BY <1>1, <1>2, JobSequences DEF Wired, JobsAwaited, Job, Conns
  <2>3. QED
    BY <2>1, <2>2 DEF Wired
<1>5. Matched'
  BY <1>1, <1>2 DEF Matched, CarriesCallOf, Busy, BridgeTypeOK, Conns
<1>6. OnePlace' /\ Once' /\ Numbered'
  BY <1>1 DEF OnePlace, Once, Numbered, Pending, OnWire, Queued, Worked, ToldRefused, Sending
<1>7. QED
  BY <1>3, <1>4, <1>5, <1>6

\* A job that is taken leaves the queue.
LEMMA WorkerTakesKeeps ==
  ASSUME CallInv, WorkerTakes
  PROVE  CallInv'
<1> USE BridgeAssumption DEF CallInv
<1> DEFINE n == Len(queue)
<1>1. /\ queue # <<>> /\ working = <<>> /\ working' = <<Head(queue)>> /\ queue' = Tail(queue)
      /\ UNCHANGED <<clientVars, wireVars, handler, ran, deaths>>
  BY DEF WorkerTakes
<1> USE DEF clientVars, callVars, wireVars
<1>2. n \in Nat \ {0} /\ queue \in Seq(Job) /\ \A i \in 1..n : queue[i] \in Job
  BY <1>1, EmptySeq, ElementOfSeq DEF Wired, WireTypes
<1>3. /\ queue' \in Seq(Job) /\ Len(queue') = n - 1
      /\ \A i \in 1..Len(queue') : queue'[i] = queue[i + 1]
  BY <1>1, <1>2, HeadTailProperties
<1>4. /\ working' = <<queue[1]>> /\ working' # <<>> /\ working'[1] = queue[1]
      /\ working' \in Seq(Job) /\ Len(working') = 1
  BY <1>1, <1>2
<1> HIDE DEF n
<1>5. \A i \in 1..Len(queue') : i + 1 \in 1..n /\ i + 1 # 1
  BY <1>2, <1>3
<1>6. BridgeTypeOK' /\ AnswersMatch'
  BY <1>1 DEF BridgeTypeOK, AnswersMatch
<1>7. Wired'
  <2>1. WireTypes'
    <3>1. \A m : m = 1 => m <= 1
      OBVIOUS
    <3>2. Len(working') <= 1
      BY <1>4, <3>1, Zenon
    <3>3. QED
      BY <1>1, <1>3, <1>4, <3>2 DEF Wired, WireTypes
  <2>2. Sockets' /\ OneAtATime'
    BY <1>1 DEF Wired, Sockets, OneAtATime
  <2>3. JobsAwaited'
    <3>1. ASSUME NEW i \in 1..Len(queue'), queue'[i].conn # 0
          PROVE  /\ handler[queue'[i].conn] = "wait"
                 /\ \A j \in 1..Len(queue') : queue'[j].conn = queue'[i].conn => j = i
      <4>1. /\ handler[queue[i + 1].conn] = "wait"
            /\ \A j \in 1..n : queue[j].conn = queue[i + 1].conn => j = i + 1
        BY <1>3, <1>5, <3>1 DEF Wired, JobsAwaited, n
      <4>2. \A j \in 1..Len(queue') : queue'[j].conn = queue'[i].conn => j + 1 = i + 1
        BY <1>3, <1>5, <4>1
      <4>3. \A j \in 1..Len(queue') : j + 1 = i + 1 => j = i
        BY <1>2, <1>3
      <4>4. QED
        BY <1>3, <4>1, <4>2, <4>3
    <3>2. ASSUME working'[1].conn # 0
          PROVE  /\ handler[working'[1].conn] = "wait"
                 /\ \A j \in 1..Len(queue') : queue'[j].conn # working'[1].conn
      <4>1. /\ handler[queue[1].conn] = "wait"
            /\ \A j \in 1..n : queue[j].conn = queue[1].conn => j = 1
        BY <1>2, <1>4, <3>2 DEF Wired, JobsAwaited, n
      <4>2. QED
        BY <1>3, <1>4, <1>5, <4>1
    <3>3. QED
      BY <1>1, <3>1, <3>2 DEF JobsAwaited
  <2>4. QED
    BY <2>1, <2>2, <2>3 DEF Wired
<1>8. Matched'
  <2>1. ASSUME NEW u \in Callers, NEW k \in 0..MaxConns, CarriesCallOf(u, k)
        PROVE  CarriesCallOf(u, k)'
    <3>1. \A i \in 1..n : queue[i].conn = k => queue[i].call = call[u]
      BY <2>1 DEF CarriesCallOf, n
    <3>2. 1 \in 1..n
      BY <1>2
    <3>3. \A i \in 1..Len(queue') : queue'[i].conn = k => queue'[i].call = call[u]
      BY <1>3, <1>5, <3>1
    <3>4. working'[1].conn = k => working'[1].call = call[u]
      BY <1>4, <3>1, <3>2
    <3>5. QED
      BY <1>1, <2>1, <3>3, <3>4 DEF CarriesCallOf
  <2>2. \A u \in Callers : sock[ClientOf[u]] \in 0..MaxConns
    BY DEF BridgeTypeOK
  <2>3. QED
    BY <1>1, <2>1, <2>2 DEF Matched, Busy
<1>9. ASSUME NEW q \in Calls
      PROVE  /\ OnWire(q)' <=> OnWire(q)
             /\ Queued(q)' => Queued(q)
             /\ Worked(q)' <=> queue[1].call = q
             /\ Queued(q) <=> Queued(q)' \/ Worked(q)'
             /\ ~Worked(q)
             /\ Pending(q)' <=> Pending(q)
             /\ ToldRefused(q)' <=> ToldRefused(q)
  <2>1. (OnWire(q)' <=> OnWire(q)) /\ (ToldRefused(q)' <=> ToldRefused(q)) /\ ~Worked(q)
    BY <1>1 DEF OnWire, ToldRefused, Worked
  <2>2. Worked(q)' <=> queue[1].call = q
    BY <1>4 DEF Worked
  <2>3. Queued(q)' => Queued(q)
    BY <1>3, <1>5 DEF Queued, n
  <2>4. queue[1].call = q => Queued(q)
    BY <1>2 DEF Queued, n
  <2>5. Queued(q) => Queued(q)' \/ queue[1].call = q
    <3> SUFFICES ASSUME NEW i \in 1..n, queue[i].call = q, i # 1 PROVE Queued(q)'
      BY DEF Queued, n
    <3>1. i - 1 \in 1..Len(queue') /\ (i - 1) + 1 = i
      BY <1>2, <1>3
    <3>2. QED
      BY <1>3, <3>1 DEF Queued
  <2>6. QED
    BY <2>1, <2>2, <2>3, <2>4, <2>5 DEF Pending
<1>10. OnePlace'
  <2> SUFFICES ASSUME NEW q \in mutating
               PROVE  /\ \A j, l \in Conns :
                           up[j] # <<>> /\ up[j][1] = q /\ up[l] # <<>> /\ up[l][1] = q => j = l
                      /\ \A i, j \in 1..Len(queue') : queue'[i].call = q /\ queue'[j].call = q => i = j
                      /\ OnWire(q)' => ~Queued(q)' /\ ~Worked(q)'
                      /\ Queued(q)' => ~Worked(q)'
    BY <1>1 DEF OnePlace
  <2>1. q \in Calls
    BY DEF BridgeTypeOK
  <2>2. \A i, j \in 1..n : queue[i].call = q /\ queue[j].call = q => i = j
    BY DEF OnePlace, n
  <2>3. \A i, j \in 1..Len(queue') : queue'[i].call = q /\ queue'[j].call = q => i + 1 = j + 1
    BY <1>3, <1>5, <2>2
  <2>4. \A i, j \in 1..Len(queue') : i + 1 = j + 1 => i = j
    BY <1>2, <1>3
  <2>5. Queued(q)' => ~Worked(q)'
    <3> SUFFICES ASSUME NEW i \in 1..Len(queue'), queue'[i].call = q PROVE queue[1].call # q
      BY <1>9, <2>1 DEF Queued
    <3>1. i + 1 \in 1..n /\ i + 1 # 1 /\ queue[i + 1].call = q
      BY <1>3, <1>5
    <3>2. 1 \in 1..n
      BY <1>2
    <3>3. QED
      BY <2>2, <3>1, <3>2
  <2>6. QED
    BY <1>9, <2>1, <2>3, <2>4, <2>5 DEF OnePlace
<1>11. Once' /\ Numbered'
  BY <1>1, <1>9 DEF Once, Sending, Numbered
<1>12. QED
  BY <1>6, <1>7, <1>8, <1>10, <1>11

\* The bridge forgets what it had; the terminal may just have acted on the
\* worker's job.
LEMMA BridgeDiesKeeps ==
  ASSUME CallInv, BridgeDies
  PROVE  CallInv'
<1> USE BridgeAssumption DEF CallInv
<1>1. /\ deaths < MaxDeaths /\ deaths' = deaths + 1
      /\ queue' = <<>> /\ working' = <<>>
      /\ handler' = [k \in Conns |-> "gone"] /\ up' = [k \in Conns |-> <<>>]
      /\ UNCHANGED <<clientVars, down, linked>>
  BY DEF BridgeDies
<1> USE DEF clientVars, callVars
<1>2. /\ ran' \in [Calls -> Nat]
      /\ \A q \in Calls : ran'[q] = ran[q] \/ (ran'[q] = ran[q] + 1 /\ q \in mutating /\ Worked(q))
  <2>1. CASE ran' = ran
    BY <2>1 DEF BridgeTypeOK
  <2>2. CASE \E r \in mutating \cap {w.call : w \in ToSet(working)} : ran' = [ran EXCEPT ![r] = @ + 1]
    <3>1. PICK r \in mutating, w \in ToSet(working) : r = w.call /\ ran' = [ran EXCEPT ![r] = @ + 1]
      BY <2>2
    <3>2. r \in Calls
      BY DEF BridgeTypeOK
    <3>3. Worked(r)
      <4>1. working # <<>> /\ Len(working) = 1
        BY <3>1, JobSequences DEF Wired, ToSet
      <4>2. w = working[1]
        BY <3>1, <4>1, LenProperties DEF ToSet, Wired, WireTypes
      <4>3. QED
        BY <3>1, <4>1, <4>2 DEF Worked
    <3>4. QED
      BY <3>1, <3>2, <3>3 DEF BridgeTypeOK
  <2>3. QED
    BY <2>1, <2>2 DEF BridgeDies
<1>3. BridgeTypeOK' /\ AnswersMatch'
  BY <1>1, <1>2 DEF BridgeTypeOK, AnswersMatch
<1>4. Wired'
  <2>1. <<>> \in Seq(Calls) /\ <<>> \in Seq(Job) /\ Len(<<>>) = 0 /\ Len(<<>>) <= 1
    OBVIOUS
  <2>2. WireTypes'
    BY <1>1, <2>1 DEF Wired, WireTypes
  <2>3. Sockets'
    BY <1>1 DEF Wired, Sockets
  <2>4. OneAtATime'
    BY <1>1, <2>1 DEF Wired, OneAtATime
  <2>5. JobsAwaited'
    BY <1>1, <2>1 DEF JobsAwaited
  <2>6. QED
    BY <2>2, <2>3, <2>4, <2>5 DEF Wired
<1>5. Matched'
  <2>1. ASSUME NEW u \in Callers, at[u] = "read"
        PROVE  sock[ClientOf[u]] # 0 /\ CarriesCallOf(u, sock[ClientOf[u]])'
    <3>1. sock[ClientOf[u]] # 0 /\ CarriesCallOf(u, sock[ClientOf[u]])
      BY <2>1 DEF Matched
    <3>2. sock[ClientOf[u]] \in Conns
      BY <3>1 DEF BridgeTypeOK, Conns
    <3>3. Len(queue') = 0
      BY <1>1
    <3>4. QED
      BY <1>1, <3>1, <3>2, <3>3 DEF CarriesCallOf
  <2>2. \A d \in Clients : sock[d] # 0 /\ Busy(sock[d])' => Busy(sock[d])
    BY <1>1 DEF Busy, BridgeTypeOK, Conns
  <2>3. QED
    BY <1>1, <2>1, <2>2 DEF Matched
<1>6. ASSUME NEW q \in Calls
      PROVE  ~OnWire(q)' /\ ~Queued(q)' /\ ~Worked(q)' /\ ~Pending(q)' /\ (ToldRefused(q)' <=> ToldRefused(q))
  <2>1. ~OnWire(q)' /\ ~Worked(q)' /\ (ToldRefused(q)' <=> ToldRefused(q))
    BY <1>1 DEF OnWire, Worked, ToldRefused
  <2>2. ~Queued(q)'
    <3>1. Len(queue') = 0
      BY <1>1
    <3>2. QED
      BY <3>1 DEF Queued
  <2>3. QED
    BY <2>1, <2>2 DEF Pending
<1>7. OnePlace'
  <2>1. Len(queue') = 0
    BY <1>1
  <2>2. QED
    BY <1>1, <1>6, <2>1 DEF OnePlace, BridgeTypeOK
<1>8. Once'
  <2> SUFFICES ASSUME NEW q \in Calls
               PROVE  /\ q \in mutating /\ Sending(q) => ran'[q] = 0
                      /\ ToldRefused(q) => q \in mutating /\ ~Sending(q) /\ ran'[q] = 0
                      /\ ran'[q] <= 1 /\ (ran'[q] # 0 => q \in mutating)
    BY <1>1, <1>6 DEF Once, Sending
  <2>1. CASE ran'[q] = ran[q]
    BY <2>1 DEF Once
  <2>2. CASE ran'[q] = ran[q] + 1 /\ q \in mutating /\ Worked(q)
    BY <2>2 DEF Once, Pending
  <2>3. QED
    BY <1>2, <2>1, <2>2
<1>9. Numbered'
  BY <1>1, <1>6 DEF Numbered
<1>10. QED
  BY <1>3, <1>4, <1>5, <1>7, <1>8, <1>9

\* The call that a handler gives up stays pending; its answer is no refusal.
LEMMA HandlerGivesUpKeeps ==
  ASSUME CallInv, NEW k \in Conns, HandlerGivesUp(k)
  PROVE  CallInv'
<1> USE BridgeAssumption DEF CallInv
<1> DEFINE n == Len(queue)
<1>1. /\ handler[k] = "wait" /\ k # 0
      /\ queue' = Disowned(queue, k) /\ working' = Disowned(working, k)
      /\ UNCHANGED <<clientVars, linked, ran, deaths>>
  BY DEF HandlerGivesUp, Conns
<1> USE DEF clientVars, callVars
<1>2. PICK r \in Calls, v \in {"ambiguous", "error"} :
        [call |-> r, conn |-> k] \in ToSet(queue \o working) /\ Responds(k, r, v)
  BY DEF HandlerGivesUp
<1>3. v \in Verdicts /\ v # "refused"
  BY DEF Verdicts
<1>4. /\ up' = up
      /\ down' \in [Conns -> Seq(Response)]
      /\ handler' \in [Conns -> {"gone", "read", "wait"}]
      /\ \A j \in Conns \ {k} : handler'[j] = handler[j] /\ down'[j] = down[j]
      /\ handler'[k] = IF linked[k] THEN "read" ELSE "gone"
      /\ down'[k] = IF linked[k] THEN <<[call |-> r, verdict |-> v]>> ELSE <<>>
  BY <1>1, <1>2, <1>3, ReplyReaches
<1>5. up[k] = <<>> /\ down[k] = <<>>
  BY <1>1 DEF Wired, OneAtATime
<1>6. /\ queue \in Seq(Job) /\ n \in Nat /\ \A i \in 1..n : queue[i] \in Job
      /\ working = <<>> \/ (Len(working) = 1 /\ working[1] \in Job)
      /\ working \in Seq(Job)
  BY JobSequences DEF Wired, WireTypes
<1>7. /\ queue' \in Seq(Job) /\ Len(queue') = n
      /\ \A i \in 1..n :
           /\ queue'[i].call = queue[i].call
           /\ queue'[i].conn = IF queue[i].conn = k THEN 0 ELSE queue[i].conn
  BY <1>1, <1>6, DisownedJobs
<1>8. /\ working' \in Seq(Job) /\ Len(working') = Len(working)
      /\ \A i \in 1..Len(working) :
           /\ working'[i].call = working[i].call
           /\ working'[i].conn = IF working[i].conn = k THEN 0 ELSE working[i].conn
  BY <1>1, <1>6, DisownedJobs
<1>9. /\ working' # <<>> <=> working # <<>>
      /\ working # <<>> =>
           /\ working'[1].call = working[1].call
           /\ working'[1].conn = IF working[1].conn = k THEN 0 ELSE working[1].conn
  <2>1. CASE working = <<>>
    <3>1. Len(working') = 0
      BY <1>8, <2>1
    <3>2. working' = <<>>
      <4> DEFINE s == working'
      <4>1. s \in Seq(Job) /\ Len(s) = 0
        BY <1>8, <3>1
      <4> HIDE DEF s
      <4>2. s = <<>>
        BY <4>1, EmptySeq
      <4>3. QED
        BY <4>2 DEF s
    <3>3. QED
      BY <2>1, <3>2
  <2>2. CASE working # <<>>
    <3>1. Len(working) = 1 /\ Len(working') = 1
      BY <1>6, <1>8, <2>2
    <3>2. working' # <<>>
      BY <3>1
    <3>3. QED
      BY <1>8, <2>2, <3>1, <3>2
  <2>3. QED
    BY <2>1, <2>2
<1>10. \/ \E i \in 1..n : queue[i].call = r /\ queue[i].conn = k
       \/ working # <<>> /\ working[1].call = r /\ working[1].conn = k
  <2> DEFINE m == Len(working)
             s == queue \o working
  <2>1. /\ m \in Nat /\ s \in Seq(Job) /\ Len(s) = n + m
        /\ \A i \in 1..n + m : s[i] = IF i <= n THEN queue[i] ELSE working[i - n]
    BY <1>6, ConcatProperties, LenProperties
  <2>2. \E i \in 1..n + m : s[i] = [call |-> r, conn |-> k]
    BY <1>2, <2>1, LenProperties DEF ToSet
  <2>3. PICK i \in 1..n + m : s[i] = [call |-> r, conn |-> k]
    BY <2>2
  <2>4. CASE i <= n
    <3>1. i \in 1..n /\ queue[i] = [call |-> r, conn |-> k]
      BY <1>6, <2>1, <2>3, <2>4
    <3>2. QED
      BY <3>1
  <2>5. CASE ~(i <= n)
    <3> HIDE DEF n, m
    <3>1. i - n \in 1..m /\ s[i] = working[i - n]
      BY <1>6, <2>1, <2>5 DEF n, m
    <3>2. working # <<>> => m = 1
      BY <1>6 DEF m
    <3>3. working = <<>> => m = 0
      BY DEF m
    <3>4. working # <<>> /\ i - n = 1
      BY <1>6, <2>1, <3>1, <3>2, <3>3 DEF n
    <3>5. working[1] = [call |-> r, conn |-> k]
      BY <2>3, <3>1, <3>4
    <3>6. QED
      BY <3>4, <3>5
  <2>6. QED
    BY <2>4, <2>5
<1> HIDE DEF n
<1>11. BridgeTypeOK' /\ AnswersMatch'
  BY <1>1, <1>4 DEF BridgeTypeOK, AnswersMatch
<1>12. Wired'
  <2>1. WireTypes'
    <3>1. Len(working') <= 1
      BY <1>8 DEF Wired, WireTypes
    <3>2. QED
      BY <1>1, <1>4, <1>7, <1>8, <3>1 DEF Wired, WireTypes
  <2>2. Sockets'
    BY <1>1, <1>4, <1>5 DEF Wired, Sockets
  <2>3. OneAtATime'
    <3>1. ASSUME NEW j \in Conns
          PROVE  /\ Len(up[j]) <= 1 /\ Len(down'[j]) <= 1
                 /\ up[j] # <<>> => down'[j] = <<>>
                 /\ handler'[j] = "wait" => up[j] = <<>> /\ down'[j] = <<>>
      <4>1. CASE j = k
        <5>1. /\ Len(<<>>) = 0 /\ Len(<<[call |-> r, verdict |-> v]>>) = 1
              /\ \A a : a = 0 \/ a = 1 => a <= 1
          OBVIOUS
        <5>2. Len(down'[j]) = 0 \/ Len(down'[j]) = 1
          BY <1>4, <4>1, <5>1, Zenon
        <5>3. Len(down'[j]) <= 1
          BY <5>1, <5>2, Zenon
        <5>4. up[j] = <<>> /\ handler'[j] # "wait"
          BY <1>4, <1>5, <4>1
        <5>5. QED
          BY <5>3, <5>4 DEF Wired, OneAtATime
      <4>2. CASE j # k
        BY <1>4, <4>2 DEF Wired, OneAtATime
      <4>3. QED
        BY <4>1, <4>2
    <3>2. QED
      BY <1>4, <3>1 DEF OneAtATime
  <2>4. JobsAwaited'
    <3>1. ASSUME NEW i \in 1..n, queue'[i].conn # 0
          PROVE  /\ handler'[queue'[i].conn] = "wait"
                 /\ \A j \in 1..n : queue'[j].conn = queue'[i].conn => j = i
      <4>1. queue'[i].conn = queue[i].conn /\ queue[i].conn \in Conns \ {k}
        BY <1>6, <1>7, <3>1, SMTT(60) DEF Job, Conns
      <4>2. /\ handler[queue[i].conn] = "wait"
            /\ \A j \in 1..n : queue[j].conn = queue[i].conn => j = i
        BY <3>1, <4>1 DEF Wired, JobsAwaited, n
      <4>3. QED
        BY <1>4, <1>7, <3>1, <4>1, <4>2
    <3>2. ASSUME working' # <<>>, working'[1].conn # 0
          PROVE  /\ handler'[working'[1].conn] = "wait"
                 /\ \A j \in 1..n : queue'[j].conn # working'[1].conn
      <4>1. working # <<>> /\ working'[1].conn = working[1].conn /\ working[1].conn \in Conns \ {k}
        BY <1>6, <1>9, <3>2 DEF Job, Conns
      <4>2. /\ handler[working[1].conn] = "wait"
            /\ \A j \in 1..n : queue[j].conn # working[1].conn
        BY <3>2, <4>1 DEF Wired, JobsAwaited, n
      <4>3. QED
        BY <1>4, <1>7, <3>2, <4>1, <4>2
    <3>3. QED
      BY <1>7, <3>1, <3>2 DEF JobsAwaited
  <2>5. QED
    BY <2>1, <2>2, <2>3, <2>4 DEF Wired
<1>13. Matched'
  <2>1. ASSUME NEW u \in Callers, at[u] = "read"
        PROVE  sock[ClientOf[u]] # 0 /\ CarriesCallOf(u, sock[ClientOf[u]])'
    <3> DEFINE l == sock[ClientOf[u]]
    <3>1. l # 0 /\ CarriesCallOf(u, l)
      BY <2>1 DEF Matched
    <3>2. l \in Conns
      BY <3>1 DEF BridgeTypeOK, Conns
    <3> HIDE DEF l
    <3>3. up'[l] # <<>> => up'[l][1] = call[u]
      BY <1>4, <3>1 DEF CarriesCallOf
    <3>4. down'[l] # <<>> => down'[l][1].call = call[u]
      <4>1. CASE l = k
        <5>1. r = call[u]
          BY <1>10, <3>1, <4>1 DEF CarriesCallOf, n
        <5>2. QED
          BY <1>4, <4>1, <5>1
      <4>2. CASE l # k
        BY <1>4, <3>1, <3>2, <4>2 DEF CarriesCallOf
      <4>3. QED
        BY <4>1, <4>2
    <3>5. \A i \in 1..Len(queue') : queue'[i].conn = l => queue'[i].call = call[u]
      BY <1>7, <3>1 DEF CarriesCallOf, n
    <3>6. working' # <<>> /\ working'[1].conn = l => working'[1].call = call[u]
      BY <1>9, <3>1 DEF CarriesCallOf
    <3>7. QED
      BY <1>1, <3>1, <3>3, <3>4, <3>5, <3>6 DEF CarriesCallOf, l
  <2>2. ASSUME NEW d \in Clients, sock[d] # 0, Busy(sock[d])'
        PROVE  \E u \in Callers : ClientOf[u] = d /\ at[u] = "read"
    <3>1. sock[d] \in Conns
      BY <2>2 DEF BridgeTypeOK, Conns
    <3>2. Busy(sock[d])
      BY <1>1, <1>4, <2>2, <3>1 DEF Busy
    <3>3. QED
      BY <2>2, <3>2 DEF Matched
  <2>3. QED
    BY <1>1, <2>1, <2>2 DEF Matched
<1>14. ASSUME NEW q \in Calls
       PROVE  /\ OnWire(q)' <=> OnWire(q)
              /\ Queued(q)' <=> Queued(q)
              /\ Worked(q)' <=> Worked(q)
              /\ Pending(q)' <=> Pending(q)
              /\ ToldRefused(q)' => ToldRefused(q)
  <2>1. OnWire(q)' <=> OnWire(q)
    BY <1>4 DEF OnWire
  <2>2. Queued(q)' <=> Queued(q)
    BY <1>7 DEF Queued, n
  <2>3. Worked(q)' <=> Worked(q)
    BY <1>9 DEF Worked
  <2>4. ToldRefused(q)' => ToldRefused(q)
    <3> SUFFICES ASSUME NEW j \in Conns, down'[j] # <<>>,
                        down'[j][1] = [call |-> q, verdict |-> "refused"]
                 PROVE  ToldRefused(q)
      BY <1>1 DEF ToldRefused
    <3>1. j # k
      <4> SUFFICES ASSUME j = k PROVE FALSE
        OBVIOUS
      <4>1. [call |-> r, verdict |-> v] = [call |-> q, verdict |-> "refused"]
        BY <1>4
      <4>2. QED
        BY <1>3, <4>1
    <3>2. QED
      BY <1>4, <3>1 DEF ToldRefused
  <2>5. QED
    BY <2>1, <2>2, <2>3, <2>4 DEF Pending
<1>15. OnePlace'
  <2>1. \A q \in mutating : q \in Calls
    BY DEF BridgeTypeOK
  <2>2. \A q \in mutating : \A i, j \in 1..Len(queue') : queue'[i].call = q /\ queue'[j].call = q => i = j
    BY <1>7 DEF OnePlace, n
  <2>3. QED
    BY <1>1, <1>4, <1>14, <2>1, <2>2 DEF OnePlace
<1>16. Once' /\ Numbered'
  BY <1>1, <1>14 DEF Once, Sending, Numbered
<1>17. QED
  BY <1>11, <1>12, <1>13, <1>15, <1>16

\* The effect of a job is its call's only one, for the call is nowhere else.
LEMMA WorkerEndsKeeps ==
  ASSUME CallInv, WorkerEnds
  PROVE  CallInv'
<1> USE BridgeAssumption DEF CallInv
<1> DEFINE r == working[1].call
           k == working[1].conn
<1>1. working # <<>> /\ working' = <<>> /\ UNCHANGED <<clientVars, linked, queue, deaths>>
  BY DEF WorkerEnds
<1> USE DEF clientVars, callVars
<1>2. r \in Calls /\ k \in 0..MaxConns
  BY <1>1, JobSequences DEF Wired, Job
<1>3. PICK end \in Ends(r) :
        /\ ran' = [ran EXCEPT ![r] = @ + end[1]]
        /\ IF k = 0 THEN UNCHANGED <<handler, down, up>> ELSE Responds(k, r, end[2])
  BY DEF WorkerEnds
<1>4. /\ end[1] \in {0, 1} /\ end[2] \in Verdicts
      /\ end[1] = 1 => r \in mutating /\ end[2] # "refused"
      /\ end[2] = "refused" => r \in mutating /\ end[1] = 0
  BY <1>2, EndsOfCalls
<1>5. k # 0 => k \in Conns /\ handler[k] = "wait" /\ up[k] = <<>> /\ down[k] = <<>>
               /\ \A i \in 1..Len(queue) : queue[i].conn # k
  BY <1>1, <1>2 DEF Wired, JobsAwaited, OneAtATime, Conns
<1>6. /\ up' = up
      /\ down' \in [Conns -> Seq(Response)]
      /\ handler' \in [Conns -> {"gone", "read", "wait"}]
      /\ \A j \in Conns : j # k => handler'[j] = handler[j] /\ down'[j] = down[j]
      /\ k # 0 => handler'[k] = IF linked[k] THEN "read" ELSE "gone"
      /\ k # 0 => down'[k] = IF linked[k] THEN <<[call |-> r, verdict |-> end[2]]>> ELSE <<>>
  <2>1. CASE k = 0
    BY <1>3, <2>1 DEF Wired, WireTypes, BridgeTypeOK, Conns
  <2>2. CASE k # 0
    <3>1. k \in Conns /\ handler[k] = "wait" /\ Responds(k, r, end[2])
      BY <1>3, <1>5, <2>2
    <3> HIDE DEF k, r
    <3>2. QED
      BY <1>2, <1>4, <3>1, ReplyReaches DEF r
  <2>3. QED
    BY <2>1, <2>2
<1>7. /\ ran' \in [Calls -> Nat] /\ ran'[r] = ran[r] + end[1]
      /\ \A q \in Calls : q # r => ran'[q] = ran[q]
  BY <1>2, <1>3, <1>4 DEF BridgeTypeOK
<1>8. Worked(r) /\ \A q \in Calls : Worked(q) => q = r
  BY <1>1 DEF Worked
<1>9. r \in mutating => /\ ~OnWire(r) /\ ~Queued(r) /\ ~Sending(r)
                       /\ ~ToldRefused(r) /\ ran[r] = 0
  BY <1>2, <1>8 DEF OnePlace, Once, Pending
<1> HIDE DEF r, k
<1>10. BridgeTypeOK' /\ AnswersMatch'
  BY <1>1, <1>6, <1>7 DEF BridgeTypeOK, AnswersMatch
<1>11. Wired'
  <2>1. WireTypes'
    <3>1. <<>> \in Seq(Job) /\ Len(<<>>) = 0 /\ Len(<<>>) <= 1
      OBVIOUS
    <3>2. QED
      BY <1>1, <1>6, <3>1 DEF Wired, WireTypes
  <2>2. Sockets'
    <3>1. \A j \in Conns : ~linked[j] => down'[j] = <<>>
      <4>1. \A j \in Conns : j = k => k # 0
        BY DEF Conns
      <4>2. QED
        BY <1>6, <4>1 DEF Wired, Sockets
    <3>2. \A j \in Conns : handler'[j] = "gone" => up[j] = <<>>
      <4>1. \A j \in Conns : j = k => k # 0
        BY DEF Conns
      <4>2. QED
        BY <1>5, <1>6, <4>1 DEF Wired, Sockets
    <3>3. QED
      BY <1>1, <1>6, <3>1, <3>2 DEF Wired, Sockets
  <2>3. OneAtATime'
    <3>1. ASSUME NEW j \in Conns
          PROVE  /\ Len(up[j]) <= 1 /\ Len(down'[j]) <= 1
                 /\ up[j] # <<>> => down'[j] = <<>>
                 /\ handler'[j] = "wait" => up[j] = <<>> /\ down'[j] = <<>>
      <4>1. CASE j = k
        <5>0. k # 0
          BY <4>1 DEF Conns
        <5>1. /\ Len(<<>>) = 0 /\ Len(<<[call |-> r, verdict |-> end[2]]>>) = 1
              /\ \A a : a = 0 \/ a = 1 => a <= 1
          OBVIOUS
        <5>2. Len(down'[j]) = 0 \/ Len(down'[j]) = 1
          BY <1>6, <4>1, <5>0, <5>1, Zenon
        <5>3. Len(down'[j]) <= 1
          BY <5>1, <5>2, Zenon
        <5>4. up[j] = <<>> /\ handler'[j] # "wait"
          BY <1>5, <1>6, <4>1, <5>0
        <5>5. QED
          BY <5>3, <5>4 DEF Wired, OneAtATime
      <4>2. CASE j # k
        BY <1>6, <4>2 DEF Wired, OneAtATime
      <4>3. QED
        BY <4>1, <4>2
    <3>2. QED
      BY <1>6, <3>1 DEF OneAtATime
  <2>4. JobsAwaited'
    <3>1. \A i \in 1..Len(queue) : queue[i].conn # 0 => queue[i].conn \in Conns /\ queue[i].conn # k
      BY <1>2, <1>5, JobSequences DEF Wired, Job, Conns
    <3>2. QED
      BY <1>1, <1>6, <3>1 DEF Wired, JobsAwaited
  <2>5. QED
    BY <2>1, <2>2, <2>3, <2>4 DEF Wired
<1>12. Matched'
  <2>1. ASSUME NEW u \in Callers, at[u] = "read"
        PROVE  sock[ClientOf[u]] # 0 /\ CarriesCallOf(u, sock[ClientOf[u]])'
    <3> DEFINE l == sock[ClientOf[u]]
    <3>1. l # 0 /\ CarriesCallOf(u, l)
      BY <2>1 DEF Matched
    <3>2. l \in Conns
      BY <3>1 DEF BridgeTypeOK, Conns
    <3> HIDE DEF l
    <3>3. down'[l] # <<>> => down'[l][1].call = call[u]
      <4>1. CASE l = k
        <5>1. r = call[u]
          BY <1>1, <3>1, <4>1 DEF CarriesCallOf, r, k
        <5>2. QED
          BY <1>6, <3>1, <4>1, <5>1
      <4>2. CASE l # k
        BY <1>6, <3>1, <3>2, <4>2 DEF CarriesCallOf
      <4>3. QED
        BY <4>1, <4>2
    <3>4. QED
      BY <1>1, <1>6, <3>1, <3>3 DEF CarriesCallOf, l
  <2>2. ASSUME NEW d \in Clients, sock[d] # 0, Busy(sock[d])'
        PROVE  \E u \in Callers : ClientOf[u] = d /\ at[u] = "read"
    <3>1. sock[d] \in Conns
      BY <2>2 DEF BridgeTypeOK, Conns
    <3>2. Busy(sock[d])
      BY <1>1, <1>5, <1>6, <2>2, <3>1 DEF Busy
    <3>3. QED
      BY <2>2, <3>2 DEF Matched
  <2>3. QED
    BY <1>1, <2>1, <2>2 DEF Matched
<1>13. ASSUME NEW q \in Calls
       PROVE  /\ (OnWire(q)' <=> OnWire(q)) /\ (Queued(q)' <=> Queued(q)) /\ ~Worked(q)'
              /\ Pending(q)' => Pending(q)
              /\ q = r /\ q \in mutating => ~Pending(q)'
              /\ ToldRefused(q)' => ToldRefused(q) \/ (q = r /\ end[2] = "refused")
  <2>1. (OnWire(q)' <=> OnWire(q)) /\ (Queued(q)' <=> Queued(q)) /\ ~Worked(q)'
    BY <1>1, <1>6 DEF OnWire, Queued, Worked
  <2>2. ToldRefused(q)' => ToldRefused(q) \/ (q = r /\ end[2] = "refused")
    <3> SUFFICES ASSUME NEW j \in Conns, down'[j] # <<>>,
                        down'[j][1] = [call |-> q, verdict |-> "refused"]
                 PROVE  ToldRefused(q) \/ (q = r /\ end[2] = "refused")
      BY <1>1 DEF ToldRefused
    <3>1. CASE j = k
      <4>1. k # 0
        BY <3>1 DEF Conns
      <4>2. [call |-> r, verdict |-> end[2]] = [call |-> q, verdict |-> "refused"]
        BY <1>6, <3>1, <4>1
      <4>3. QED
        BY <4>2
    <3>2. CASE j # k
      BY <1>6, <3>2 DEF ToldRefused
    <3>3. QED
      BY <3>1, <3>2
  <2>3. QED
    BY <1>9, <2>1, <2>2 DEF Pending
<1>14. OnePlace'
  <2>1. \A q \in mutating : q \in Calls
    BY DEF BridgeTypeOK
  <2>2. QED
    BY <1>1, <1>6, <1>13, <2>1 DEF OnePlace
<1>15. Once'
  <2> SUFFICES ASSUME NEW q \in Calls
               PROVE  /\ q \in mutating /\ Sending(q) => ~Pending(q)'
                      /\ q \in mutating /\ (Sending(q) \/ Pending(q)') => ran'[q] = 0
                      /\ ToldRefused(q)' => q \in mutating /\ ~Sending(q) /\ ~Pending(q)' /\ ran'[q] = 0
                      /\ ran'[q] <= 1 /\ (ran'[q] # 0 => q \in mutating)
    BY <1>1 DEF Once, Sending
  <2>1. CASE q # r
    BY <1>7, <1>13, <2>1 DEF Once
  <2>2. CASE q = r /\ q \in mutating
    BY <1>4, <1>7, <1>9, <1>13, <2>2
  <2>3. CASE q = r /\ q \notin mutating
    <3>1. end[1] = 0 /\ end[2] # "refused" /\ ran'[q] = ran[q]
      BY <1>2, <1>4, <1>7, <2>3 DEF BridgeTypeOK
    <3>2. QED
      BY <1>13, <2>3, <3>1 DEF Once
  <2>4. QED
    BY <2>1, <2>2, <2>3
<1>16. Numbered'
  BY <1>1, <1>13 DEF Numbered
<1>17. QED
  BY <1>10, <1>11, <1>12, <1>14, <1>15, <1>16

-----------------------------------------------------------------------------
(* The whole.                                                              *)

\* An engine calls only while it has the instance lock.
HolderCalls == \A e \in Engines : ~Idle(e) => stage[e] = "held"

\* Every step of lock and bridge keeps each call in its place.
LEMMA CallsKept ==
  ASSUME CallInv, [RuntimeNext]_runtimeVars PROVE CallInv'
<1>1. ASSUME NEW e \in Engines, EngineCalls(e) PROVE CallInv'
  BY <1>1, TakeKeeps DEF EngineCalls, CallersOf
<1>2. ASSUME NEW t \in Callers, Calling(t) PROVE CallInv'
  BY <1>2, SendKeeps, FailKeeps, ReceiveKeeps DEF Calling, Verdicts
<1>3. ASSUME NEW e \in Engines, ClientDies(e) PROVE CallInv'
  BY <1>3, ClientDiesKeeps, RuntimeAssumption
<1>4. CASE ServerStep
  BY <1>4, HandlerReadsKeeps, HandlerGivesUpKeeps, HandlerEndsKeeps, WorkerTakesKeeps,
     WorkerEndsKeeps, BridgeDiesKeeps DEF ServerStep
<1>5. CASE UNCHANGED bridgeVars
  <2> USE <1>5 DEF CallInv, bridgeVars, clientVars, callVars, wireVars, serverVars
  <2>1. BridgeTypeOK' /\ AnswersMatch'
    BY DEF BridgeTypeOK, AnswersMatch
  <2>2. Wired'
    BY DEF Wired, WireTypes, Sockets, OneAtATime, JobsAwaited
  <2>3. Matched'
    BY DEF Matched, CarriesCallOf, Busy
  <2>4. OnePlace' /\ Once' /\ Numbered'
    BY DEF OnePlace, Once, Numbered, Pending, OnWire, Queued, Worked, ToldRefused, Sending
  <2>5. QED
    BY <2>1, <2>2, <2>3, <2>4
<1>6. QED
  BY <1>1, <1>2, <1>3, <1>4, <1>5 DEF RuntimeNext, EngineStep, Acquire, Quits, Killed, Serving, runtimeVars

\* Only the engine that holds the lock calls the bridge.
LEMMA HolderKept ==
  ASSUME BridgeTypeOK, LockTypeOK, HolderCalls, [RuntimeNext]_runtimeVars PROVE HolderCalls'
<1> USE BridgeAssumption DEF HolderCalls, Idle, CallersOf
<1>1. ASSUME NEW e \in Engines, Acquire(e) PROVE HolderCalls'
  <2>1. at' = at
    BY <1>1 DEF Acquire, bridgeVars, clientVars
  <2>2. stage[e] # "held" /\ \A x \in Engines : x # e => stage'[x] = stage[x]
    BY <1>1 DEF Acquire, AcquireStep, Opens, Makes, ChecksPid, Unlinks, Recreates,
       WritesPid, LockTypeOK
  <2>3. QED
    BY <2>1, <2>2
<1>2. ASSUME NEW e \in Engines, EngineCalls(e) PROVE HolderCalls'
  <2>1. PICK t \in CallersOf(e), m \in BOOLEAN : Take(t, m)
    BY <1>2 DEF EngineCalls
  <2>2. stage' = stage /\ stage[e] = "held" /\ at' = [at EXCEPT ![t] = "send"]
    BY <1>2, <2>1, Zenon DEF EngineCalls, lockVars, Take
  <2>3. \A u \in Callers : ClientOf[u] # e => at'[u] = at[u]
    BY <2>1, <2>2 DEF BridgeTypeOK
  <2>4. QED
    BY <2>2, <2>3
<1>3. ASSUME NEW t \in Callers, Calling(t) PROVE HolderCalls'
  <2>1. stage' = stage
    BY <1>3 DEF Calling, lockVars
  <2>2. at[t] # "idle" /\ \A u \in Callers : u # t => at'[u] = at[u]
    BY <1>3 DEF Calling, Request, Fail, Fails, Receive, Returns, BridgeTypeOK
  <2>3. QED
    BY <2>1, <2>2
<1>4. ASSUME NEW e \in Engines, ClientDies(e), Releases(e) \/ Dies(e) PROVE HolderCalls'
  <2>1. \A x \in Engines : x # e => stage'[x] = stage[x]
    BY <1>4 DEF Releases, Dies, Ended, LockTypeOK
  <2>2. \A u \in Callers : IF ClientOf[u] = e THEN at'[u] = "idle" ELSE at'[u] = at[u]
    BY <1>4 DEF ClientDies
  <2>3. QED
    BY <2>1, <2>2
<1>5. CASE UNCHANGED <<at, stage>>
  BY <1>5
<1>6. CASE ServerStep /\ UNCHANGED lockVars
  BY <1>6 DEF ServerStep, HandlerReads, HandlerGivesUp, HandlerEnds, WorkerTakes, WorkerEnds,
     BridgeDies, clientVars, lockVars
<1>7. QED
  BY <1>1, <1>2, <1>3, <1>4, <1>5, <1>6 DEF RuntimeNext, EngineStep, Quits, Killed, Serving, runtimeVars,
     bridgeVars, clientVars, lockVars

\* No call is in progress at the start.
LEMMA CallsInit ==
  ASSUME RuntimeInit PROVE CallInv /\ HolderCalls
<1> USE BridgeAssumption DEF RuntimeInit, BridgeInit
<1>1. BridgeTypeOK
  <2>1. /\ made \in 0..MaxCalls /\ mutating \subseteq Calls /\ refused \subseteq Calls
        /\ deaths \in 0..MaxDeaths
    OBVIOUS
  <2>0. mixed \in BOOLEAN
    BY Zenon
  <2>2. /\ at \in [Callers -> {"idle", "send", "read"}]
        /\ call \in [Callers -> 0..MaxCalls] /\ tries \in [Callers -> 1..2]
        /\ lock \in [Clients -> Callers \cup {"none"}] /\ sock \in [Clients -> 0..MaxConns]
        /\ handler \in [Conns -> {"gone", "read", "wait"}] /\ ran \in [Calls -> Nat]
    <3>1. at \in [Callers -> {"idle", "send", "read"}] /\ call \in [Callers -> 0..MaxCalls]
      OBVIOUS
    <3>2. tries \in [Callers -> 1..2]
      OBVIOUS
    <3>3. lock \in [Clients -> Callers \cup {"none"}]
      BY Zenon
    <3>4. sock \in [Clients -> 0..MaxConns]
      OBVIOUS
    <3>5. handler \in [Conns -> {"gone", "read", "wait"}] /\ ran \in [Calls -> Nat]
      OBVIOUS
    <3>6. QED
      BY <3>1, <3>2, <3>3, <3>4, <3>5
  <2>3. \A t \in Callers : at[t] # "idle" <=> lock[ClientOf[t]] = t
    OBVIOUS
  <2>4. QED
    BY <2>0, <2>1, <2>2, <2>3 DEF BridgeTypeOK
<1>2. <<>> \in Seq(Calls) /\ <<>> \in Seq(Job) /\ <<>> \in Seq(Response) /\ Len(<<>>) = 0 /\ Len(<<>>) <= 1
  OBVIOUS
<1>3. Wired
  BY <1>2 DEF Wired, WireTypes, Sockets, OneAtATime, JobsAwaited
<1>4. \A r \in Calls : ~Pending(r) /\ ~ToldRefused(r) /\ ~Sending(r)
  BY <1>2 DEF Pending, OnWire, Queued, Worked, ToldRefused, Sending
<1>5. Matched /\ OnePlace /\ Once /\ Numbered /\ AnswersMatch /\ HolderCalls
  BY <1>2, <1>4 DEF Matched, OnePlace, Once, Numbered, AnswersMatch, HolderCalls, Idle, CallersOf
<1>6. QED
  BY <1>1, <1>3, <1>5 DEF CallInv

\* What a caller is told of its call is true: the answer is the one to that call,
\* a mutating call took effect at most once, and never when it was refused.
THEOREM CallsAreAnswered == RuntimeSpec => []CallsAnswered
<1> DEFINE Inv == LockTypeOK /\ CallInv /\ HolderCalls
<1>1. RuntimeInit => Inv
  BY LockInitTypes, CallsInit
<1>2. Inv /\ [RuntimeNext]_runtimeVars => Inv'
  BY LockTypes, CallsKept, HolderKept DEF CallInv
<1>3. Inv => CallsAnswered
  <2> SUFFICES ASSUME Inv PROVE CallsAnswered
    OBVIOUS
  <2>1. RuntimeTypeOK /\ AnswersMatch
    BY DEF CallInv, HolderCalls, RuntimeTypeOK
  <2>2. ExecutedAsAnswered
    <3>1. \A r \in Calls : ran[r] <= 1 /\ (r \in refused => ran[r] = 0) /\ ran[r] \in Nat
      BY DEF CallInv, Once, ToldRefused, BridgeTypeOK
    <3>2. QED
      BY <3>1 DEF ExecutedAsAnswered
  <2>3. QED
    BY <2>1, <2>2 DEF CallsAnswered
<1>4. QED
  BY <1>1, <1>2, <1>3, PTL DEF RuntimeSpec
=============================================================================
