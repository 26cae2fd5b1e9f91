-------------------------------- MODULE Bridge --------------------------------
(***************************************************************************)
(* execution/mt5_broker.py and execution/mt5_bridge.py: how a call reaches *)
(* the terminal.                                                           *)
(*                                                                         *)
(* The threads of a client process share one BridgeTransport: a lock, held *)
(* for the whole of a call, and a socket.  In the bridge a handler thread  *)
(* for each connection submits what it reads to the queue of the one       *)
(* worker thread that may touch the terminal, and waits for its job for a  *)
(* while.  Both ends give up after the same time, and neither takes back   *)
(* what it has passed on.                                                  *)
(***************************************************************************)
EXTENDS Integers, Sequences, SequencesExt

CONSTANTS
    Clients,   \* processes, each with a transport
    Callers,   \* their threads that call the broker
    ClientOf,  \* [Callers -> Clients]
    MaxCalls,  \* bound: the calls made
    MaxConns,  \* bound: connections open at a time, at either end
    MaxDeaths  \* bound: deaths of the bridge

Calls == 1..MaxCalls
Conns == 1..MaxConns

ASSUME BridgeAssumption ==
    /\ MaxCalls \in Nat /\ MaxConns \in Nat /\ MaxDeaths \in Nat
    /\ "none" \notin Callers /\ ClientOf \in [Callers -> Clients]

VARIABLES
    made,     \* the calls made so far, which number them
    mutating, \* those that send, modify or close
    at,       \* [Callers -> "idle", "send" or "read"]
    call,     \* [Callers -> its call, or 0]
    tries,    \* [Callers -> 1 or 2]
    lock,     \* [Clients -> the caller that holds the transport's lock]
    sock,     \* [Clients -> its connection, or 0]
    refused,  \* history: calls of which the caller was told: refused
    mixed,    \* history: a caller was given the answer to another call
    up,       \* [Conns -> requests that the handler has not read]
    down,     \* [Conns -> responses that the client has not read]
    linked,   \* [Conns -> has the client its end open?]
    handler,  \* [Conns -> "gone", "read" or "wait"]
    queue,    \* the worker's queue: a call, and the connection that waits
    working,  \* what the worker is at: a sequence of at most one such job
    ran,      \* [Calls -> how often it took effect at the terminal]
    deaths

callVars == <<made, mutating, refused, mixed>>
clientVars == <<callVars, at, call, tries, lock, sock>>
wireVars == <<up, down, linked>>
serverVars == <<handler, queue, working, ran, deaths>>
bridgeVars == <<clientVars, wireVars, serverVars>>

BridgeInit ==
    /\ made = 0 /\ mutating = {} /\ refused = {} /\ mixed = FALSE
    /\ at = [t \in Callers |-> "idle"] /\ call = [t \in Callers |-> 0]
    /\ tries = [t \in Callers |-> 1]
    /\ lock = [c \in Clients |-> "none"] /\ sock = [c \in Clients |-> 0]
    /\ up = [k \in Conns |-> <<>>] /\ down = [k \in Conns |-> <<>>]
    /\ linked = [k \in Conns |-> FALSE] /\ handler = [k \in Conns |-> "gone"]
    /\ queue = <<>> /\ working = <<>> /\ ran = [r \in Calls |-> 0] /\ deaths = 0

-----------------------------------------------------------------------------
(* BridgeTransport.call().                                                 *)

Unlocked(t) == lock[ClientOf[t]] = "none"

\* A thread calls, once it has the lock.
Take(t, mutates) ==
    /\ at[t] = "idle" /\ made < MaxCalls /\ Unlocked(t)
    /\ made' = made + 1
    /\ mutating' = IF mutates THEN mutating \cup {made + 1} ELSE mutating
    /\ at' = [at EXCEPT ![t] = "send"]
    /\ call' = [call EXCEPT ![t] = made + 1]
    /\ lock' = [lock EXCEPT ![ClientOf[t]] = t]
    /\ UNCHANGED <<refused, mixed, tries, sock, wireVars, serverVars>>

Free(k) == handler[k] = "gone" /\ ~linked[k]

\* What is sent to a bridge that is gone is lost.
Sent(t, k) == IF handler'[k] = "gone" THEN <<>> ELSE Append(up[k], call[t])

\* The connection is there, or is made, and takes the request.
Request(t) ==
    LET c == ClientOf[t] IN
    /\ at[t] = "send"
    /\ \E k \in Conns :
          /\ IF sock[c] # 0
             THEN k = sock[c] /\ UNCHANGED <<linked, handler>>
             ELSE /\ Free(k) /\ \A j \in 1..k - 1 : ~Free(j)
                  /\ linked' = [linked EXCEPT ![k] = TRUE]
                  /\ handler' = [handler EXCEPT ![k] = "read"]
          /\ sock' = [sock EXCEPT ![c] = k]
          /\ up' = [up EXCEPT ![k] = Sent(t, k)]
    /\ at' = [at EXCEPT ![t] = "read"]
    /\ UNCHANGED <<callVars, call, tries, lock, down, queue, working, ran, deaths>>

Returns(t) ==
    /\ at' = [at EXCEPT ![t] = "idle"]
    /\ call' = [call EXCEPT ![t] = 0]
    /\ tries' = [tries EXCEPT ![t] = 1]
    /\ lock' = [lock EXCEPT ![ClientOf[t]] = "none"]

\* The caller takes the next response as the answer to its call.
Receive(t, verdict) ==
    LET k == sock[ClientOf[t]] IN
    /\ at[t] = "read" /\ down[k] # <<>>
    /\ verdict = Head(down[k]).verdict
    /\ Returns(t)
    /\ mixed' = (mixed \/ Head(down[k]).call # call[t])
    /\ refused' = IF verdict = "refused" THEN refused \cup {call[t]} ELSE refused
    /\ down' = [down EXCEPT ![k] = Tail(@)]
    /\ UNCHANGED <<made, mutating, sock, up, linked, serverVars>>

\* The transport drops its socket.
Drop(c) ==
    /\ sock' = [sock EXCEPT ![c] = 0]
    /\ linked' = [k \in Conns |-> linked[k] /\ k # sock[c]]
    /\ down' = [k \in Conns |-> IF k = sock[c] THEN <<>> ELSE down[k]]

\* Mutation: every call is tried again.
Retried_Always(t) == tries[t] = 1

\* Only what changes nothing is tried again.
Retried(t) == tries[t] = 1 /\ call[t] \notin mutating

\* Mutation: no timeout; only a connection that is gone is an error.
Fails_Untimed(t) ==
    LET k == sock[ClientOf[t]] IN at[t] = "read" /\ k # 0 /\ handler[k] = "gone"

\* The connection is refused or reset, or nothing came in time.
Fails(t) == at[t] \in {"send", "read"}

\* The outcome of a mutating call is unknown; another is an error.
Fail(t) ==
    /\ Fails(t)
    /\ Drop(ClientOf[t])
    /\ IF Retried(t)
       THEN /\ tries' = [tries EXCEPT ![t] = 2]
            /\ at' = [at EXCEPT ![t] = "send"]
            /\ UNCHANGED <<call, lock>>
       ELSE Returns(t)
    /\ UNCHANGED <<callVars, up, serverVars>>

\* The client process is gone.
ClientDies(c) ==
    LET mine(t) == ClientOf[t] = c IN
    /\ at' = [t \in Callers |-> IF mine(t) THEN "idle" ELSE at[t]]
    /\ call' = [t \in Callers |-> IF mine(t) THEN 0 ELSE call[t]]
    /\ tries' = [t \in Callers |-> IF mine(t) THEN 1 ELSE tries[t]]
    /\ lock' = [lock EXCEPT ![c] = "none"]
    /\ Drop(c)
    /\ UNCHANGED <<callVars, up, serverVars>>

-----------------------------------------------------------------------------
(* _Handler.handle() and Mt5Worker: submit() and run().                    *)

\* What was sent before the client closed its end can still be read.
HandlerReads(k) ==
    /\ handler[k] = "read" /\ up[k] # <<>>
    /\ queue' = Append(queue, [call |-> Head(up[k]), conn |-> k])
    /\ up' = [up EXCEPT ![k] = Tail(@)]
    /\ handler' = [handler EXCEPT ![k] = "wait"]
    /\ UNCHANGED <<clientVars, down, linked, working, ran, deaths>>

HandlerEnds(k) ==
    /\ handler[k] = "read" /\ up[k] = <<>> /\ ~linked[k]
    /\ handler' = [handler EXCEPT ![k] = "gone"]
    /\ UNCHANGED <<clientVars, wireVars, queue, working, ran, deaths>>

\* The handler that waits answers, if the client's end is still open.
Responds(k, r, verdict) ==
    /\ handler' = [handler EXCEPT ![k] = IF linked[k] THEN "read" ELSE "gone"]
    /\ down' = IF linked[k] THEN [down EXCEPT ![k] = Append(@, [call |-> r, verdict |-> verdict])] ELSE down
    /\ up' = IF linked[k] THEN up ELSE [up EXCEPT ![k] = <<>>]

Disowned(jobs, k) ==
    [i \in DOMAIN jobs |-> IF jobs[i].conn = k THEN [jobs[i] EXCEPT !.conn = 0] ELSE jobs[i]]

\* Nobody waits for the job any more, but it stays where it is.
HandlerGivesUp(k) ==
    /\ handler[k] = "wait"
    /\ \E r \in Calls :
          /\ [call |-> r, conn |-> k] \in ToSet(queue \o working)
          /\ Responds(k, r, IF r \in mutating THEN "ambiguous" ELSE "error")
    /\ queue' = Disowned(queue, k) /\ working' = Disowned(working, k)
    /\ UNCHANGED <<clientVars, linked, ran, deaths>>

WorkerTakes ==
    /\ queue # <<>> /\ working = <<>>
    /\ working' = <<Head(queue)>>
    /\ queue' = Tail(queue)
    /\ UNCHANGED <<clientVars, wireVars, handler, ran, deaths>>

\* What a call comes to: its effect, and the verdict.  A handler that raises
\* may have done so after the terminal acted.
Ends(r) ==
    IF r \notin mutating THEN {<<0, "ok">>, <<0, "error">>}
    ELSE {<<1, "ok">>, <<0, "refused">>, <<0, "ambiguous">>, <<1, "ambiguous">>}

WorkerEnds ==
    /\ working # <<>>
    /\ \E end \in Ends(working[1].call) :
          /\ ran' = [ran EXCEPT ![working[1].call] = @ + end[1]]
          /\ IF working[1].conn = 0 THEN UNCHANGED <<handler, down, up>>
             ELSE Responds(working[1].conn, working[1].call, end[2])
    /\ working' = <<>>
    /\ UNCHANGED <<clientVars, linked, queue, deaths>>

\* The bridge process dies, and is started again.
BridgeDies ==
    /\ deaths < MaxDeaths
    /\ deaths' = deaths + 1
    /\ queue' = <<>> /\ working' = <<>>
    /\ ran' \in {ran} \cup {[ran EXCEPT ![r] = @ + 1] : r \in mutating \cap {w.call : w \in ToSet(working)}}
    /\ handler' = [k \in Conns |-> "gone"]
    /\ up' = [k \in Conns |-> <<>>]
    /\ UNCHANGED <<clientVars, down, linked>>

ServerStep ==
    \/ \E k \in Conns : HandlerReads(k) \/ HandlerGivesUp(k) \/ HandlerEnds(k)
    \/ WorkerTakes \/ WorkerEnds \/ BridgeDies

-----------------------------------------------------------------------------
(* Properties                                                              *)

BridgeTypeOK ==
    /\ made \in 0..MaxCalls /\ mutating \subseteq Calls /\ refused \subseteq Calls
    /\ at \in [Callers -> {"idle", "send", "read"}]
    /\ call \in [Callers -> 0..MaxCalls] /\ tries \in [Callers -> 1..2]
    /\ lock \in [Clients -> Callers \cup {"none"}] /\ sock \in [Clients -> 0..MaxConns]
    /\ handler \in [Conns -> {"gone", "read", "wait"}]
    /\ ran \in [Calls -> Nat] /\ deaths \in 0..MaxDeaths /\ mixed \in BOOLEAN
    /\ \A t \in Callers : at[t] # "idle" <=> lock[ClientOf[t]] = t

\* Response ids are not compared with request ids: what a call returns is
\* nevertheless the answer to that call, also after answers that came late.
AnswersMatch == ~mixed

\* A send, a modification or a close takes effect at most once, and not at
\* all, then or later, when its caller was told that it was refused.
ExecutedAsAnswered == \A r \in Calls : ran[r] <= (IF r \in refused THEN 0 ELSE 1)
=============================================================================
