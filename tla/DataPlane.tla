----------------------------- MODULE DataPlane -----------------------------
(***************************************************************************)
(* The data plane of a replication group: the primary of an RPC service    *)
(* serves invocations, one thread per client connection.  A thread changes *)
(* the service's state under its lock and then, without it, sends the new  *)
(* state to every replica and waits for their answers before it answers    *)
(* the client (RPCTestObject::handleTwoWayInvocation,                      *)
(* FTDataChannelManager::replicate).  A replica overwrites its state with  *)
(* what it receives (onReplication).                                       *)
(*                                                                         *)
(* Each data channel has a reader thread at the primary.  close deletes    *)
(* the channel's request engine, which cancels the waiting requests, and   *)
(* sets m_close only later: whoever uses the engine in between dereferences *)
(* a null pointer.                                                         *)
(***************************************************************************)
EXTENDS Integers, Sequences, FiniteSets

CONSTANTS
    Workers,     \* the threads of the client connections
    Replicas,    \* the replicas of the group, the primary excepted
    MaxCalls     \* bound: invocations made

ASSUME DataAssumption == IsFiniteSet(Workers) /\ MaxCalls \in Nat

VARIABLES
    m_sum,       \* the service's state at the primary
    copy,        \* copy[r]: the service's state at a replica
    seen,        \* seen[r]: the states r has had
    up,          \* the replicas that run
    crashed,     \* the primary's process is gone
    members,     \* m_map of FTDataChannelManager
    chan,        \* chan[r]: "open", "cleared" (no engine), "closed" (m_close)
    requests,    \* requests[r]: packets on their way to r, <<thread, state>>
    replies,     \* replies[r]: answers on their way back, threads
    worker,      \* where a thread is
    ret,         \* the state a thread has to replicate
    todo,        \* the members a thread has not sent to yet
    future,      \* future[w][r]: the request of w to r
    answered,    \* the <<state, members>> of the invocations answered
    calls,       \* invocations made
    overlap      \* history: two invocations have been in progress at once

svcVars  == <<m_sum, copy, seen, up>>
chanVars == <<members, chan>>
netVars  == <<requests, replies>>
workVars == <<worker, ret, todo, answered, calls, overlap>>
vars == <<svcVars, crashed, chanVars, netVars, workVars, future>>

-----------------------------------------------------------------------------
NoRequests == [r \in Replicas |-> "none"]

Init ==
    /\ m_sum = 0
    /\ copy = [r \in Replicas |-> 0]
    /\ seen = [r \in Replicas |-> {0}]
    /\ up = Replicas
    /\ crashed = FALSE
    /\ members = Replicas
    /\ chan = [r \in Replicas |-> "open"]
    /\ requests = [r \in Replicas |-> <<>>]
    /\ replies = [r \in Replicas |-> <<>>]
    /\ worker = [w \in Workers |-> "idle"]
    /\ ret = [w \in Workers |-> 0]
    /\ todo = [w \in Workers |-> {}]
    /\ future = [w \in Workers |-> NoRequests]
    /\ answered = {}
    /\ calls = 0
    /\ overlap = FALSE

\* Use of the deleted engine.
Crash ==
    /\ crashed' = TRUE
    /\ UNCHANGED <<svcVars, chanVars, netVars, workVars, future>>

-----------------------------------------------------------------------------
\* A client's thread.

\* An invocation: sum, under the service's lock.
Sum(w) ==
    /\ worker[w] = "idle"
    /\ calls < MaxCalls
    /\ calls' = calls + 1
    /\ overlap' = (overlap \/ \E v \in Workers : worker[v] # "idle")
    /\ m_sum' = m_sum + 1
    /\ ret' = [ret EXCEPT ![w] = m_sum + 1]
    /\ worker' = [worker EXCEPT ![w] = "replicate"]
    /\ UNCHANGED <<copy, seen, up, crashed, chanVars, netVars, todo, future, answered>>

\* replicate: getMemberList under the manager's lock.
Replicate(w) ==
    /\ worker[w] = "replicate"
    /\ todo' = [todo EXCEPT ![w] = members]
    /\ future' = [future EXCEPT ![w] = NoRequests]
    /\ worker' = [worker EXCEPT ![w] = "send"]
    /\ UNCHANGED <<svcVars, crashed, chanVars, netVars, ret, answered, calls, overlap>>

Sent(w, r) == todo' = [todo EXCEPT ![w] = @ \ {r}]

\* sendRequest.  The socket may well accept a packet for a dead replica.
SendRequest(w, r) ==
    /\ worker[w] = "send" /\ r \in todo[w]
    /\ chan[r] = "open"
    /\ future' = [future EXCEPT ![w][r] = "waiting"]
    /\ requests' = [requests EXCEPT ![r] = Append(@, <<w, ret[w]>>)]
    /\ Sent(w, r)
    /\ UNCHANGED <<svcVars, crashed, chanVars, replies, worker, ret, answered, calls, overlap>>

SendOnClosed(w, r) ==
    /\ worker[w] = "send" /\ r \in todo[w]
    /\ chan[r] = "closed"
    /\ Sent(w, r)
    /\ UNCHANGED <<svcVars, crashed, chanVars, netVars, worker, ret, future, answered, calls, overlap>>

SendOnCleared(w, r) ==
    /\ worker[w] = "send" /\ r \in todo[w]
    /\ chan[r] = "cleared"
    /\ Crash

\* delete m_requests: clearAll cancels the requests that wait.
\* Mutant: it does not.
CancelNone(r) == future
CancelAll(r) ==
    [w \in Workers |->
        IF future[w][r] = "waiting" THEN [future[w] EXCEPT ![r] = "cancel"] ELSE future[w]]

\* The send fails: close, under the channel's lock, the request is dropped.
SendFails(w, r) ==
    /\ worker[w] = "send" /\ r \in todo[w]
    /\ chan[r] = "open" /\ r \notin up
    /\ future' = CancelAll(r)
    /\ chan' = [chan EXCEPT ![r] = "cleared"]
    /\ Sent(w, r)
    /\ UNCHANGED <<svcVars, crashed, members, netVars, worker, ret, answered, calls, overlap>>

\* All requests are out.
AllSent(w) ==
    /\ worker[w] = "send" /\ todo[w] = {}
    /\ worker' = [worker EXCEPT ![w] = "wait"]
    /\ UNCHANGED <<svcVars, crashed, chanVars, netVars, ret, todo, future, answered, calls, overlap>>

\* waitFuture(0) has returned for every request.  Mutant: nobody waits.
IsOverAlways(w) == TRUE
IsOver(w) == \A r \in Replicas : future[w][r] # "waiting"

Answer(w) ==
    /\ worker[w] = "wait"
    /\ IsOver(w)
    /\ worker' = [worker EXCEPT ![w] = "idle"]
    /\ answered' = answered \cup {<<ret[w], {r \in Replicas : future[w][r] # "none"}>>}
    /\ future' = [future EXCEPT ![w] = NoRequests]
    /\ UNCHANGED <<svcVars, crashed, chanVars, netVars, ret, todo, calls, overlap>>

-----------------------------------------------------------------------------
\* The reader of a data channel.

\* handlePacket of the client handler: setReply.
HandleReply(r) ==
    /\ chan[r] = "open"
    /\ replies[r] # <<>>
    /\ replies' = [replies EXCEPT ![r] = Tail(@)]
    /\ future' = [future EXCEPT ![Head(replies[r])][r] = "success"]
    /\ UNCHANGED <<svcVars, crashed, chanVars, requests, workVars>>

HandleReplyOnCleared(r) ==
    /\ chan[r] = "cleared"
    /\ replies[r] # <<>>
    /\ Crash

\* The end of the stream: close.
HandleClose(r) ==
    /\ chan[r] = "open"
    /\ r \notin up /\ replies[r] = <<>>
    /\ future' = CancelAll(r)
    /\ chan' = [chan EXCEPT ![r] = "cleared"]
    /\ UNCHANGED <<svcVars, crashed, members, netVars, workVars>>

\* The rest of close, by whoever has cleared: m_close, the socket, and the
\* manager's remove; its fireOnClose does nothing.
FinishClose(r) ==
    /\ chan[r] = "cleared"
    /\ chan' = [chan EXCEPT ![r] = "closed"]
    /\ members' = members \ {r}
    /\ UNCHANGED <<svcVars, crashed, netVars, workVars, future>>

-----------------------------------------------------------------------------
\* A replica.

\* handlePacket of the service handler: handleReplicationPacket, onReplication
\* and the answer.  Mutant: the state is not taken over.
OnReplicationNothing(r, s) == copy
OnReplication(r, s) == [copy EXCEPT ![r] = s]

HandlePacket(r) ==
    /\ r \in up
    /\ requests[r] # <<>>
    /\ copy' = OnReplication(r, Head(requests[r])[2])
    /\ seen' = [seen EXCEPT ![r] = @ \cup {copy'[r]}]
    /\ requests' = [requests EXCEPT ![r] = Tail(@)]
    /\ replies' = [replies EXCEPT ![r] = Append(@, Head(requests[r])[1])]
    /\ UNCHANGED <<m_sum, up, crashed, chanVars, workVars, future>>

ReplicaCrash(r) ==
    /\ r \in up
    /\ up' = up \ {r}
    /\ UNCHANGED <<m_sum, copy, seen, crashed, chanVars, netVars, workVars, future>>

-----------------------------------------------------------------------------
WorkerStep(w) ==
    \/ Sum(w) \/ Replicate(w) \/ AllSent(w) \/ Answer(w)
    \/ \E r \in Replicas :
        SendRequest(w, r) \/ SendOnClosed(w, r) \/ SendOnCleared(w, r) \/ SendFails(w, r)

ReaderStep(r) ==
    HandleReply(r) \/ HandleReplyOnCleared(r) \/ HandleClose(r) \/ FinishClose(r)

Next ==
    \/ ~crashed /\ \E w \in Workers : WorkerStep(w)
    \/ ~crashed /\ \E r \in Replicas : ReaderStep(r)
    \/ \E r \in Replicas : HandlePacket(r) \/ ReplicaCrash(r)

Spec == Init /\ [][Next]_vars

\* Threads and replicas run: while some can take a step, one does.  Clients
\* need not call and replicas need not crash.
Fairness ==
    WF_vars(\/ ~crashed /\ \E w \in Workers : worker[w] # "idle" /\ WorkerStep(w)
            \/ ~crashed /\ \E r \in Replicas : ReaderStep(r)
            \/ \E r \in Replicas : HandlePacket(r))

FairSpec == Spec /\ Fairness

-----------------------------------------------------------------------------
(***************************************************************************)
(* Type invariant of the primary, the replicas and the channels.           *)
(***************************************************************************)
TypeOK ==
    /\ m_sum \in 0..MaxCalls
    /\ copy \in [Replicas -> 0..MaxCalls]
    /\ seen \in [Replicas -> SUBSET (0..MaxCalls)]
    /\ up \subseteq Replicas
    /\ crashed \in BOOLEAN
    /\ members \subseteq Replicas
    /\ chan \in [Replicas -> {"open", "cleared", "closed"}]
    /\ requests \in [Replicas -> Seq(Workers \X (0..MaxCalls))]
    /\ replies \in [Replicas -> Seq(Workers)]
    /\ \A r \in Replicas : Len(requests[r]) + Len(replies[r]) <= MaxCalls
    /\ worker \in [Workers -> {"idle", "replicate", "send", "wait"}]
    /\ ret \in [Workers -> 0..MaxCalls]
    /\ todo \in [Workers -> SUBSET Replicas]
    /\ future \in [Workers -> [Replicas -> {"none", "waiting", "success", "cancel"}]]
    /\ answered \subseteq (0..MaxCalls) \X SUBSET Replicas
    /\ calls = m_sum
    /\ overlap \in BOOLEAN

(***************************************************************************)
(* A thread that waits for an answer has a packet or an answer under way   *)
(* on a channel that is open: no wait is left behind by a close.           *)
(***************************************************************************)
UnderWay(w, r) ==
    \/ \E i \in DOMAIN requests[r] : requests[r][i][1] = w
    \/ \E i \in DOMAIN replies[r] : replies[r][i] = w
WaitsForSomething ==
    \A w \in Workers, r \in Replicas :
        future[w][r] = "waiting" => chan[r] = "open" /\ UnderWay(w, r)

(***************************************************************************)
(* An answer to a client survives the primary: every replica it was sent   *)
(* to has taken it over by then, unless the channel to it was closed; and  *)
(* no thread that is to answer waits for nothing.                          *)
(***************************************************************************)
AnsweredIsReplicated ==
    /\ TypeOK /\ WaitsForSomething
    /\ \A a \in answered : \A r \in a[2] : chan[r] = "open" => a[1] \in seen[r]

(***************************************************************************)
(* As long as clients have called one at a time the replicas have the      *)
(* primary's state when no invocation is in progress, and are at most one  *)
(* invocation behind while one is.  (Two threads that have called at once  *)
(* may send their states in either order, and the older one stays.)        *)
(***************************************************************************)
InSync ==
    \A r \in Replicas :
        ~overlap /\ chan[r] = "open" /\ r \in up =>
            /\ copy[r] \in {m_sum - 1, m_sum}
            /\ (\A w \in Workers : worker[w] = "idle") => copy[r] = m_sum

(***************************************************************************)
(* Every invocation is answered, even if replicas crash, unless the        *)
(* primary does.                                                           *)
(***************************************************************************)
InvocationsReturn ==
    \A w \in Workers : (worker[w] # "idle") ~> (worker[w] = "idle" \/ crashed)
=============================================================================
