--------------------------- MODULE DataPlane_proof ---------------------------
(***************************************************************************)
(* Proofs about DataPlane, for any finite set of client threads, any set   *)
(* of replicas and any number of invocations.                              *)
(***************************************************************************)
EXTENDS DataPlane, FiniteSetTheorems, TLAPS

-----------------------------------------------------------------------------
(* The inductive invariant                                                 *)

\* The threads that may still send to r for the invocation they are in.
Coming(r) == {w \in Workers : \/ worker[w] = "replicate"
                              \/ worker[w] = "send" /\ r \in todo[w]}

\* Every packet is of an invocation of its own.
CountInv ==
    \A r \in Replicas :
        Len(requests[r]) + Len(replies[r]) + Cardinality(Coming(r)) <= calls

\* A channel that is open carries one packet or one answer of each thread
\* that waits, and nothing else: a packet has the thread's state, an answer
\* means that the replica has had it.
Carries(r) ==
    /\ \A i \in 1..Len(requests[r]) :
          /\ future[requests[r][i][1]][r] = "waiting"
          /\ requests[r][i][2] = ret[requests[r][i][1]]
    /\ \A i \in 1..Len(replies[r]) :
          /\ future[replies[r][i]][r] = "waiting"
          /\ ret[replies[r][i]] \in seen[r]
    /\ \A i, j \in 1..Len(requests[r]) : requests[r][i][1] = requests[r][j][1] => i = j
    /\ \A i, j \in 1..Len(replies[r]) : replies[r][i] = replies[r][j] => i = j
    /\ \A i \in 1..Len(requests[r]), j \in 1..Len(replies[r]) :
          requests[r][i][1] # replies[r][j]

LineInv == \A r \in Replicas : chan[r] = "open" => Carries(r)

\* The requests of a thread: none before it sends, cancelled only by a close,
\* successful only when the replica has had the state.
FutureInv ==
    \A w \in Workers, r \in Replicas :
        /\ worker[w] \in {"idle", "replicate"} => future[w][r] = "none"
        /\ worker[w] = "send" /\ r \in todo[w] => future[w][r] = "none"
        /\ future[w][r] = "cancel" => chan[r] # "open"
        /\ future[w][r] = "success" => ret[w] \in seen[r]

\* Nobody whose channel is open is left out of an invocation.
SentInv ==
    /\ \A r \in Replicas : chan[r] = "open" => r \in members
    /\ \A w \in Workers, r \in Replicas :
          /\ chan[r] = "open"
          /\ worker[w] = "wait" \/ (worker[w] = "send" /\ r \notin todo[w])
          => future[w][r] # "none"

\* Without an overlap one thread is at work, and what it has to replicate is
\* the primary's state.
AloneInv ==
    ~overlap =>
        /\ \A v, w \in Workers : worker[v] # "idle" /\ worker[w] # "idle" => v = w
        /\ \A w \in Workers : worker[w] # "idle" => ret[w] = m_sum

\* A replica that has answered has the primary's state.
SyncInv ==
    \A r \in Replicas :
        ~overlap /\ chan[r] = "open" =>
            /\ copy[r] \in {m_sum - 1, m_sum}
            /\ (\A w \in Workers : worker[w] = "idle") => copy[r] = m_sum
            /\ \A w \in Workers : future[w][r] = "success" => copy[r] = m_sum
            /\ replies[r] # <<>> => copy[r] = m_sum

AnsweredInv == \A a \in answered : \A r \in a[2] : chan[r] = "open" => a[1] \in seen[r]

IInv ==
    /\ TypeOK /\ CountInv /\ LineInv /\ WaitsForSomething
    /\ FutureInv /\ SentInv /\ AloneInv /\ SyncInv /\ AnsweredInv

-----------------------------------------------------------------------------
(* Counting                                                                *)

\* A set of threads is finite.
LEMMA ThreadsFinite ==
    ASSUME NEW S \in SUBSET Workers
    PROVE  IsFiniteSet(S) /\ Cardinality(S) \in Nat
  BY DataAssumption, FS_Subset, FS_CardinalityType

\* Fewer threads count no more, one more counts one more, one less one less.
LEMMA ThreadsFewer ==
    ASSUME NEW S \in SUBSET Workers, NEW T \in SUBSET S
    PROVE  Cardinality(T) <= Cardinality(S)
  BY ThreadsFinite, FS_Subset

LEMMA ThreadMore ==
    ASSUME NEW S \in SUBSET Workers, NEW w \in Workers \ S
    PROVE  Cardinality(S \cup {w}) = Cardinality(S) + 1
  BY ThreadsFinite, FS_AddElement

LEMMA ThreadLess ==
    ASSUME NEW S \in SUBSET Workers, NEW w \in S
    PROVE  Cardinality(S \ {w}) = Cardinality(S) - 1 /\ Cardinality(S) >= 1
  <1>1. Cardinality(S) \in Nat /\ Cardinality(S \ {w}) \in Nat
    BY ThreadsFinite
  <1>2. Cardinality(S \ {w}) = Cardinality(S) - 1
    BY ThreadsFinite, FS_RemoveElement
  <1> QED
    BY <1>1, <1>2

\* Sums of packets, answers and threads.
LEMMA Sums ==
    ASSUME NEW a \in Nat, NEW b \in Nat, NEW m \in Nat, NEW k \in Nat,
           a + b + m <= k
    PROVE  /\ a + b + (m + 1) <= k + 1
           /\ m >= 1 => (a + 1) + b <= k /\ (a + 1) + b + (m - 1) <= k
           /\ b >= 1 => a + (b - 1) + m <= k
           /\ a >= 1 => (a - 1) + (b + 1) <= k /\ (a - 1) + (b + 1) + m <= k
  OBVIOUS

-----------------------------------------------------------------------------
(* Lists of packets                                                        *)

\* What Append and Tail do, index by index.
LEMMA AppendFacts ==
    ASSUME NEW S, NEW s \in Seq(S), NEW e \in S
    PROVE  /\ Append(s, e) \in Seq(S) /\ Len(s) \in Nat
           /\ Len(Append(s, e)) = Len(s) + 1
           /\ Append(s, e)[Len(s) + 1] = e
           /\ \A i \in 1..Len(s) : Append(s, e)[i] = s[i]
  OBVIOUS

LEMMA TailFacts ==
    ASSUME NEW S, NEW s \in Seq(S), s # <<>>
    PROVE  /\ Tail(s) \in Seq(S) /\ Len(s) \in Nat /\ Len(s) >= 1
           /\ Head(s) = s[1] /\ Head(s) \in S
           /\ Len(Tail(s)) = Len(s) - 1
           /\ \A i \in 1..Len(s) - 1 : Tail(s)[i] = s[i + 1]
  OBVIOUS

\* The types of what the channels carry.
LEMMA LineTypes ==
    ASSUME TypeOK, NEW r \in Replicas
    PROVE  /\ requests[r] \in Seq(Workers \X (0..MaxCalls)) /\ replies[r] \in Seq(Workers)
           /\ Len(requests[r]) \in Nat /\ Len(replies[r]) \in Nat
           /\ DOMAIN requests[r] = 1..Len(requests[r])
           /\ DOMAIN replies[r] = 1..Len(replies[r])
           /\ \A i \in 1..Len(requests[r]) :
                 requests[r][i][1] \in Workers /\ requests[r][i][2] \in 0..MaxCalls
           /\ \A i \in 1..Len(replies[r]) : replies[r][i] \in Workers
  <1>1. requests[r] \in Seq(Workers \X (0..MaxCalls)) /\ replies[r] \in Seq(Workers)
    BY DEF TypeOK
  <1>2. \A i \in 1..Len(requests[r]) : requests[r][i] \in Workers \X (0..MaxCalls)
    BY <1>1
  <1> QED
    BY <1>1, <1>2

-----------------------------------------------------------------------------
(* What a step that sends and receives nothing keeps                       *)

\* No packet more, and nobody more who may send one.
LEMMA CountKept ==
    ASSUME TypeOK, CountInv, TypeOK', calls' = calls,
           \A r \in Replicas : Coming(r)' \subseteq Coming(r),
           \A r \in Replicas :
              Len(requests'[r]) + Len(replies'[r]) <= Len(requests[r]) + Len(replies[r])
    PROVE  CountInv'
  <1> SUFFICES ASSUME NEW r \in Replicas
               PROVE  Len(requests'[r]) + Len(replies'[r]) + Cardinality(Coming(r)') <= calls'
    BY DEF CountInv
  <1>1. Coming(r) \in SUBSET Workers /\ Coming(r)' \in SUBSET Coming(r)
    BY DEF Coming
  <1>2. /\ Cardinality(Coming(r)') <= Cardinality(Coming(r))
        /\ Cardinality(Coming(r)) \in Nat /\ Cardinality(Coming(r)') \in Nat
    BY <1>1, ThreadsFewer, ThreadsFinite
  <1>3. /\ Len(requests[r]) \in Nat /\ Len(replies[r]) \in Nat
        /\ Len(requests'[r]) \in Nat /\ Len(replies'[r]) \in Nat /\ calls \in Nat
    BY DataAssumption DEF TypeOK
  <1>4. Len(requests[r]) + Len(replies[r]) + Cardinality(Coming(r)) <= calls
    BY DEF CountInv
  <1>5. Len(requests'[r]) + Len(replies'[r]) <= Len(requests[r]) + Len(replies[r])
    OBVIOUS
  <1>6. \A a, b, c, d, m, n, k \in Nat :
           a + b + m <= k /\ n <= m /\ c + d <= a + b => c + d + n <= k
    OBVIOUS
  <1>7. calls' = calls
    OBVIOUS
  <1> QED
    BY ONLY <1>2, <1>3, <1>4, <1>5, <1>6, <1>7

\* The packets under way stay those of the threads that wait.
LEMMA CarriesKept ==
    ASSUME TypeOK, NEW r \in Replicas, Carries(r),
           requests'[r] = requests[r], replies'[r] = replies[r], seen'[r] = seen[r],
           \A w \in Workers : future[w][r] = "waiting" =>
              future'[w][r] = "waiting" /\ ret'[w] = ret[w]
    PROVE  Carries(r)'
  <1>1. /\ Carries(r)
        /\ requests'[r] = requests[r] /\ replies'[r] = replies[r] /\ seen'[r] = seen[r]
    OBVIOUS
  <1>2. \A i \in 1..Len(requests[r]) : requests[r][i][1] \in Workers
    BY LineTypes
  <1>3. \A i \in 1..Len(replies[r]) : replies[r][i] \in Workers
    BY LineTypes
  <1>4. \A w \in Workers : future[w][r] = "waiting" =>
           future'[w][r] = "waiting" /\ ret'[w] = ret[w]
    OBVIOUS
  <1>5. \A i \in 1..Len(requests'[r]) :
           /\ future'[requests'[r][i][1]][r] = "waiting"
           /\ requests'[r][i][2] = ret'[requests'[r][i][1]]
    BY ONLY <1>1, <1>2, <1>4 DEF Carries
  <1>6. \A i \in 1..Len(replies'[r]) :
           /\ future'[replies'[r][i]][r] = "waiting"
           /\ ret'[replies'[r][i]] \in seen'[r]
    BY ONLY <1>1, <1>3, <1>4 DEF Carries
  <1> QED
    BY ONLY <1>1, <1>5, <1>6 DEF Carries

LEMMA LineKept ==
    ASSUME TypeOK, LineInv, UNCHANGED netVars,
           \A r \in Replicas : chan'[r] = "open" =>
              /\ chan[r] = "open" /\ seen'[r] = seen[r]
              /\ \A w \in Workers : future[w][r] = "waiting" =>
                    future'[w][r] = "waiting" /\ ret'[w] = ret[w]
    PROVE  LineInv'
  <1> SUFFICES ASSUME NEW r \in Replicas, chan'[r] = "open"
               PROVE  Carries(r)'
    BY DEF LineInv
  <1>1. Carries(r) /\ requests' = requests /\ replies' = replies /\ seen'[r] = seen[r]
    BY DEF LineInv, netVars
  <1> QED
    BY <1>1, CarriesKept

LEMMA WaitsKept ==
    ASSUME WaitsForSomething, UNCHANGED netVars,
           \A w \in Workers, r \in Replicas :
              future'[w][r] = "waiting" => future[w][r] = "waiting" /\ chan'[r] = chan[r]
    PROVE  WaitsForSomething'
  <1>1. \A w, r : UnderWay(w, r)' <=> UnderWay(w, r)
    BY DEF UnderWay, netVars
  <1> QED
    BY <1>1 DEF WaitsForSomething

-----------------------------------------------------------------------------
(* One lemma for each step                                                 *)

\* An invocation starts: no packet of its thread is on its way.
LEMMA SumInv ==
    ASSUME IInv, NEW w \in Workers, Sum(w)
    PROVE  IInv'
  <1> USE DataAssumption DEF svcVars, chanVars, netVars, workVars, NoRequests
  <1>1. TypeOK'
    BY DEF IInv, TypeOK, Sum
  <1>2. CountInv'
    <2> SUFFICES ASSUME NEW r1 \in Replicas
                 PROVE  Len(requests'[r1]) + Len(replies'[r1]) + Cardinality(Coming(r1)')
                           <= calls'
      BY DEF CountInv
    <2>1. Coming(r1) \in SUBSET Workers /\ w \notin Coming(r1)
      BY DEF Coming, Sum
    <2>2. Coming(r1)' = Coming(r1) \cup {w}
      BY DEF IInv, TypeOK, Sum, Coming
    <2>3. Cardinality(Coming(r1)') = Cardinality(Coming(r1)) + 1 /\ Cardinality(Coming(r1)) \in Nat
      BY <2>1, <2>2, ThreadMore, ThreadsFinite
    <2>4. /\ Len(requests[r1]) \in Nat /\ Len(replies[r1]) \in Nat /\ calls \in Nat
          /\ Len(requests[r1]) + Len(replies[r1]) + Cardinality(Coming(r1)) <= calls
      BY LineTypes DEF IInv, TypeOK, CountInv
    <2>5. requests' = requests /\ replies' = replies /\ calls' = calls + 1
      BY DEF Sum
    <2> QED
      BY ONLY <2>3, <2>4, <2>5, Sums
  <1>3. LineInv'
    BY LineKept DEF IInv, TypeOK, Sum, FutureInv
  <1>4. WaitsForSomething'
    BY WaitsKept DEF IInv, TypeOK, Sum, WaitsForSomething
  <1>5. FutureInv'
    BY DEF IInv, TypeOK, Sum, FutureInv
  <1>6. SentInv'
    BY DEF IInv, TypeOK, Sum, SentInv
  <1>7. AloneInv'
    BY DEF IInv, TypeOK, Sum, AloneInv
  <1>8. SyncInv'
    <2> SUFFICES ASSUME NEW r1 \in Replicas, ~overlap', chan'[r1] = "open"
                 PROVE  /\ copy'[r1] \in {m_sum' - 1, m_sum'}
                        /\ (\A v \in Workers : worker'[v] = "idle") => copy'[r1] = m_sum'
                        /\ \A v \in Workers : future'[v][r1] = "success" => copy'[r1] = m_sum'
                        /\ replies'[r1] # <<>> => copy'[r1] = m_sum'
      BY DEF SyncInv
    <2>1. ~overlap /\ \A v \in Workers : worker[v] = "idle"
      BY DEF Sum
    <2>2. \A v \in Workers : future[v][r1] = "none"
      BY <2>1 DEF IInv, FutureInv
    <2>3. replies[r1] = <<>>
      <3>1. chan[r1] = "open" /\ Carries(r1)
        BY DEF Sum, IInv, LineInv
      <3>2. replies[r1] \in Seq(Workers) /\ \A i \in 1..Len(replies[r1]) : replies[r1][i] \in Workers
        BY LineTypes DEF IInv
      <3> QED
        BY <3>1, <3>2, <2>2 DEF Carries
    <2>4. copy[r1] = m_sum
      BY <2>1 DEF IInv, SyncInv, Sum
    <2>5. worker'[w] # "idle" /\ copy' = copy /\ m_sum' = m_sum + 1 /\ m_sum \in Nat
      BY DEF Sum, IInv, TypeOK
    <2>6. replies' = replies /\ future' = future
      BY DEF Sum
    <2> QED
      BY ONLY <2>2, <2>3, <2>4, <2>5, <2>6, w \in Workers
  <1>9. AnsweredInv'
    BY DEF IInv, TypeOK, Sum, AnsweredInv
  <1> QED
    BY <1>1, <1>2, <1>3, <1>4, <1>5, <1>6, <1>7, <1>8, <1>9 DEF IInv

\* The members are taken, all of them those whose channel is open.
LEMMA ReplicateInv ==
    ASSUME IInv, NEW w \in Workers, Replicate(w)
    PROVE  IInv'
  <1> USE DataAssumption DEF svcVars, chanVars, netVars, workVars, NoRequests
  <1>1. TypeOK'
    BY DEF IInv, TypeOK, Replicate
  <1>2. CountInv'
    <2>1. \A r1 \in Replicas : Coming(r1)' \subseteq Coming(r1)
      BY DEF IInv, TypeOK, Replicate, Coming
    <2>2. calls' = calls /\ requests' = requests /\ replies' = replies
      BY DEF Replicate
    <2>3. \A r1 \in Replicas : Len(requests[r1]) \in Nat /\ Len(replies[r1]) \in Nat
      BY LineTypes DEF IInv
    <2> QED
      BY <1>1, <2>1, <2>2, <2>3, CountKept DEF IInv
  <1>3. LineInv'
    BY LineKept DEF IInv, TypeOK, Replicate, FutureInv
  <1>4. WaitsForSomething'
    BY WaitsKept DEF IInv, TypeOK, Replicate, WaitsForSomething
  <1>5. FutureInv'
    BY DEF IInv, TypeOK, Replicate, FutureInv
  <1>6. SentInv'
    BY DEF IInv, TypeOK, Replicate, SentInv
  <1>7. AloneInv'
    BY DEF IInv, TypeOK, Replicate, AloneInv
  <1>8. SyncInv'
    BY DEF IInv, TypeOK, Replicate, SyncInv
  <1>9. AnsweredInv'
    BY DEF IInv, TypeOK, Replicate, AnsweredInv
  <1> QED
    BY <1>1, <1>2, <1>3, <1>4, <1>5, <1>6, <1>7, <1>8, <1>9 DEF IInv

\* A packet is sent: its thread had none on this channel.
LEMMA SendRequestInv ==
    ASSUME IInv, NEW w \in Workers, NEW r \in Replicas, SendRequest(w, r)
    PROVE  IInv'
  <1> USE DataAssumption DEF svcVars, chanVars, netVars, workVars, NoRequests
  <1>1. TypeOK'
    <2>1. /\ requests[r] \in Seq(Workers \X (0..MaxCalls)) /\ replies[r] \in Seq(Workers)
          /\ <<w, ret[w]>> \in Workers \X (0..MaxCalls)
      BY DEF IInv, TypeOK
    <2>2. requests' \in [Replicas -> Seq(Workers \X (0..MaxCalls))]
      BY <2>1, AppendFacts DEF IInv, TypeOK, SendRequest
    <2>3. ASSUME NEW r1 \in Replicas
          PROVE  Len(requests'[r1]) + Len(replies'[r1]) <= MaxCalls
      <3>1. CASE r1 # r
        BY <3>1 DEF IInv, TypeOK, SendRequest
      <3>2. CASE r1 = r
        <4>1. Len(requests'[r]) = Len(requests[r]) + 1 /\ replies' = replies
          BY <2>1, AppendFacts DEF IInv, TypeOK, SendRequest
        <4>2. w \in Coming(r) /\ Coming(r) \in SUBSET Workers
          BY DEF Coming, SendRequest
        <4>3. Cardinality(Coming(r)) \in Nat /\ Cardinality(Coming(r)) >= 1
          BY <4>2, ThreadLess, ThreadsFinite
        <4>4. /\ Len(requests[r]) + Len(replies[r]) + Cardinality(Coming(r)) <= calls
              /\ calls \in 0..MaxCalls
          BY DEF IInv, CountInv, TypeOK
        <4>5. Len(requests[r]) \in Nat /\ Len(replies[r]) \in Nat
          BY <2>1
        <4> QED
          <5>1. calls <= MaxCalls /\ calls \in Nat /\ MaxCalls \in Nat
            BY ONLY <4>4, DataAssumption
          <5>2. (Len(requests[r]) + 1) + Len(replies[r]) <= calls
            BY ONLY <4>3, <4>4, <4>5, <5>1, Sums
          <5>3. \A a, b, k, m \in Nat : (a + 1) + b <= k /\ k <= m => (a + 1) + b <= m
            OBVIOUS
          <5> QED
            BY ONLY <3>2, <4>1, <4>5, <5>1, <5>2, <5>3
      <3> QED
        BY <3>1, <3>2
    <2>4. /\ future' \in [Workers -> [Replicas -> {"none", "waiting", "success", "cancel"}]]
          /\ todo' \in [Workers -> SUBSET Replicas]
      BY DEF IInv, TypeOK, SendRequest, Sent
    <2> QED
      BY <2>2, <2>3, <2>4 DEF IInv, TypeOK, SendRequest
  <1>2. CountInv'
    <2> SUFFICES ASSUME NEW r1 \in Replicas
                 PROVE  Len(requests'[r1]) + Len(replies'[r1]) + Cardinality(Coming(r1)')
                           <= calls'
      BY DEF CountInv
    <2>1. /\ Coming(r1) \in SUBSET Workers
          /\ Len(requests[r1]) \in Nat /\ Len(replies[r1]) \in Nat /\ calls \in Nat
          /\ Len(requests[r1]) + Len(replies[r1]) + Cardinality(Coming(r1)) <= calls
          /\ replies' = replies /\ calls' = calls
      <3>1. Coming(r1) \in SUBSET Workers
        BY DEF Coming
      <3>2. Len(requests[r1]) \in Nat /\ Len(replies[r1]) \in Nat
        BY LineTypes DEF IInv
      <3>3. calls \in Nat /\ replies' = replies /\ calls' = calls
        BY DEF IInv, TypeOK, SendRequest
      <3> QED
        BY <3>1, <3>2, <3>3 DEF IInv, CountInv
    <2>2. CASE r1 # r
      <3>1. Coming(r1)' = Coming(r1) /\ requests'[r1] = requests[r1]
        BY <2>2 DEF Coming, IInv, TypeOK, SendRequest, Sent
      <3> QED
        BY ONLY <2>1, <3>1
    <2>3. CASE r1 = r
      <3>1. Coming(r1)' = Coming(r1) \ {w} /\ w \in Coming(r1)
        BY <2>3 DEF Coming, IInv, TypeOK, SendRequest, Sent
      <3>2. Cardinality(Coming(r1)') = Cardinality(Coming(r1)) - 1 /\ Cardinality(Coming(r1)) \in Nat
            /\ Cardinality(Coming(r1)) >= 1
        BY <2>1, <3>1, ThreadLess, ThreadsFinite
      <3>3. /\ requests[r] \in Seq(Workers \X (0..MaxCalls))
            /\ <<w, ret[w]>> \in Workers \X (0..MaxCalls)
        BY DEF IInv, TypeOK
      <3>4. Len(requests'[r1]) = Len(requests[r1]) + 1
        BY <2>3, <3>3, AppendFacts DEF IInv, TypeOK, SendRequest
      <3> QED
        BY ONLY <2>1, <3>2, <3>4, Sums
    <2> QED
      BY <2>2, <2>3
  <1>3. LineInv'
    <2> SUFFICES ASSUME NEW r1 \in Replicas, chan'[r1] = "open"
                 PROVE  Carries(r1)'
      BY DEF LineInv
    <2>1. Carries(r1)
      BY DEF IInv, LineInv, SendRequest
    <2>2. CASE r1 # r
      BY <2>1, <2>2, CarriesKept DEF IInv, TypeOK, SendRequest
    <2>3. CASE r1 = r
      <3>1. /\ requests[r] \in Seq(Workers \X (0..MaxCalls))
            /\ <<w, ret[w]>> \in Workers \X (0..MaxCalls)
        BY DEF IInv, TypeOK
      <3>2. requests'[r] = Append(requests[r], <<w, ret[w]>>)
        BY DEF IInv, TypeOK, SendRequest
      <3>3. /\ Len(requests[r]) \in Nat /\ Len(requests'[r]) = Len(requests[r]) + 1
            /\ requests'[r][Len(requests[r]) + 1] = <<w, ret[w]>>
            /\ \A i \in 1..Len(requests[r]) : requests'[r][i] = requests[r][i]
        BY ONLY <3>1, <3>2, AppendFacts
      <3>4. /\ \A i \in 1..Len(requests[r]) : requests[r][i][1] \in Workers
            /\ \A i \in 1..Len(replies[r]) : replies[r][i] \in Workers
        BY LineTypes DEF IInv
      <3>5. future[w][r] = "none"
        BY DEF IInv, FutureInv, SendRequest
      <3>6. \A v \in Workers : future'[v][r] = IF v = w THEN "waiting" ELSE future[v][r]
        BY DEF IInv, TypeOK, SendRequest
      <3>7. replies' = replies /\ ret' = ret /\ seen' = seen
        BY DEF SendRequest
      <3>8. /\ \A i \in 1..Len(requests[r]) : requests[r][i][1] # w
            /\ \A i \in 1..Len(replies[r]) : replies[r][i] # w
        BY <2>1, <2>3, <3>5 DEF Carries
      <3>9. ASSUME NEW i \in 1..Len(requests'[r])
            PROVE  \/ i \in 1..Len(requests[r]) /\ requests'[r][i] = requests[r][i]
                   \/ i = Len(requests[r]) + 1 /\ requests'[r][i] = <<w, ret[w]>>
        BY ONLY <3>3, i \in 1..Len(requests'[r])
      <3>10. \A i \in 1..Len(requests'[r]) :
                /\ future'[requests'[r][i][1]][r] = "waiting"
                /\ requests'[r][i][2] = ret'[requests'[r][i][1]]
        BY ONLY <2>1, <2>3, <3>4, <3>6, <3>7, <3>9, w \in Workers, SMTT(30) DEF Carries
      <3>11. \A i \in 1..Len(replies'[r]) :
                /\ future'[replies'[r][i]][r] = "waiting"
                /\ ret'[replies'[r][i]] \in seen'[r]
        BY ONLY <2>1, <2>3, <3>4, <3>6, <3>7, w \in Workers DEF Carries
      <3>12. ASSUME NEW i \in 1..Len(requests'[r]), NEW j \in 1..Len(requests'[r]),
                    requests'[r][i][1] = requests'[r][j][1]
             PROVE  i = j
        <4>1. \A m, n \in 1..Len(requests[r]) : requests[r][m][1] = requests[r][n][1] => m = n
          BY <2>1, <2>3 DEF Carries
        <4>2. CASE i \in 1..Len(requests[r]) /\ requests'[r][i] = requests[r][i]
          BY ONLY <4>1, <4>2, <3>8, <3>9, <3>12
        <4>3. CASE i = Len(requests[r]) + 1 /\ requests'[r][i] = <<w, ret[w]>>
          BY ONLY <4>3, <3>8, <3>9, <3>12
        <4> QED
          BY <3>9, <4>2, <4>3
      <3>13. \A i \in 1..Len(requests'[r]), j \in 1..Len(replies'[r]) :
                requests'[r][i][1] # replies'[r][j]
        BY ONLY <2>1, <2>3, <3>7, <3>8, <3>9 DEF Carries
      <3>14. \A i, j \in 1..Len(replies'[r]) : replies'[r][i] = replies'[r][j] => i = j
        BY ONLY <2>1, <2>3, <3>7 DEF Carries
      <3> QED
        BY ONLY <2>3, <3>10, <3>11, <3>12, <3>13, <3>14 DEF Carries
    <2> QED
      BY <2>2, <2>3
  <1>4. WaitsForSomething'
    <2> SUFFICES ASSUME NEW v \in Workers, NEW r1 \in Replicas, future'[v][r1] = "waiting"
                 PROVE  chan'[r1] = "open" /\ UnderWay(v, r1)'
      BY DEF WaitsForSomething
    <2>1. /\ requests[r] \in Seq(Workers \X (0..MaxCalls))
          /\ <<w, ret[w]>> \in Workers \X (0..MaxCalls)
      BY DEF IInv, TypeOK
    <2>2. /\ requests'[r] \in Seq(Workers \X (0..MaxCalls))
          /\ Len(requests[r]) \in Nat /\ Len(requests'[r]) = Len(requests[r]) + 1
          /\ requests'[r][Len(requests[r]) + 1] = <<w, ret[w]>>
          /\ \A i \in 1..Len(requests[r]) : requests'[r][i] = requests[r][i]
      BY <2>1, AppendFacts DEF IInv, TypeOK, SendRequest
    <2>3. DOMAIN requests'[r] = 1..Len(requests[r]) + 1 /\ DOMAIN requests[r] = 1..Len(requests[r])
      BY <2>1, <2>2
    <2>4. replies' = replies /\ chan' = chan
      BY DEF SendRequest
    <2>5. CASE v = w /\ r1 = r
      <3>1. Len(requests[r]) + 1 \in DOMAIN requests'[r]
        BY <2>2, <2>3
      <3> QED
        BY <2>2, <2>4, <2>5, <3>1 DEF UnderWay, SendRequest
    <2>6. CASE ~(v = w /\ r1 = r)
      <3>1. future[v][r1] = "waiting"
        BY <2>6 DEF IInv, TypeOK, SendRequest
      <3>2. chan[r1] = "open" /\ UnderWay(v, r1)
        BY <3>1 DEF IInv, WaitsForSomething
      <3>3. \A i \in DOMAIN requests[r1] : i \in DOMAIN requests'[r1] /\ requests'[r1][i] = requests[r1][i]
        <4>1. CASE r1 = r
          BY ONLY <4>1, <2>2, <2>3, SMTT(30)
        <4>2. CASE r1 # r
          BY <4>2 DEF IInv, TypeOK, SendRequest
        <4> QED
          BY <4>1, <4>2
      <3> QED
        BY ONLY <3>2, <3>3, <2>4 DEF UnderWay
    <2> QED
      BY <2>5, <2>6
  <1>5. FutureInv'
    BY DEF IInv, TypeOK, SendRequest, Sent, FutureInv
  <1>6. SentInv'
    BY DEF IInv, TypeOK, SendRequest, Sent, SentInv
  <1>7. AloneInv'
    BY DEF IInv, TypeOK, SendRequest, Sent, AloneInv
  <1>8. SyncInv'
    BY DEF IInv, TypeOK, SendRequest, Sent, SyncInv
  <1>9. AnsweredInv'
    BY DEF IInv, TypeOK, SendRequest, Sent, AnsweredInv
  <1> QED
    BY <1>1, <1>2, <1>3, <1>4, <1>5, <1>6, <1>7, <1>8, <1>9 DEF IInv

\* A closed channel is passed over.
LEMMA SendOnClosedInv ==
    ASSUME IInv, NEW w \in Workers, NEW r \in Replicas, SendOnClosed(w, r)
    PROVE  IInv'
  <1> USE DataAssumption DEF svcVars, chanVars, netVars, workVars, NoRequests
  <1>1. TypeOK'
    BY DEF IInv, TypeOK, SendOnClosed, Sent
  <1>2. CountInv'
    <2>1. \A r1 \in Replicas : Coming(r1)' \subseteq Coming(r1)
      BY DEF IInv, TypeOK, SendOnClosed, Sent, Coming
    <2>2. calls' = calls /\ requests' = requests /\ replies' = replies
      BY DEF SendOnClosed
    <2>3. \A r1 \in Replicas : Len(requests[r1]) \in Nat /\ Len(replies[r1]) \in Nat
      BY LineTypes DEF IInv
    <2> QED
      BY <1>1, <2>1, <2>2, <2>3, CountKept DEF IInv
  <1>3. LineInv'
    BY LineKept DEF IInv, TypeOK, SendOnClosed, Sent, FutureInv
  <1>4. WaitsForSomething'
    BY WaitsKept DEF IInv, TypeOK, SendOnClosed, Sent, WaitsForSomething
  <1>5. FutureInv'
    BY DEF IInv, TypeOK, SendOnClosed, Sent, FutureInv
  <1>6. SentInv'
    BY DEF IInv, TypeOK, SendOnClosed, Sent, SentInv
  <1>7. AloneInv'
    BY DEF IInv, TypeOK, SendOnClosed, Sent, AloneInv
  <1>8. SyncInv'
    BY DEF IInv, TypeOK, SendOnClosed, Sent, SyncInv
  <1>9. AnsweredInv'
    BY DEF IInv, TypeOK, SendOnClosed, Sent, AnsweredInv
  <1> QED
    BY <1>1, <1>2, <1>3, <1>4, <1>5, <1>6, <1>7, <1>8, <1>9 DEF IInv

\* The primary ends.
LEMMA CrashInv ==
    ASSUME IInv, Crash
    PROVE  IInv'
  <1> USE DataAssumption DEF svcVars, chanVars, netVars, workVars, NoRequests
  <1>1. TypeOK'
    BY DEF IInv, TypeOK, Crash
  <1>2. CountInv'
    <2>1. \A r1 \in Replicas : Coming(r1)' \subseteq Coming(r1)
      BY DEF IInv, TypeOK, Crash, Coming
    <2>2. calls' = calls /\ requests' = requests /\ replies' = replies
      BY DEF Crash
    <2>3. \A r1 \in Replicas : Len(requests[r1]) \in Nat /\ Len(replies[r1]) \in Nat
      BY LineTypes DEF IInv
    <2> QED
      BY <1>1, <2>1, <2>2, <2>3, CountKept DEF IInv
  <1>3. LineInv'
    BY LineKept DEF IInv, TypeOK, Crash, FutureInv
  <1>4. WaitsForSomething'
    BY WaitsKept DEF IInv, TypeOK, Crash, WaitsForSomething
  <1>5. FutureInv'
    BY DEF IInv, TypeOK, Crash, FutureInv
  <1>6. SentInv'
    BY DEF IInv, TypeOK, Crash, SentInv
  <1>7. AloneInv'
    BY DEF IInv, TypeOK, Crash, AloneInv
  <1>8. SyncInv'
    BY DEF IInv, TypeOK, Crash, SyncInv
  <1>9. AnsweredInv'
    BY DEF IInv, TypeOK, Crash, AnsweredInv
  <1> QED
    BY <1>1, <1>2, <1>3, <1>4, <1>5, <1>6, <1>7, <1>8, <1>9 DEF IInv

\* A send fails and clears the channel.
LEMMA SendFailsInv ==
    ASSUME IInv, NEW w \in Workers, NEW r \in Replicas, SendFails(w, r)
    PROVE  IInv'
  <1> USE DataAssumption DEF svcVars, chanVars, netVars, workVars, NoRequests
  <1>1. TypeOK'
    BY DEF IInv, TypeOK, SendFails, Sent, CancelAll
  <1>2. CountInv'
    <2>1. \A r1 \in Replicas : Coming(r1)' \subseteq Coming(r1)
      BY DEF IInv, TypeOK, SendFails, Sent, CancelAll, Coming
    <2>2. calls' = calls /\ requests' = requests /\ replies' = replies
      BY DEF SendFails
    <2>3. \A r1 \in Replicas : Len(requests[r1]) \in Nat /\ Len(replies[r1]) \in Nat
      BY LineTypes DEF IInv
    <2> QED
      BY <1>1, <2>1, <2>2, <2>3, CountKept DEF IInv
  <1>3. LineInv'
    BY LineKept DEF IInv, TypeOK, SendFails, Sent, CancelAll, FutureInv
  <1>4. WaitsForSomething'
    BY WaitsKept DEF IInv, TypeOK, SendFails, Sent, CancelAll, WaitsForSomething
  <1>5. FutureInv'
    BY DEF IInv, TypeOK, SendFails, Sent, CancelAll, FutureInv
  <1>6. SentInv'
    BY DEF IInv, TypeOK, SendFails, Sent, CancelAll, SentInv
  <1>7. AloneInv'
    BY DEF IInv, TypeOK, SendFails, Sent, CancelAll, AloneInv
  <1>8. SyncInv'
    BY DEF IInv, TypeOK, SendFails, Sent, CancelAll, SyncInv
  <1>9. AnsweredInv'
    BY DEF IInv, TypeOK, SendFails, Sent, CancelAll, AnsweredInv
  <1> QED
    BY <1>1, <1>2, <1>3, <1>4, <1>5, <1>6, <1>7, <1>8, <1>9 DEF IInv

\* All requests are out.
LEMMA AllSentInv ==
    ASSUME IInv, NEW w \in Workers, AllSent(w)
    PROVE  IInv'
  <1> USE DataAssumption DEF svcVars, chanVars, netVars, workVars, NoRequests
  <1>1. TypeOK'
    BY DEF IInv, TypeOK, AllSent
  <1>2. CountInv'
    <2>1. \A r1 \in Replicas : Coming(r1)' \subseteq Coming(r1)
      BY DEF IInv, TypeOK, AllSent, Coming
    <2>2. calls' = calls /\ requests' = requests /\ replies' = replies
      BY DEF AllSent
    <2>3. \A r1 \in Replicas : Len(requests[r1]) \in Nat /\ Len(replies[r1]) \in Nat
      BY LineTypes DEF IInv
    <2> QED
      BY <1>1, <2>1, <2>2, <2>3, CountKept DEF IInv
  <1>3. LineInv'
    BY LineKept DEF IInv, TypeOK, AllSent, FutureInv
  <1>4. WaitsForSomething'
    BY WaitsKept DEF IInv, TypeOK, AllSent, WaitsForSomething
  <1>5. FutureInv'
    BY DEF IInv, TypeOK, AllSent, FutureInv
  <1>6. SentInv'
    BY DEF IInv, TypeOK, AllSent, SentInv
  <1>7. AloneInv'
    BY DEF IInv, TypeOK, AllSent, AloneInv
  <1>8. SyncInv'
    BY DEF IInv, TypeOK, AllSent, SyncInv
  <1>9. AnsweredInv'
    BY DEF IInv, TypeOK, AllSent, AnsweredInv
  <1> QED
    BY <1>1, <1>2, <1>3, <1>4, <1>5, <1>6, <1>7, <1>8, <1>9 DEF IInv

\* The client is answered: every request is over, so it succeeded or its
\* channel is closed.
LEMMA AnswerInv ==
    ASSUME IInv, NEW w \in Workers, Answer(w)
    PROVE  IInv'
  <1> USE DataAssumption DEF svcVars, chanVars, netVars, workVars, NoRequests
  <1>1. TypeOK'
    BY DEF IInv, TypeOK, Answer, IsOver
  <1>2. CountInv'
    <2>1. \A r1 \in Replicas : Coming(r1)' \subseteq Coming(r1)
      BY DEF IInv, TypeOK, Answer, IsOver, Coming
    <2>2. calls' = calls /\ requests' = requests /\ replies' = replies
      BY DEF Answer
    <2>3. \A r1 \in Replicas : Len(requests[r1]) \in Nat /\ Len(replies[r1]) \in Nat
      BY LineTypes DEF IInv
    <2> QED
      BY <1>1, <2>1, <2>2, <2>3, CountKept DEF IInv
  <1>3. LineInv'
    BY LineKept DEF IInv, TypeOK, Answer, IsOver, FutureInv
  <1>4. WaitsForSomething'
    BY WaitsKept DEF IInv, TypeOK, Answer, IsOver, WaitsForSomething
  <1>5. FutureInv'
    BY DEF IInv, TypeOK, Answer, IsOver, FutureInv
  <1>6. SentInv'
    BY DEF IInv, TypeOK, Answer, IsOver, SentInv
  <1>7. AloneInv'
    BY DEF IInv, TypeOK, Answer, IsOver, AloneInv
  <1>8. SyncInv'
    <2> SUFFICES ASSUME NEW r1 \in Replicas, ~overlap', chan'[r1] = "open"
                 PROVE  /\ copy'[r1] \in {m_sum' - 1, m_sum'}
                        /\ (\A v \in Workers : worker'[v] = "idle") => copy'[r1] = m_sum'
                        /\ \A v \in Workers : future'[v][r1] = "success" => copy'[r1] = m_sum'
                        /\ replies'[r1] # <<>> => copy'[r1] = m_sum'
      BY DEF SyncInv
    <2>1. /\ copy[r1] \in {m_sum - 1, m_sum}
          /\ \A v \in Workers : future[v][r1] = "success" => copy[r1] = m_sum
      BY DEF Answer, IInv, SyncInv
    <2>2. future[w][r1] \in {"none", "waiting", "success", "cancel"}
      BY DEF IInv, TypeOK
    <2>3. future[w][r1] = "success"
      BY <2>2 DEF Answer, IsOver, IInv, FutureInv, SentInv
    <2>4. copy[r1] = m_sum /\ copy' = copy /\ m_sum' = m_sum
      BY <2>1, <2>3 DEF Answer
    <2> QED
      BY <2>4
  <1>9. AnsweredInv'
    <2> SUFFICES ASSUME NEW a \in answered', NEW r1 \in a[2], chan'[r1] = "open"
                 PROVE  a[1] \in seen'[r1]
      BY DEF AnsweredInv
    <2>1. chan' = chan /\ seen' = seen
      BY DEF Answer
    <2>2. CASE a \in answered
      BY <2>1, <2>2 DEF IInv, AnsweredInv
    <2>3. CASE a = <<ret[w], {r2 \in Replicas : future[w][r2] # "none"}>>
      <3>1. r1 \in Replicas /\ future[w][r1] # "none" /\ a[1] = ret[w]
        BY <2>3
      <3>2. future[w][r1] \in {"none", "waiting", "success", "cancel"}
        BY <3>1 DEF IInv, TypeOK
      <3>3. future[w][r1] = "success"
        BY <2>1, <3>1, <3>2 DEF Answer, IsOver, IInv, FutureInv
      <3> QED
        BY <2>1, <3>1, <3>3 DEF IInv, FutureInv
    <2> QED
      BY <2>2, <2>3 DEF Answer
  <1> QED
    BY <1>1, <1>2, <1>3, <1>4, <1>5, <1>6, <1>7, <1>8, <1>9 DEF IInv

\* An answer arrives: the one its thread waits for.
LEMMA HandleReplyInv ==
    ASSUME IInv, NEW r \in Replicas, HandleReply(r)
    PROVE  IInv'
  <1> USE DataAssumption DEF svcVars, chanVars, netVars, workVars, NoRequests
  <1>f1. replies[r] \in Seq(Workers) /\ replies[r] # <<>>
    BY DEF IInv, TypeOK, HandleReply
  <1>f2. /\ replies'[r] = Tail(replies[r]) /\ replies'[r] \in Seq(Workers)
        /\ Len(replies[r]) \in Nat /\ Len(replies[r]) >= 1
        /\ Len(replies'[r]) = Len(replies[r]) - 1
        /\ \A i \in 1..Len(replies'[r]) : i + 1 \in 1..Len(replies[r]) /\ replies'[r][i] = replies[r][i + 1]
        /\ Head(replies[r]) = replies[r][1] /\ replies[r][1] \in Workers /\ 1 \in 1..Len(replies[r])
    <2>1. replies'[r] = Tail(replies[r])
      BY DEF IInv, TypeOK, HandleReply
    <2> QED
      BY ONLY <1>f1, <2>1, TailFacts
  <1>f3. \A v \in Workers, r1 \in Replicas :
           future'[v][r1] = IF v = replies[r][1] /\ r1 = r THEN "success" ELSE future[v][r1]
    <2>1. future' = [future EXCEPT ![replies[r][1]][r] = "success"]
      BY <1>f2 DEF HandleReply
    <2> QED
      BY <2>1 DEF IInv, TypeOK
  <1>f4. /\ requests' = requests /\ chan' = chan /\ ret' = ret /\ seen' = seen /\ worker' = worker
        /\ todo' = todo /\ calls' = calls
        /\ \A r1 \in Replicas : r1 # r => replies'[r1] = replies[r1]
    BY DEF IInv, TypeOK, HandleReply
  <1>f5. Carries(r)
    BY DEF IInv, LineInv, HandleReply
  <1>1. TypeOK'
    BY SMTT(30) DEF IInv, TypeOK, HandleReply
  <1>2. CountInv'
    <2> SUFFICES ASSUME NEW r1 \in Replicas
                 PROVE  Len(requests'[r1]) + Len(replies'[r1]) + Cardinality(Coming(r1)')
                           <= calls'
      BY DEF CountInv
    <2>6. /\ Coming(r1)' = Coming(r1) /\ Coming(r1) \in SUBSET Workers
      BY <1>f4 DEF Coming
    <2>7. Cardinality(Coming(r1)) \in Nat
      BY <2>6, ThreadsFinite
    <2>8. Len(requests[r1]) \in Nat /\ Len(replies[r1]) \in Nat /\ calls \in Nat
      BY LineTypes DEF IInv, TypeOK
    <2>9. Len(requests[r1]) + Len(replies[r1]) + Cardinality(Coming(r1)) <= calls
      BY DEF IInv, CountInv
    <2>10. CASE r1 # r
      BY ONLY <1>f4, <2>6, <2>9, <2>10, r1 \in Replicas
    <2>11. CASE r1 = r
      BY ONLY <1>f2, <1>f4, <2>6, <2>7, <2>8, <2>9, <2>11, Sums
    <2> QED
      BY <2>10, <2>11
  <1>3. LineInv'
    <2> SUFFICES ASSUME NEW r1 \in Replicas, chan'[r1] = "open"
                 PROVE  Carries(r1)'
      BY DEF LineInv
    <2>6. CASE r1 # r
      <3>1. Carries(r1)
        BY <1>f4 DEF IInv, LineInv
      <3>2. TypeOK
        BY DEF IInv
      <3> QED
        BY ONLY <1>f3, <1>f4, <2>6, <3>1, <3>2, r1 \in Replicas, CarriesKept
    <2>7. CASE r1 = r
      <3>1. /\ \A i \in 1..Len(requests[r]) : requests[r][i][1] \in Workers
            /\ \A i \in 1..Len(replies[r]) : replies[r][i] \in Workers
        BY LineTypes DEF IInv
      <3>2. \A i \in 1..Len(requests'[r]) :
                /\ future'[requests'[r][i][1]][r] = "waiting"
                /\ requests'[r][i][2] = ret'[requests'[r][i][1]]
        BY ONLY <1>f2, <1>f3, <1>f4, <1>f5, <3>1, r \in Replicas DEF Carries
      <3>3. ASSUME NEW i \in 1..Len(replies'[r])
            PROVE  i + 1 \in 1..Len(replies[r]) /\ replies'[r][i] = replies[r][i + 1] /\ i + 1 # 1
        BY ONLY <1>f2, i \in 1..Len(replies'[r])
      <3>4. \A i \in 1..Len(replies'[r]) :
                /\ future'[replies'[r][i]][r] = "waiting"
                /\ ret'[replies'[r][i]] \in seen'[r]
        BY ONLY <1>f2, <1>f3, <1>f4, <1>f5, <3>1, <3>3, r \in Replicas DEF Carries
      <3>5. \A i, j \in 1..Len(requests'[r]) : requests'[r][i][1] = requests'[r][j][1] => i = j
        BY ONLY <1>f4, <1>f5 DEF Carries
      <3>6. \A i \in 1..Len(requests'[r]), j \in 1..Len(replies'[r]) :
                requests'[r][i][1] # replies'[r][j]
        BY ONLY <1>f4, <1>f5, <3>3, SMTT(30) DEF Carries
      <3>7. ASSUME NEW i \in 1..Len(replies'[r]), NEW j \in 1..Len(replies'[r]),
                   replies'[r][i] = replies'[r][j]
            PROVE  i = j
        <4>1. i + 1 = j + 1
          <5>1. \A m, n \in 1..Len(replies[r]) : replies[r][m] = replies[r][n] => m = n
            BY <1>f5 DEF Carries
          <5>2. replies[r][i + 1] = replies[r][j + 1]
            BY ONLY <3>3, <3>7
          <5> QED
            BY ONLY <3>3, <5>1, <5>2, i \in 1..Len(replies'[r]), j \in 1..Len(replies'[r])
        <4> QED
          BY ONLY <4>1, i \in 1..Len(replies'[r]), j \in 1..Len(replies'[r]), <1>f2
      <3> QED
        BY ONLY <2>7, <3>2, <3>4, <3>5, <3>6, <3>7 DEF Carries
    <2> QED
      BY <2>6, <2>7
  <1>4. WaitsForSomething'
    <2> SUFFICES ASSUME NEW v \in Workers, NEW r1 \in Replicas, future'[v][r1] = "waiting"
                 PROVE  chan'[r1] = "open" /\ UnderWay(v, r1)'
      BY DEF WaitsForSomething
    <2>6. future[v][r1] = "waiting" /\ ~(v = replies[r][1] /\ r1 = r)
      BY <1>f3
    <2>7. chan[r1] = "open" /\ UnderWay(v, r1)
      BY <2>6 DEF IInv, WaitsForSomething
    <2>8. ASSUME NEW i \in DOMAIN replies[r1], replies[r1][i] = v
          PROVE  \E j \in DOMAIN replies'[r1] : replies'[r1][j] = v
      <3>1. CASE r1 # r
        BY ONLY <1>f4, <2>8, <3>1, r1 \in Replicas
      <3>2. CASE r1 = r
        <4>1. DOMAIN replies[r] = 1..Len(replies[r]) /\ DOMAIN replies'[r] = 1..Len(replies'[r])
          BY ONLY <1>f1, <1>f2
        <4>2. i \in 1..Len(replies[r]) /\ i # 1
          BY ONLY <2>6, <2>8, <3>2, <4>1
        <4>3. i - 1 \in 1..Len(replies'[r]) /\ (i - 1) + 1 = i
          BY ONLY <1>f2, <4>2
        <4> QED
          BY ONLY <1>f2, <2>8, <3>2, <4>1, <4>3
      <3> QED
        BY <3>1, <3>2
    <2> QED
      BY ONLY <1>f4, <2>7, <2>8 DEF UnderWay
  <1>5. FutureInv'
    <2> SUFFICES ASSUME NEW v \in Workers, NEW r1 \in Replicas
                 PROVE  /\ worker'[v] \in {"idle", "replicate"} => future'[v][r1] = "none"
                        /\ worker'[v] = "send" /\ r1 \in todo'[v] => future'[v][r1] = "none"
                        /\ future'[v][r1] = "cancel" => chan'[r1] # "open"
                        /\ future'[v][r1] = "success" => ret'[v] \in seen'[r1]
      BY DEF FutureInv
    <2>6. future[replies[r][1]][r] = "waiting" /\ ret[replies[r][1]] \in seen[r]
      BY ONLY <1>f2, <1>f5 DEF Carries
    <2>7. /\ worker[v] \in {"idle", "replicate"} => future[v][r1] = "none"
          /\ worker[v] = "send" /\ r1 \in todo[v] => future[v][r1] = "none"
          /\ future[v][r1] = "cancel" => chan[r1] # "open"
          /\ future[v][r1] = "success" => ret[v] \in seen[r1]
      BY DEF IInv, FutureInv
    <2> QED
      BY ONLY <1>f3, <1>f4, <2>6, <2>7, v \in Workers, r1 \in Replicas
  <1>6. SentInv'
    BY SMTT(30) DEF IInv, TypeOK, HandleReply, SentInv
  <1>7. AloneInv'
    BY DEF IInv, TypeOK, HandleReply, AloneInv
  <1>8. SyncInv'
    BY DEF IInv, TypeOK, HandleReply, SyncInv
  <1>9. AnsweredInv'
    BY DEF IInv, TypeOK, HandleReply, AnsweredInv
  <1> QED
    BY <1>1, <1>2, <1>3, <1>4, <1>5, <1>6, <1>7, <1>8, <1>9 DEF IInv

\* The stream ends and the channel is cleared.
LEMMA HandleCloseInv ==
    ASSUME IInv, NEW r \in Replicas, HandleClose(r)
    PROVE  IInv'
  <1> USE DataAssumption DEF svcVars, chanVars, netVars, workVars, NoRequests
  <1>1. TypeOK'
    BY DEF IInv, TypeOK, HandleClose, CancelAll
  <1>2. CountInv'
    <2>1. \A r1 \in Replicas : Coming(r1)' \subseteq Coming(r1)
      BY DEF IInv, TypeOK, HandleClose, CancelAll, Coming
    <2>2. calls' = calls /\ requests' = requests /\ replies' = replies
      BY DEF HandleClose
    <2>3. \A r1 \in Replicas : Len(requests[r1]) \in Nat /\ Len(replies[r1]) \in Nat
      BY LineTypes DEF IInv
    <2> QED
      BY <1>1, <2>1, <2>2, <2>3, CountKept DEF IInv
  <1>3. LineInv'
    BY LineKept DEF IInv, TypeOK, HandleClose, CancelAll, FutureInv
  <1>4. WaitsForSomething'
    BY WaitsKept DEF IInv, TypeOK, HandleClose, CancelAll, WaitsForSomething
  <1>5. FutureInv'
    BY DEF IInv, TypeOK, HandleClose, CancelAll, FutureInv
  <1>6. SentInv'
    BY DEF IInv, TypeOK, HandleClose, CancelAll, SentInv
  <1>7. AloneInv'
    BY DEF IInv, TypeOK, HandleClose, CancelAll, AloneInv
  <1>8. SyncInv'
    BY DEF IInv, TypeOK, HandleClose, CancelAll, SyncInv
  <1>9. AnsweredInv'
    BY DEF IInv, TypeOK, HandleClose, CancelAll, AnsweredInv
  <1> QED
    BY <1>1, <1>2, <1>3, <1>4, <1>5, <1>6, <1>7, <1>8, <1>9 DEF IInv

\* The channel is closed.
LEMMA FinishCloseInv ==
    ASSUME IInv, NEW r \in Replicas, FinishClose(r)
    PROVE  IInv'
  <1> USE DataAssumption DEF svcVars, chanVars, netVars, workVars, NoRequests
  <1>1. TypeOK'
    BY DEF IInv, TypeOK, FinishClose
  <1>2. CountInv'
    <2>1. \A r1 \in Replicas : Coming(r1)' \subseteq Coming(r1)
      BY DEF IInv, TypeOK, FinishClose, Coming
    <2>2. calls' = calls /\ requests' = requests /\ replies' = replies
      BY DEF FinishClose
    <2>3. \A r1 \in Replicas : Len(requests[r1]) \in Nat /\ Len(replies[r1]) \in Nat
      BY LineTypes DEF IInv
    <2> QED
      BY <1>1, <2>1, <2>2, <2>3, CountKept DEF IInv
  <1>3. LineInv'
    BY LineKept DEF IInv, TypeOK, FinishClose, FutureInv
  <1>4. WaitsForSomething'
    BY WaitsKept DEF IInv, TypeOK, FinishClose, WaitsForSomething
  <1>5. FutureInv'
    BY DEF IInv, TypeOK, FinishClose, FutureInv
  <1>6. SentInv'
    BY DEF IInv, TypeOK, FinishClose, SentInv
  <1>7. AloneInv'
    BY DEF IInv, TypeOK, FinishClose, AloneInv
  <1>8. SyncInv'
    BY DEF IInv, TypeOK, FinishClose, SyncInv
  <1>9. AnsweredInv'
    BY DEF IInv, TypeOK, FinishClose, AnsweredInv
  <1> QED
    BY <1>1, <1>2, <1>3, <1>4, <1>5, <1>6, <1>7, <1>8, <1>9 DEF IInv

\* A replica takes over a state and answers.
LEMMA HandlePacketInv ==
    ASSUME IInv, NEW r \in Replicas, HandlePacket(r)
    PROVE  IInv'
  <1> USE DataAssumption DEF svcVars, chanVars, netVars, workVars, NoRequests
  <1>f1. /\ requests[r] \in Seq(Workers \X (0..MaxCalls)) /\ requests[r] # <<>>
         /\ replies[r] \in Seq(Workers)
    BY DEF IInv, TypeOK, HandlePacket
  <1>f2. /\ requests[r][1] \in Workers \X (0..MaxCalls)
         /\ requests[r][1][1] \in Workers /\ requests[r][1][2] \in 0..MaxCalls
         /\ Head(requests[r]) = requests[r][1] /\ 1 \in 1..Len(requests[r])
    BY ONLY <1>f1, TailFacts
  <1>f3. /\ requests' = [requests EXCEPT ![r] = Tail(@)]
         /\ replies' = [replies EXCEPT ![r] = Append(@, requests[r][1][1])]
         /\ copy' = [copy EXCEPT ![r] = requests[r][1][2]]
         /\ seen' = [seen EXCEPT ![r] = @ \cup {requests[r][1][2]}]
    BY <1>f2 DEF IInv, TypeOK, HandlePacket, OnReplication
  <1>f4. /\ requests'[r] = Tail(requests[r]) /\ replies'[r] = Append(replies[r], requests[r][1][1])
         /\ seen'[r] = seen[r] \cup {requests[r][1][2]} /\ copy'[r] = requests[r][1][2]
         /\ \A r1 \in Replicas : r1 # r =>
               /\ requests'[r1] = requests[r1] /\ replies'[r1] = replies[r1]
               /\ seen'[r1] = seen[r1] /\ copy'[r1] = copy[r1]
    BY <1>f3 DEF IInv, TypeOK
  <1>f5. /\ requests'[r] \in Seq(Workers \X (0..MaxCalls))
         /\ Len(requests[r]) \in Nat /\ Len(requests[r]) >= 1
         /\ Len(requests'[r]) = Len(requests[r]) - 1
         /\ \A i \in 1..Len(requests'[r]) :
               /\ i + 1 \in 1..Len(requests[r]) /\ i + 1 # 1
               /\ requests'[r][i] = requests[r][i + 1]
    BY ONLY <1>f1, <1>f4, TailFacts
  <1>f6. /\ replies'[r] \in Seq(Workers)
         /\ Len(replies[r]) \in Nat /\ Len(replies'[r]) = Len(replies[r]) + 1
         /\ replies'[r][Len(replies[r]) + 1] = requests[r][1][1]
         /\ \A i \in 1..Len(replies[r]) : replies'[r][i] = replies[r][i]
    BY ONLY <1>f1, <1>f2, <1>f4, AppendFacts
  <1>f7. /\ m_sum' = m_sum /\ up' = up /\ crashed' = crashed /\ members' = members /\ chan' = chan
         /\ worker' = worker /\ ret' = ret /\ todo' = todo /\ answered' = answered
         /\ calls' = calls /\ overlap' = overlap /\ future' = future
    BY DEF HandlePacket
  <1>f8. /\ \A i \in 1..Len(requests[r]) : requests[r][i][1] \in Workers
         /\ \A i \in 1..Len(replies[r]) : replies[r][i] \in Workers
    BY LineTypes DEF IInv
  <1>1. TypeOK'
    <2>1. /\ requests' \in [Replicas -> Seq(Workers \X (0..MaxCalls))]
          /\ replies' \in [Replicas -> Seq(Workers)]
      <3>1. /\ requests \in [Replicas -> Seq(Workers \X (0..MaxCalls))]
            /\ replies \in [Replicas -> Seq(Workers)]
        BY DEF IInv, TypeOK
      <3>2. Tail(requests[r]) \in Seq(Workers \X (0..MaxCalls)) /\ Append(replies[r], requests[r][1][1]) \in Seq(Workers)
        BY ONLY <1>f4, <1>f5, <1>f6
      <3> QED
        BY ONLY <1>f3, <3>1, <3>2
    <2>2. copy' \in [Replicas -> 0..MaxCalls] /\ seen' \in [Replicas -> SUBSET (0..MaxCalls)]
      BY <1>f2, <1>f3 DEF IInv, TypeOK
    <2>3. ASSUME NEW r1 \in Replicas
          PROVE  Len(requests'[r1]) + Len(replies'[r1]) <= MaxCalls
      <3>1. Len(requests[r1]) + Len(replies[r1]) <= MaxCalls
        BY DEF IInv, TypeOK
      <3>2. CASE r1 # r
        BY ONLY <1>f4, <3>1, <3>2, r1 \in Replicas
      <3>3. CASE r1 = r
        <4>1. \A a, b, k \in Nat : a + b <= k => (a - 1) + (b + 1) <= k
          OBVIOUS
        <4> QED
          BY ONLY <1>f5, <1>f6, <3>1, <3>3, <4>1, DataAssumption
      <3> QED
        BY <3>2, <3>3
    <2> QED
      BY <1>f7, <2>1, <2>2, <2>3 DEF IInv, TypeOK
  <1>2. CountInv'
    <2> SUFFICES ASSUME NEW r1 \in Replicas
                 PROVE  Len(requests'[r1]) + Len(replies'[r1]) + Cardinality(Coming(r1)')
                           <= calls'
      BY DEF CountInv
    <2>1. /\ Coming(r1)' = Coming(r1) /\ Coming(r1) \in SUBSET Workers
      BY <1>f7 DEF Coming
    <2>2. Cardinality(Coming(r1)) \in Nat
      BY <2>1, ThreadsFinite
    <2>3. Len(requests[r1]) \in Nat /\ Len(replies[r1]) \in Nat /\ calls \in Nat
      BY LineTypes DEF IInv, TypeOK
    <2>4. Len(requests[r1]) + Len(replies[r1]) + Cardinality(Coming(r1)) <= calls
      BY DEF IInv, CountInv
    <2>5. CASE r1 # r
      BY ONLY <1>f4, <1>f7, <2>1, <2>4, <2>5, r1 \in Replicas
    <2>6. CASE r1 = r
      BY ONLY <1>f5, <1>f6, <1>f7, <2>1, <2>2, <2>3, <2>4, <2>6, Sums
    <2> QED
      BY <2>5, <2>6
  <1>3. LineInv'
    <2> SUFFICES ASSUME NEW r1 \in Replicas, chan'[r1] = "open"
                 PROVE  Carries(r1)'
      BY DEF LineInv
    <2>1. Carries(r1)
      BY <1>f7 DEF IInv, LineInv
    <2>2. CASE r1 # r
      <3>1. TypeOK
        BY DEF IInv
      <3> QED
        BY ONLY <1>f4, <1>f7, <2>1, <2>2, <3>1, r1 \in Replicas, CarriesKept
    <2>3. CASE r1 = r
      <3>1. Carries(r)
        BY <2>1, <2>3
      <3>2. ASSUME NEW i \in 1..Len(replies'[r])
            PROVE  \/ i \in 1..Len(replies[r]) /\ replies'[r][i] = replies[r][i]
                   \/ i = Len(replies[r]) + 1 /\ replies'[r][i] = requests[r][1][1]
        BY ONLY <1>f6, i \in 1..Len(replies'[r])
      <3>3. \A i \in 1..Len(requests'[r]) :
                /\ future'[requests'[r][i][1]][r] = "waiting"
                /\ requests'[r][i][2] = ret'[requests'[r][i][1]]
        <4>1. \A i \in 1..Len(requests[r]) :
                 /\ future[requests[r][i][1]][r] = "waiting"
                 /\ requests[r][i][2] = ret[requests[r][i][1]]
          BY <3>1 DEF Carries
        <4> QED
          BY ONLY <1>f5, <1>f7, <4>1
      <3>4. /\ future[requests[r][1][1]][r] = "waiting"
            /\ requests[r][1][2] = ret[requests[r][1][1]]
            /\ \A j \in 1..Len(replies[r]) : requests[r][1][1] # replies[r][j]
            /\ \A i, j \in 1..Len(requests[r]) : requests[r][i][1] = requests[r][j][1] => i = j
            /\ \A i, j \in 1..Len(replies[r]) : replies[r][i] = replies[r][j] => i = j
        BY ONLY <1>f2, <3>1 DEF Carries
      <3>5. \A i \in 1..Len(replies'[r]) :
                /\ future'[replies'[r][i]][r] = "waiting"
                /\ ret'[replies'[r][i]] \in seen'[r]
        BY ONLY <1>f4, <1>f7, <3>1, <3>2, <3>4 DEF Carries
      <3>6. ASSUME NEW i \in 1..Len(requests'[r]), NEW j \in 1..Len(requests'[r]),
                   requests'[r][i][1] = requests'[r][j][1]
            PROVE  i = j
        <4>1. requests[r][i + 1][1] = requests[r][j + 1][1]
          BY ONLY <1>f5, <3>6
        <4>2. i + 1 = j + 1
          BY ONLY <1>f5, <3>4, <4>1, i \in 1..Len(requests'[r]), j \in 1..Len(requests'[r])
        <4> QED
          BY ONLY <4>2, i \in 1..Len(requests'[r]), j \in 1..Len(requests'[r]), <1>f5
      <3>7. ASSUME NEW i \in 1..Len(requests'[r]), NEW j \in 1..Len(replies'[r])
            PROVE  requests'[r][i][1] # replies'[r][j]
        <4>1. /\ i + 1 \in 1..Len(requests[r]) /\ i + 1 # 1
              /\ requests'[r][i] = requests[r][i + 1]
          BY ONLY <1>f5, i \in 1..Len(requests'[r])
        <4>2. requests[r][i + 1][1] # requests[r][1][1]
          BY ONLY <1>f2, <3>4, <4>1
        <4>3. \A n \in 1..Len(replies[r]) : requests[r][i + 1][1] # replies[r][n]
          BY ONLY <3>1, <4>1 DEF Carries
        <4> QED
          BY ONLY <3>2, <4>1, <4>2, <4>3, j \in 1..Len(replies'[r])
      <3>8. ASSUME NEW i \in 1..Len(replies'[r]), NEW j \in 1..Len(replies'[r]),
                   replies'[r][i] = replies'[r][j]
            PROVE  i = j
        <4>1. CASE i \in 1..Len(replies[r]) /\ replies'[r][i] = replies[r][i]
          BY ONLY <3>2, <3>4, <3>8, <4>1
        <4>2. CASE i = Len(replies[r]) + 1 /\ replies'[r][i] = requests[r][1][1]
          BY ONLY <3>2, <3>4, <3>8, <4>2
        <4> QED
          BY <3>2, <4>1, <4>2
      <3> QED
        BY ONLY <2>3, <3>3, <3>5, <3>6, <3>7, <3>8 DEF Carries
    <2> QED
      BY <2>2, <2>3
  <1>4. WaitsForSomething'
    <2> SUFFICES ASSUME NEW v \in Workers, NEW r1 \in Replicas, future'[v][r1] = "waiting"
                 PROVE  chan'[r1] = "open" /\ UnderWay(v, r1)'
      BY DEF WaitsForSomething
    <2>1. chan[r1] = "open" /\ UnderWay(v, r1)
      BY <1>f7 DEF IInv, WaitsForSomething
    <2>2. CASE r1 # r
      BY ONLY <1>f4, <1>f7, <2>1, <2>2, r1 \in Replicas DEF UnderWay
    <2>3. CASE r1 = r
      <3>1. /\ DOMAIN requests[r] = 1..Len(requests[r]) /\ DOMAIN replies[r] = 1..Len(replies[r])
            /\ DOMAIN requests'[r] = 1..Len(requests'[r]) /\ DOMAIN replies'[r] = 1..Len(replies'[r])
        BY ONLY <1>f1, <1>f5, <1>f6
      <3>2. ASSUME NEW i \in 1..Len(requests[r]), requests[r][i][1] = v
            PROVE  UnderWay(v, r)'
        <4>1. CASE i = 1
          <5>1. Len(replies[r]) + 1 \in 1..Len(replies'[r])
            BY ONLY <1>f6
          <5> QED
            BY ONLY <1>f6, <3>1, <3>2, <4>1, <5>1 DEF UnderWay
        <4>2. CASE i # 1
          <5>1. i - 1 \in 1..Len(requests'[r]) /\ (i - 1) + 1 = i
            BY ONLY <1>f5, <4>2, i \in 1..Len(requests[r])
          <5> QED
            BY ONLY <1>f5, <3>1, <3>2, <5>1 DEF UnderWay
        <4> QED
          BY <4>1, <4>2
      <3>3. ASSUME NEW i \in 1..Len(replies[r]), replies[r][i] = v
            PROVE  UnderWay(v, r)'
        <4>1. i \in 1..Len(replies'[r]) /\ replies'[r][i] = v
          BY ONLY <1>f6, <3>3
        <4> QED
          BY ONLY <3>1, <4>1 DEF UnderWay
      <3> QED
        BY ONLY <1>f7, <2>1, <2>3, <3>1, <3>2, <3>3 DEF UnderWay
    <2> QED
      BY <2>2, <2>3
  <1>5. FutureInv'
    BY DEF IInv, TypeOK, HandlePacket, OnReplication, FutureInv
  <1>6. SentInv'
    BY DEF IInv, TypeOK, HandlePacket, OnReplication, SentInv
  <1>7. AloneInv'
    BY DEF IInv, TypeOK, HandlePacket, OnReplication, AloneInv
  <1>8. SyncInv'
    <2> SUFFICES ASSUME NEW r1 \in Replicas, ~overlap', chan'[r1] = "open"
                 PROVE  /\ copy'[r1] \in {m_sum' - 1, m_sum'}
                        /\ (\A v \in Workers : worker'[v] = "idle") => copy'[r1] = m_sum'
                        /\ \A v \in Workers : future'[v][r1] = "success" => copy'[r1] = m_sum'
                        /\ replies'[r1] # <<>> => copy'[r1] = m_sum'
      BY DEF SyncInv
    <2>1. CASE r1 # r
      BY <1>f4, <1>f7, <2>1 DEF IInv, SyncInv
    <2>2. CASE r1 = r
      <3>1. /\ future[requests[r][1][1]][r] = "waiting"
            /\ requests[r][1][2] = ret[requests[r][1][1]]
        BY <1>f2, <1>f7, <2>2 DEF IInv, LineInv, Carries
      <3>2. worker[requests[r][1][1]] # "idle"
        BY <1>f2, <3>1 DEF IInv, FutureInv
      <3>3. ret[requests[r][1][1]] = m_sum
        BY <1>f2, <1>f7, <3>2 DEF IInv, AloneInv
      <3> QED
        BY ONLY <1>f4, <1>f7, <2>2, <3>1, <3>3
    <2> QED
      BY <2>1, <2>2
  <1>9. AnsweredInv'
    BY DEF IInv, TypeOK, HandlePacket, OnReplication, AnsweredInv
  <1> QED
    BY <1>1, <1>2, <1>3, <1>4, <1>5, <1>6, <1>7, <1>8, <1>9 DEF IInv

\* A replica ends.
LEMMA ReplicaCrashInv ==
    ASSUME IInv, NEW r \in Replicas, ReplicaCrash(r)
    PROVE  IInv'
  <1> USE DataAssumption DEF svcVars, chanVars, netVars, workVars, NoRequests
  <1>1. TypeOK'
    BY DEF IInv, TypeOK, ReplicaCrash
  <1>2. CountInv'
    <2>1. \A r1 \in Replicas : Coming(r1)' \subseteq Coming(r1)
      BY DEF IInv, TypeOK, ReplicaCrash, Coming
    <2>2. calls' = calls /\ requests' = requests /\ replies' = replies
      BY DEF ReplicaCrash
    <2>3. \A r1 \in Replicas : Len(requests[r1]) \in Nat /\ Len(replies[r1]) \in Nat
      BY LineTypes DEF IInv
    <2> QED
      BY <1>1, <2>1, <2>2, <2>3, CountKept DEF IInv
  <1>3. LineInv'
    BY LineKept DEF IInv, TypeOK, ReplicaCrash, FutureInv
  <1>4. WaitsForSomething'
    BY WaitsKept DEF IInv, TypeOK, ReplicaCrash, WaitsForSomething
  <1>5. FutureInv'
    BY DEF IInv, TypeOK, ReplicaCrash, FutureInv
  <1>6. SentInv'
    BY DEF IInv, TypeOK, ReplicaCrash, SentInv
  <1>7. AloneInv'
    BY DEF IInv, TypeOK, ReplicaCrash, AloneInv
  <1>8. SyncInv'
    BY DEF IInv, TypeOK, ReplicaCrash, SyncInv
  <1>9. AnsweredInv'
    BY DEF IInv, TypeOK, ReplicaCrash, AnsweredInv
  <1> QED
    BY <1>1, <1>2, <1>3, <1>4, <1>5, <1>6, <1>7, <1>8, <1>9 DEF IInv

-----------------------------------------------------------------------------
(* The invariant holds                                                     *)

LEMMA InitIInv == Init => IInv
  <1> SUFFICES ASSUME Init
               PROVE  IInv
    OBVIOUS
  <1> USE DataAssumption DEF Init, NoRequests
  <1>1. TypeOK
    <2>1. /\ requests \in [Replicas -> Seq(Workers \X (0..MaxCalls))]
          /\ replies \in [Replicas -> Seq(Workers)]
          /\ \A r \in Replicas : Len(requests[r]) = 0 /\ Len(replies[r]) = 0
      OBVIOUS
    <2>2. \A r \in Replicas : Len(requests[r]) + Len(replies[r]) <= MaxCalls
      BY <2>1
    <2>3. 0 \in 0..MaxCalls
      OBVIOUS
    <2> QED
      BY <2>1, <2>2, <2>3 DEF TypeOK
  <1>2. CountInv
    <2>1. \A r \in Replicas : Coming(r) = {} /\ Len(requests[r]) = 0 /\ Len(replies[r]) = 0
      BY DEF Coming
    <2>2. Cardinality({}) = 0 /\ calls = 0
      BY FS_EmptySet
    <2> QED
      <3>1. ASSUME NEW r \in Replicas
            PROVE  Len(requests[r]) + Len(replies[r]) + Cardinality(Coming(r)) <= calls
        <4>1. Len(requests[r]) = 0 /\ Len(replies[r]) = 0 /\ Cardinality(Coming(r)) = 0 /\ calls = 0
          BY ONLY <2>1, <2>2, r \in Replicas
        <4> QED
          BY ONLY <4>1
      <3> QED
        BY ONLY <3>1 DEF CountInv
  <1>3. LineInv
    BY DEF LineInv, Carries
  <1>4. WaitsForSomething /\ FutureInv /\ SentInv /\ AloneInv /\ SyncInv /\ AnsweredInv
    BY DEF WaitsForSomething, FutureInv, SentInv, AloneInv, SyncInv, AnsweredInv
  <1> QED
    BY <1>1, <1>2, <1>3, <1>4 DEF IInv

LEMMA NextIInv == IInv /\ [Next]_vars => IInv'
  <1> SUFFICES ASSUME IInv, [Next]_vars
               PROVE  IInv'
    OBVIOUS
  <1>1. ASSUME NEW w \in Workers, WorkerStep(w)
        PROVE  IInv'
    BY <1>1, SumInv, ReplicateInv, AllSentInv, AnswerInv, SendRequestInv,
       SendOnClosedInv, SendFailsInv, CrashInv DEF WorkerStep, SendOnCleared
  <1>2. ASSUME NEW r \in Replicas, ReaderStep(r)
        PROVE  IInv'
    BY <1>2, HandleReplyInv, HandleCloseInv, FinishCloseInv, CrashInv
    DEF ReaderStep, HandleReplyOnCleared
  <1>3. ASSUME NEW r \in Replicas, HandlePacket(r) \/ ReplicaCrash(r)
        PROVE  IInv'
    BY <1>3, HandlePacketInv, ReplicaCrashInv
  <1>4. CASE UNCHANGED vars
    BY <1>4 DEF vars, svcVars, chanVars, netVars, workVars, IInv, TypeOK, CountInv,
       Coming, LineInv, Carries, WaitsForSomething, UnderWay, FutureInv, SentInv,
       AloneInv, SyncInv, AnsweredInv
  <1> QED
    BY <1>1, <1>2, <1>3, <1>4 DEF Next

LEMMA IInvHolds == Spec => []IInv
  BY InitIInv, NextIInv, PTL DEF Spec

-----------------------------------------------------------------------------
(* What the data plane promises                                            *)

(***************************************************************************)
(* What a client has been answered, every replica whose channel is open    *)
(* has taken over, whatever number of invocations, replicas and closes     *)
(* there has been; and a thread that waits for a replica waits for a       *)
(* packet or an answer that is under way (replicate, onReplication,        *)
(* setReply, clearAll).                                                    *)
(***************************************************************************)
THEOREM AnswersAreReplicated == Spec => []AnsweredIsReplicated
  <1>1. IInv => AnsweredIsReplicated
    BY DEF IInv, AnsweredIsReplicated, AnsweredInv
  <1> QED
    BY <1>1, IInvHolds, PTL

(***************************************************************************)
(* As long as the clients have called one at a time, the replicas are in   *)
(* step with the primary: equal to it between invocations, at most one     *)
(* invocation behind during one.                                           *)
(***************************************************************************)
THEOREM ReplicasInSync == Spec => []InSync
  <1>1. IInv => InSync
    BY DEF IInv, SyncInv, InSync
  <1> QED
    BY <1>1, IInvHolds, PTL
=============================================================================
