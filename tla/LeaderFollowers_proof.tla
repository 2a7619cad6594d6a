------------------------ MODULE LeaderFollowers_proof ------------------------
(***************************************************************************)
(* Proofs about LeaderFollowers, for any sets of threads and waiters.      *)
(***************************************************************************)
EXTENDS LeaderFollowers, SequenceTheorems, TLAPS

-----------------------------------------------------------------------------
(* The list of followers: push_back, pop_front and erase                   *)

\* No element is twice in s.
Distinct(s) == \A i, j \in DOMAIN s : s[i] = s[j] => i = j

\* What push_back keeps.
LEMMA AppendKeeps ==
    ASSUME NEW S, NEW s \in Seq(S), NEW e \in S
    PROVE  /\ ToSet(Append(s, e)) = ToSet(s) \cup {e}
           /\ Append(s, e) \in Seq(S)
           /\ Append(s, e) # <<>>
           /\ s # <<>> => Head(Append(s, e)) = Head(s)
  <1> DEFINE t == Append(s, e)
  <1>1. /\ t \in Seq(S) /\ Len(t) = Len(s) + 1 /\ t[Len(s) + 1] = e
        /\ \A i \in 1..Len(s) : t[i] = s[i]
    OBVIOUS
  <1> HIDE DEF t
  <1>2. ASSUME NEW x \in ToSet(t) PROVE x \in ToSet(s) \cup {e}
    <2>1. PICK i \in 1..Len(t) : x = t[i]
      BY <1>1 DEF ToSet
    <2>2. i \in 1..Len(s) \/ i = Len(s) + 1
      BY <1>1, <2>1
    <2> QED
      BY <1>1, <2>1, <2>2 DEF ToSet
  <1>3. ASSUME NEW x \in ToSet(s) \cup {e} PROVE x \in ToSet(t)
    <2>1. CASE x = e
      <3>1. Len(s) + 1 \in 1..Len(t)
        BY <1>1
      <3> QED
        BY <1>1, <2>1, <3>1 DEF ToSet
    <2>2. CASE x \in ToSet(s)
      <3>1. PICK i \in 1..Len(s) : x = s[i]
        BY <2>2 DEF ToSet
      <3>2. i \in 1..Len(t)
        BY <1>1
      <3> QED
        BY <1>1, <3>1, <3>2 DEF ToSet
    <2> QED
      BY <2>1, <2>2
  <1>4. t # <<>> /\ (s # <<>> => Head(t) = Head(s))
    BY <1>1
  <1> QED
    BY <1>1, <1>2, <1>3, <1>4 DEF t

\* The front of such a list is nowhere else in it.
LEMMA TailKeeps ==
    ASSUME NEW S, NEW s \in Seq(S), s # <<>>, Distinct(s)
    PROVE  /\ Tail(s) \in Seq(S) /\ Distinct(Tail(s))
           /\ Head(s) \in ToSet(s) /\ Head(s) \in S
           /\ ToSet(Tail(s)) = ToSet(s) \ {Head(s)}
  <1> DEFINE t == Tail(s)
  <1>1. /\ t \in Seq(S) /\ Len(s) \in Nat /\ Len(s) >= 1
        /\ Len(t) = Len(s) - 1 /\ Head(s) = s[1] /\ 1 \in 1..Len(s) /\ s[1] \in S
        /\ \A i \in 1..Len(t) : t[i] = s[i + 1] /\ i + 1 \in 1..Len(s) /\ i + 1 # 1
        /\ DOMAIN s = 1..Len(s) /\ DOMAIN t = 1..Len(t)
    OBVIOUS
  <1>2. \A i, j \in 1..Len(s) : s[i] = s[j] => i = j
    BY <1>1 DEF Distinct
  <1> HIDE DEF t
  <1>3. ASSUME NEW i \in 1..Len(t), NEW j \in 1..Len(t), t[i] = t[j]
        PROVE  i = j
    <2>1. i + 1 = j + 1
      BY <1>1, <1>2, <1>3
    <2> QED
      BY <1>1, <2>1
  <1>4. ASSUME NEW x \in ToSet(t)
        PROVE  x \in ToSet(s) /\ x # Head(s)
    <2>1. PICK i \in 1..Len(t) : x = t[i]
      BY <1>1 DEF ToSet
    <2> QED
      BY <1>1, <1>2, <2>1 DEF ToSet
  <1>5. ASSUME NEW x \in ToSet(s), x # Head(s)
        PROVE  x \in ToSet(t)
    <2>1. PICK i \in 1..Len(s) : x = s[i]
      BY <1>1 DEF ToSet
    <2>2. i # 1
      BY <1>1, <1>5, <2>1
    <2>3. i - 1 \in 1..Len(t) /\ (i - 1) + 1 = i
      BY <1>1, <2>1, <2>2
    <2> QED
      BY <1>1, <2>1, <2>3 DEF ToSet
  <1>6. Distinct(t)
    BY <1>1, <1>3 DEF Distinct
  <1>7. Head(s) \in ToSet(s)
    BY <1>1 DEF ToSet
  <1> QED
    BY <1>1, <1>4, <1>5, <1>6, <1>7 DEF t

\* push_back of what is not in the list.
LEMMA AppendDistinct ==
    ASSUME NEW S, NEW s \in Seq(S), NEW e \in S, Distinct(s), e \notin ToSet(s)
    PROVE  Distinct(Append(s, e))
  <1> DEFINE t == Append(s, e)
  <1>1. /\ Len(s) \in Nat /\ Len(t) = Len(s) + 1 /\ t[Len(s) + 1] = e
        /\ \A i \in 1..Len(s) : t[i] = s[i]
        /\ DOMAIN s = 1..Len(s) /\ DOMAIN t = 1..Len(t)
    OBVIOUS
  <1> HIDE DEF t
  <1>2. \A i \in 1..Len(s) : s[i] # e
    BY <1>1 DEF ToSet
  <1>3. \A i, j \in 1..Len(s) : s[i] = s[j] => i = j
    BY <1>1 DEF Distinct
  <1>4. ASSUME NEW i \in 1..Len(t), NEW j \in 1..Len(t), t[i] = t[j]
        PROVE  i = j
    <2>1. i \in 1..Len(s) \/ i = Len(s) + 1
      BY <1>1
    <2>2. j \in 1..Len(s) \/ j = Len(s) + 1
      BY <1>1
    <2> QED
      BY <1>1, <1>2, <1>3, <1>4, <2>1, <2>2
  <1>5. Distinct(t)
    BY <1>1, <1>4 DEF Distinct
  <1> QED
    BY <1>5 DEF t

\* Erase of the one match.
LEMMA EraseDistinct ==
    ASSUME NEW S, NEW s \in Seq(S), NEW e, Distinct(s)
    PROVE  /\ RemoveFirst(s, e) \in Seq(S) /\ Distinct(RemoveFirst(s, e))
           /\ ToSet(RemoveFirst(s, e)) = ToSet(s) \ {e}
           /\ s = <<>> => RemoveFirst(s, e) = <<>>
  <1>1. CASE \A i \in 1..Len(s) : s[i] # e
    <2>1. RemoveFirst(s, e) = s
      BY <1>1 DEF RemoveFirst
    <2>2. e \notin ToSet(s)
      BY <1>1 DEF ToSet
    <2> QED
      BY <2>1, <2>2
  <1>2. CASE \E i \in 1..Len(s) : s[i] = e
    <2>1. PICK k \in 1..Len(s) : s[k] = e
      BY <1>2
    <2>2. \A i \in 1..Len(s) : s[i] = e => i = k
      BY <2>1 DEF Distinct
    <2>3. RemoveFirst(s, e) = RemoveAt(s, k)
      <3>1. {i \in 1..Len(s) : s[i] = e} = {k}
        BY <2>1, <2>2
      <3>2. Min({k}) = k
        BY <2>1 DEF Min
      <3>3. SelectInSeq(s, LAMBDA v : v = e) = Min({i \in 1..Len(s) : s[i] = e})
        BY <3>1 DEF SelectInSeq
      <3> QED
        BY <1>2, <3>1, <3>2, <3>3 DEF RemoveFirst
    <2> DEFINE t == RemoveAt(s, k)
               old(i) == IF i < k THEN i ELSE i + 1
    <2>4. /\ t \in Seq(S) /\ Len(t) = Len(s) - 1 /\ Len(s) \in Nat
          /\ \A i \in 1..Len(t) : t[i] = s[old(i)]
      <3> DEFINE a == SubSeq(s, 1, k - 1)
                 b == SubSeq(s, k + 1, Len(s))
      <3>1. /\ a \in Seq(S) /\ Len(a) = k - 1
            /\ \A i \in 1..(k - 1) : a[i] = s[i]
        BY <2>1, SubSeqProperties
      <3>2. /\ b \in Seq(S) /\ Len(b) = Len(s) - k
            /\ \A i \in 1..(Len(s) - k) : b[i] = s[k + i]
        BY <2>1, SubSeqProperties
      <3>3. t = a \o b
        BY DEF RemoveAt
      <3> HIDE DEF a, b, t
      <3>4. /\ t \in Seq(S) /\ Len(t) = Len(a) + Len(b)
            /\ \A i \in 1..(Len(a) + Len(b)) : t[i] = IF i <= Len(a) THEN a[i] ELSE b[i - Len(a)]
        BY <3>1, <3>2, <3>3, ConcatProperties
      <3>5. Len(t) = Len(s) - 1 /\ Len(s) \in Nat
        BY <2>1, <3>1, <3>2, <3>4
      <3>6. ASSUME NEW i \in 1..Len(t) PROVE t[i] = s[old(i)]
        <4>1. CASE i < k
          BY <2>1, <3>1, <3>2, <3>4, <3>5, <4>1
        <4>2. CASE i >= k
          <5>1. i - (k - 1) \in 1..(Len(s) - k) /\ k + (i - (k - 1)) = i + 1
            BY <2>1, <3>5, <4>2
          <5>2. t[i] = b[i - (k - 1)]
            BY <2>1, <3>1, <3>2, <3>4, <3>5, <4>2
          <5> QED
            BY <2>1, <3>2, <4>2, <5>1, <5>2
        <4> QED
          BY <2>1, <3>5, <4>1, <4>2
      <3> QED
        BY <3>4, <3>5, <3>6
    <2> HIDE DEF t
    <2>5. \A i \in 1..Len(t) : old(i) \in 1..Len(s) /\ old(i) # k
      BY <2>1, <2>4
    <2>6. Distinct(t)
      <3>1. SUFFICES ASSUME NEW i \in 1..Len(t), NEW j \in 1..Len(t), t[i] = t[j]
                     PROVE  i = j
        BY <2>4 DEF Distinct
      <3>2. old(i) = old(j)
        <4>1. s[old(i)] = s[old(j)] /\ old(i) \in DOMAIN s /\ old(j) \in DOMAIN s
          BY <2>4, <2>5, <3>1
        <4> HIDE DEF old
        <4> QED
          BY <4>1 DEF Distinct
      <3> QED
        BY <2>1, <2>4, <3>2
    <2>7. ASSUME NEW x \in ToSet(t) PROVE x \in ToSet(s) /\ x # e
      <3>1. PICK i \in 1..Len(t) : x = t[i]
        BY <2>4 DEF ToSet
      <3>2. x = s[old(i)] /\ old(i) \in 1..Len(s) /\ old(i) # k
        BY <2>4, <2>5, <3>1
      <3> HIDE DEF old
      <3> QED
        BY <2>2, <3>2 DEF ToSet
    <2>8. ASSUME NEW x \in ToSet(s), x # e PROVE x \in ToSet(t)
      <3>1. PICK i \in 1..Len(s) : x = s[i]
        BY DEF ToSet
      <3>2. PICK j \in 1..Len(t) : old(j) = i
        <4>1. i # k
          BY <2>1, <2>8, <3>1
        <4>2. CASE i < k
          BY <2>1, <2>4, <4>2
        <4>3. CASE i > k
          <5>1. i - 1 \in 1..Len(t) /\ old(i - 1) = i
            BY <2>1, <2>4, <4>3
          <5> QED
            BY <5>1
        <4> QED
          BY <2>1, <4>1, <4>2, <4>3
      <3> HIDE DEF old
      <3> QED
        BY <2>4, <3>1, <3>2 DEF ToSet
    <2>9. s # <<>>
      BY <2>1
    <2> QED
      BY <2>3, <2>4, <2>6, <2>7, <2>8, <2>9 DEF t
  <1> QED
    BY <1>1, <1>2

\* A list is empty if and only if it has no elements.
LEMMA EmptyList ==
    ASSUME NEW S, NEW s \in Seq(S)
    PROVE  s = <<>> <=> ToSet(s) = {}
  <1>1. ASSUME s # <<>>
        PROVE  ToSet(s) # {}
    <2>1. 1 \in DOMAIN s
      BY <1>1
    <2>2. s[1] \in ToSet(s)
      BY <2>1 DEF ToSet
    <2> QED
      BY <2>2
  <1> QED
    BY <1>1 DEF ToSet

-----------------------------------------------------------------------------
(* The inductive invariant                                                 *)

\* The places in which a thread holds m_leaderLock beyond a step.
Locked == {"setting", "removing", "leaving", "ending"}

\* m_leaderLock is held by the one thread that is between its two steps.
LockInv ==
    /\ lock # NoThread => pc[lock] \in Locked
    /\ \A t \in Threads : pc[t] \in Locked => lock = t

\* The listener of the Event is one of the threads.
ListenerInv == listener \in Threads \cup {NoThread}

\* A thread is in the list from the step in which it finds a leader until it
\* is elected or gives up, and it is the leader from then on.
ListInv ==
    /\ \A t \in ToSet(followers) : pc[t] \in {"setting", "waiting"} /\ t # leader
    /\ \A t \in Threads :
          /\ pc[t] = "setting" => t \in ToSet(followers)
          /\ pc[t] = "waiting" => t \in ToSet(followers) \/ leader = t

\* Whoever goes to the reactor is the leader, unless its wait timed out.
RoleInv ==
    \A t \in Threads :
        /\ pc[t] = "removing" => leader = t
        /\ pc[t] = "leaving" => expired
        /\ pc[t] \in {"leading", "polling"} => leader = t \/ expired

\* Who leads: nobody only when nobody follows.
LeaderInv ==
    /\ followers # <<>> => leader # NoThread
    /\ leader # NoThread =>
        \/ pc[leader] \in {"leading", "polling", "removing", "leaving", "ending"}
        \/ pc[leader] = "waiting" /\ (leader \in signalled \/ expired)

IInv == TypeOK /\ LockInv /\ ListenerInv /\ ListInv /\ RoleInv /\ LeaderInv

-----------------------------------------------------------------------------
(* What the invariant says of the list                                     *)

\* Its elements are threads, each once.
LEMMA FollowersFacts ==
    ASSUME TypeOK
    PROVE  /\ followers \in Seq(Threads) /\ Distinct(followers)
           /\ ToSet(followers) \subseteq Threads
           /\ followers = <<>> <=> ToSet(followers) = {}
  <1>1. followers \in Seq(Threads) /\ Distinct(followers)
    BY DEF TypeOK, Distinct
  <1>2. ToSet(followers) \subseteq Threads
    BY <1>1 DEF ToSet
  <1> QED
    BY <1>1, <1>2, EmptyList

\* The parts of the type invariant that a change of the list concerns.
LEMMA FollowersType ==
    ASSUME followers' \in Seq(Threads), Distinct(followers'), TypeOK,
           leader' \in Threads \cup {NoThread}, signalled' \subseteq Threads,
           lock' \in Threads \cup {NoThread}, events' \in 0 .. MaxEvents,
           pc' \in [Threads -> {"none", "top", "setting", "waiting", "removing", "leaving",
                                "ending", "leading", "polling", "upcall", "returned", "thrown"}]
    PROVE  TypeOK'
  BY DEF TypeOK, Distinct

\* electNewLeader, when nobody is between the two steps of joining: the first
\* follower is taken out, becomes the leader and is signalled.
LEMMA ElectFacts ==
    ASSUME TypeOK, ListInv, LeaderInv, NEW t \in Threads, ElectNewLeader(t),
           pc[t] \notin {"setting", "waiting"}
    PROVE  /\ followers' \in Seq(Threads) /\ Distinct(followers')
           /\ leader' \in Threads \cup {NoThread} /\ leader' # t
           /\ signalled' \subseteq Threads /\ signalled \subseteq signalled'
           /\ leader # t => leader' = leader /\ ToSet(followers') = ToSet(followers)
           /\ leader = t /\ leader' # NoThread =>
                 /\ leader' \in ToSet(followers) /\ leader' \in signalled'
                 /\ ToSet(followers') = ToSet(followers) \ {leader'}
           /\ leader = t /\ leader' = NoThread => ToSet(followers) = {} /\ ToSet(followers') = {}
           /\ followers' # <<>> => leader' # NoThread
  <1>1. /\ followers \in Seq(Threads) /\ Distinct(followers)
        /\ ToSet(followers) \subseteq Threads
        /\ followers = <<>> <=> ToSet(followers) = {}
        /\ leader \in Threads \cup {NoThread} /\ signalled \subseteq Threads
        /\ t \notin ToSet(followers)
    BY FollowersFacts DEF TypeOK, ListInv
  <1>2. CASE leader # t
    BY <1>1, <1>2 DEF ElectNewLeader, lfVars, LeaderInv
  <1>3. CASE leader = t /\ followers = <<>>
    BY <1>1, <1>3, ThreadAssumption DEF ElectNewLeader, lfVars, Threads, Workers
  <1>4. CASE leader = t /\ followers # <<>>
    <2>1. /\ leader' = Head(followers) /\ followers' = Tail(followers)
          /\ signalled' = signalled \cup {Head(followers)}
      BY <1>4 DEF ElectNewLeader
    <2>2. /\ Tail(followers) \in Seq(Threads) /\ Distinct(Tail(followers))
          /\ Head(followers) \in ToSet(followers)
          /\ ToSet(Tail(followers)) = ToSet(followers) \ {Head(followers)}
      BY <1>1, <1>4, TailKeeps
    <2>3. Head(followers) # NoThread
      BY <1>1, <2>2, ThreadAssumption DEF Threads, Workers
    <2> QED
      BY ONLY <1>1, <1>4, <2>1, <2>2, <2>3
  <1> QED
    BY <1>2, <1>3, <1>4

-----------------------------------------------------------------------------
(* One lemma for each step                                                 *)

\* A thread leads, or goes to the end of the list.
LEMMA JoinInv ==
    ASSUME IInv, NEW t \in Threads, Join(t)
    PROVE  IInv'
  <1> USE ThreadAssumption DEF Locked, Goto, lfVars, eventVars, poolVars
  <1>f. /\ ToSet(followers) \subseteq Threads /\ NoThread \notin Threads
        /\ followers = <<>> <=> ToSet(followers) = {}
    BY FollowersFacts DEF IInv, Threads, Workers
  <1>a. /\ pc[t] = "top" /\ lock = NoThread /\ t \notin ToSet(followers)
        /\ UNCHANGED <<signalled, listener, expired, events>>
    BY DEF Join, BecomeLeader, IInv, ListInv
  <1>e. /\ UNCHANGED <<signalled, listener, expired, events>>
        /\ pc[t] = "top" /\ lock = NoThread /\ t \notin ToSet(followers)
        /\ followers' \in Seq(Threads) /\ Distinct(followers')
        /\ \/ /\ leader = NoThread /\ leader' = t /\ lock' = NoThread
              /\ pc' = [pc EXCEPT ![t] = "leading"]
              /\ followers' = followers
           \/ /\ leader # NoThread /\ leader' = leader
              /\ ToSet(followers') = ToSet(followers) \cup {t}
              /\ \/ pc' = [pc EXCEPT ![t] = "waiting"] /\ lock' = NoThread
                 \/ pc' = [pc EXCEPT ![t] = "setting"] /\ lock' = t
    <2>1. followers \in Seq(Threads) /\ Distinct(followers)
      BY FollowersFacts DEF IInv
    <2>2. CASE leader = NoThread
      BY <1>a, <2>1, <2>2 DEF Join, BecomeLeader
    <2>3. CASE leader # NoThread
      <3>1. followers' = Append(followers, t)
        BY <2>3 DEF Join, BecomeLeader
      <3>2. /\ followers' \in Seq(Threads) /\ Distinct(followers')
            /\ ToSet(followers') = ToSet(followers) \cup {t}
        BY <1>a, <2>1, <3>1, AppendKeeps, AppendDistinct
      <3> QED
        BY <1>a, <2>3, <3>2 DEF Join, BecomeLeader
    <2> QED
      BY <2>2, <2>3
  <1>1. TypeOK'
    BY <1>f, <1>e, FollowersType DEF IInv, TypeOK
  <1>2. LockInv'
    BY <1>f, <1>e DEF IInv, TypeOK, LockInv, ListInv, RoleInv, LeaderInv
  <1>3. ListenerInv'
    BY <1>f, <1>e DEF IInv, TypeOK, LockInv, ListenerInv, ListInv, RoleInv, LeaderInv
  <1>4. ListInv'
    BY <1>f, <1>e DEF IInv, TypeOK, LockInv, ListInv, RoleInv, LeaderInv
  <1>5. RoleInv'
    BY <1>f, <1>e DEF IInv, TypeOK, LockInv, ListInv, RoleInv, LeaderInv
  <1>6. LeaderInv'
    BY <1>f, <1>e DEF IInv, TypeOK, LockInv, ListInv, RoleInv, LeaderInv
  <1> QED
    BY <1>1, <1>2, <1>3, <1>4, <1>5, <1>6 DEF IInv

\* A waiter registers itself with the Event.
LEMMA SetListenerInv ==
    ASSUME IInv, NEW t \in Threads, SetListener(t)
    PROVE  IInv'
  <1> USE ThreadAssumption DEF Locked, Goto, lfVars, eventVars, poolVars
  <1>f. /\ ToSet(followers) \subseteq Threads /\ NoThread \notin Threads
        /\ followers = <<>> <=> ToSet(followers) = {}
    BY FollowersFacts DEF IInv, Threads, Workers
  <1>1. TypeOK'
    BY <1>f DEF IInv, TypeOK, SetListener, LockInv, ListInv, LeaderInv, RoleInv
  <1>2. LockInv'
    BY <1>f DEF IInv, TypeOK, SetListener, LockInv, ListInv, LeaderInv, RoleInv
  <1>3. ListenerInv'
    BY <1>f DEF IInv, TypeOK, SetListener, ListenerInv, LockInv, ListInv, LeaderInv, RoleInv
  <1>4. ListInv'
    BY <1>f DEF IInv, TypeOK, SetListener, ListInv, LockInv, LeaderInv, RoleInv
  <1>5. RoleInv'
    BY <1>f DEF IInv, TypeOK, SetListener, RoleInv, LockInv, ListInv, LeaderInv
  <1>6. LeaderInv'
    BY <1>f DEF IInv, TypeOK, SetListener, LeaderInv, LockInv, ListInv, RoleInv
  <1> QED
    BY <1>1, <1>2, <1>3, <1>4, <1>5, <1>6 DEF IInv

\* A follower has been signalled.
LEMMA WakeInv ==
    ASSUME IInv, NEW t \in Threads, Wake(t)
    PROVE  IInv'
  <1> USE ThreadAssumption DEF Locked, Goto, lfVars, eventVars, poolVars
  <1>f. /\ ToSet(followers) \subseteq Threads /\ NoThread \notin Threads
        /\ followers = <<>> <=> ToSet(followers) = {}
    BY FollowersFacts DEF IInv, Threads, Workers
  <1>e. /\ pc[t] = "waiting" /\ t \in signalled /\ lock = NoThread
        /\ signalled' = signalled \ {t}
        /\ UNCHANGED <<leader, listener, expired, events>>
        /\ followers' \in Seq(Threads) /\ Distinct(followers')
        /\ \/ /\ ToSet(followers') = ToSet(followers) \ {t} /\ lock' = t
              /\ pc' = [pc EXCEPT ![t] = "ending"]
           \/ leader \notin {NoThread, t} /\ followers' = followers /\ UNCHANGED <<pc, lock>>
           \/ /\ leader \in {NoThread, t} /\ followers' = followers
              /\ \/ pc' = [pc EXCEPT ![t] = "leading"] /\ lock' = NoThread
                 \/ pc' = [pc EXCEPT ![t] = "removing"] /\ lock' = t
    <2>1. followers \in Seq(Threads) /\ Distinct(followers)
      BY FollowersFacts DEF IInv
    <2>2. /\ Without(t) \in Seq(Threads) /\ Distinct(Without(t))
          /\ ToSet(Without(t)) = ToSet(followers) \ {t}
      BY <2>1, EraseDistinct DEF Without
    <2> QED
      BY <2>1, <2>2 DEF Wake
  <1>1. TypeOK'
    BY <1>f, <1>e, FollowersType DEF IInv, TypeOK
  <1>2. LockInv'
    BY <1>f, <1>e DEF IInv, TypeOK, LockInv, ListInv, RoleInv, LeaderInv
  <1>3. ListenerInv'
    BY <1>f, <1>e DEF IInv, TypeOK, LockInv, ListenerInv, ListInv, RoleInv, LeaderInv
  <1>4. ListInv'
    BY <1>f, <1>e DEF IInv, TypeOK, LockInv, ListInv, RoleInv, LeaderInv
  <1>5. RoleInv'
    BY <1>f, <1>e DEF IInv, TypeOK, LockInv, ListInv, RoleInv, LeaderInv
  <1>6. LeaderInv'
    BY <1>f, <1>e DEF IInv, TypeOK, LockInv, ListInv, RoleInv, LeaderInv
  <1> QED
    BY <1>1, <1>2, <1>3, <1>4, <1>5, <1>6 DEF IInv

\* A waiter gives up.
LEMMA WaitTimeoutInv ==
    ASSUME IInv, NEW t \in Threads, WaitTimeout(t)
    PROVE  IInv'
  <1> USE ThreadAssumption DEF Locked, Goto, lfVars, eventVars, poolVars
  <1>f. /\ ToSet(followers) \subseteq Threads /\ NoThread \notin Threads
        /\ followers = <<>> <=> ToSet(followers) = {}
    BY FollowersFacts DEF IInv, Threads, Workers
  <1>e. /\ pc[t] = "waiting" /\ expired /\ lock = NoThread /\ lock' = t
        /\ signalled' = signalled \ {t}
        /\ UNCHANGED <<leader, listener, expired, events>>
        /\ pc' = [pc EXCEPT ![t] = "leaving"]
        /\ followers' \in Seq(Threads) /\ Distinct(followers')
        /\ ToSet(followers') = ToSet(followers) \ {t}
        /\ followers = <<>> => followers' = <<>>
    <2>1. followers \in Seq(Threads) /\ Distinct(followers)
      BY FollowersFacts DEF IInv
    <2> QED
      BY <2>1, EraseDistinct DEF WaitTimeout, Without
  <1>1. TypeOK'
    BY <1>f, <1>e, FollowersType DEF IInv, TypeOK
  <1>2. LockInv'
    BY <1>f, <1>e DEF IInv, TypeOK, LockInv, ListInv, RoleInv, LeaderInv
  <1>3. ListenerInv'
    BY <1>f, <1>e DEF IInv, TypeOK, LockInv, ListenerInv, ListInv, RoleInv, LeaderInv
  <1>4. ListInv'
    BY <1>f, <1>e DEF IInv, TypeOK, LockInv, ListInv, RoleInv, LeaderInv
  <1>5. RoleInv'
    BY <1>f, <1>e DEF IInv, TypeOK, LockInv, ListInv, RoleInv, LeaderInv
  <1>6. LeaderInv'
    BY <1>f, <1>e DEF IInv, TypeOK, LockInv, ListInv, RoleInv, LeaderInv
  <1> QED
    BY <1>1, <1>2, <1>3, <1>4, <1>5, <1>6 DEF IInv

\* A waiter leaves becomeLeader.
LEMMA RemoveListenerInv ==
    ASSUME IInv, NEW t \in Threads, RemoveListener(t)
    PROVE  IInv'
  <1> USE ThreadAssumption DEF Locked, Goto, lfVars, eventVars, poolVars
  <1>f. /\ ToSet(followers) \subseteq Threads /\ NoThread \notin Threads
        /\ followers = <<>> <=> ToSet(followers) = {}
    BY FollowersFacts DEF IInv, Threads, Workers
  <1>e. /\ pc[t] \in {"removing", "leaving", "ending"} /\ lock = t
        /\ listener' = NoThread /\ lock' = NoThread /\ UNCHANGED <<expired, events>>
        /\ followers' \in Seq(Threads) /\ Distinct(followers')
        /\ \/ /\ pc[t] = "removing" /\ pc' = [pc EXCEPT ![t] = "leading"]
              /\ UNCHANGED <<leader, followers, signalled>>
           \/ /\ pc[t] \in {"leaving", "ending"}
              /\ \/ pc' = [pc EXCEPT ![t] = "returned"]
                 \/ pc[t] = "leaving" /\ pc' = [pc EXCEPT ![t] = "leading"]
                 \/ pc' = [pc EXCEPT ![t] = "thrown"]
              /\ leader' \in Threads \cup {NoThread} /\ leader' # t
              /\ signalled' \subseteq Threads /\ signalled \subseteq signalled'
              /\ leader # t => leader' = leader /\ ToSet(followers') = ToSet(followers)
              /\ leader = t /\ leader' # NoThread =>
                    /\ leader' \in ToSet(followers) /\ leader' \in signalled'
                    /\ ToSet(followers') = ToSet(followers) \ {leader'}
              /\ leader = t /\ leader' = NoThread =>
                    ToSet(followers) = {} /\ ToSet(followers') = {}
              /\ followers' # <<>> => leader' # NoThread
    <2>1. CASE pc[t] = "removing"
      <3>1. followers \in Seq(Threads) /\ Distinct(followers)
        BY FollowersFacts DEF IInv
      <3> QED
        BY <2>1, <3>1 DEF RemoveListener, IInv, LockInv
    <2>2. CASE pc[t] # "removing"
      <3>1. ElectNewLeader(t) /\ pc[t] \in {"leaving", "ending"} /\ lock = t
        BY <2>2 DEF RemoveListener, IInv, LockInv
      <3>2. \/ pc' = [pc EXCEPT ![t] = "returned"]
            \/ pc[t] = "leaving" /\ pc' = [pc EXCEPT ![t] = "leading"]
            \/ pc' = [pc EXCEPT ![t] = "thrown"]
        BY <2>2 DEF RemoveListener
      <3> QED
        BY <3>1, <3>2, ElectFacts DEF RemoveListener, IInv
    <2> QED
      BY <2>1, <2>2
  <1>1. TypeOK'
    BY <1>f, <1>e, FollowersType DEF IInv, TypeOK
  <1>2. LockInv'
    BY <1>f, <1>e DEF IInv, TypeOK, LockInv, ListInv, RoleInv, LeaderInv
  <1>3. ListenerInv'
    BY <1>f, <1>e DEF IInv, TypeOK, LockInv, ListenerInv, ListInv, RoleInv, LeaderInv
  <1>4. ListInv'
    BY <1>f, <1>e DEF IInv, TypeOK, LockInv, ListInv, RoleInv, LeaderInv
  <1>5. RoleInv'
    BY <1>f, <1>e DEF IInv, TypeOK, LockInv, ListInv, RoleInv, LeaderInv
  <1>6. LeaderInv'
    BY <1>f, <1>e DEF IInv, TypeOK, LockInv, ListInv, RoleInv, LeaderInv
  <1> QED
    BY <1>1, <1>2, <1>3, <1>4, <1>5, <1>6 DEF IInv

\* The leader goes to the reactor.
LEMMA LeadInv ==
    ASSUME IInv, NEW t \in Threads, Lead(t)
    PROVE  IInv'
  <1> USE ThreadAssumption DEF Locked, Goto, lfVars, eventVars, poolVars
  <1>f. /\ ToSet(followers) \subseteq Threads /\ NoThread \notin Threads
        /\ followers = <<>> <=> ToSet(followers) = {}
    BY FollowersFacts DEF IInv, Threads, Workers
  <1>e. /\ pc[t] = "leading" /\ lock = NoThread
        /\ UNCHANGED <<lock, listener, expired, events>>
        /\ followers' \in Seq(Threads) /\ Distinct(followers')
        /\ \/ /\ pc' = [pc EXCEPT ![t] = "polling"]
              /\ UNCHANGED <<leader, followers, signalled>>
           \/ /\ pc' = [pc EXCEPT ![t] = "returned"]
              /\ leader' \in Threads \cup {NoThread} /\ leader' # t
              /\ signalled' \subseteq Threads /\ signalled \subseteq signalled'
              /\ leader # t => leader' = leader /\ ToSet(followers') = ToSet(followers)
              /\ leader = t /\ leader' # NoThread =>
                    /\ leader' \in ToSet(followers) /\ leader' \in signalled'
                    /\ ToSet(followers') = ToSet(followers) \ {leader'}
              /\ leader = t /\ leader' = NoThread =>
                    ToSet(followers) = {} /\ ToSet(followers') = {}
              /\ followers' # <<>> => leader' # NoThread
    <2>1. followers \in Seq(Threads) /\ Distinct(followers)
      BY FollowersFacts DEF IInv
    <2>2. CASE UNCHANGED lfVars /\ Goto(t, "polling")
      BY <2>1, <2>2 DEF Lead
    <2>3. CASE ElectNewLeader(t) /\ Goto(t, "returned")
      BY <2>3, ElectFacts DEF Lead, IInv
    <2> QED
      BY <2>2, <2>3 DEF Lead
  <1>1. TypeOK'
    BY <1>f, <1>e, FollowersType DEF IInv, TypeOK
  <1>2. LockInv'
    BY <1>f, <1>e DEF IInv, TypeOK, LockInv, ListInv, RoleInv, LeaderInv
  <1>3. ListenerInv'
    BY <1>f, <1>e DEF IInv, TypeOK, LockInv, ListenerInv, ListInv, RoleInv, LeaderInv
  <1>4. ListInv'
    BY <1>f, <1>e DEF IInv, TypeOK, LockInv, ListInv, RoleInv, LeaderInv
  <1>5. RoleInv'
    BY <1>f, <1>e DEF IInv, TypeOK, LockInv, ListInv, RoleInv, LeaderInv
  <1>6. LeaderInv'
    BY <1>f, <1>e DEF IInv, TypeOK, LockInv, ListInv, RoleInv, LeaderInv
  <1> QED
    BY <1>1, <1>2, <1>3, <1>4, <1>5, <1>6 DEF IInv

\* The leader makes way and handles an event.
LEMMA DispatchInv ==
    ASSUME IInv, NEW t \in Threads, Dispatch(t)
    PROVE  IInv'
  <1> USE ThreadAssumption DEF Locked, Goto, lfVars, eventVars, poolVars
  <1>f. /\ ToSet(followers) \subseteq Threads /\ NoThread \notin Threads
        /\ followers = <<>> <=> ToSet(followers) = {}
    BY FollowersFacts DEF IInv, Threads, Workers
  <1>e. /\ followers' \in Seq(Threads) /\ Distinct(followers')
        /\ leader' \in Threads \cup {NoThread} /\ leader' # t
        /\ signalled' \subseteq Threads /\ signalled \subseteq signalled'
        /\ leader # t => leader' = leader /\ ToSet(followers') = ToSet(followers)
        /\ leader = t /\ leader' # NoThread =>
              /\ leader' \in ToSet(followers) /\ leader' \in signalled'
              /\ ToSet(followers') = ToSet(followers) \ {leader'}
        /\ leader = t /\ leader' = NoThread => ToSet(followers) = {} /\ ToSet(followers') = {}
        /\ followers' # <<>> => leader' # NoThread
    BY ElectFacts DEF IInv, Dispatch
  <1>1. TypeOK'
    BY <1>f, <1>e, FollowersType DEF IInv, TypeOK, Dispatch
  <1>2. LockInv'
    BY <1>f, <1>e DEF IInv, TypeOK, Dispatch, LockInv, ListInv, LeaderInv
  <1>3. ListenerInv'
    BY <1>f, <1>e DEF IInv, TypeOK, Dispatch, ListenerInv, LockInv, ListInv, LeaderInv
  <1>4. ListInv'
    BY <1>f, <1>e DEF IInv, TypeOK, Dispatch, ListInv, LockInv, LeaderInv
  <1>5. RoleInv'
    BY <1>f, <1>e DEF IInv, TypeOK, Dispatch, RoleInv, LockInv, ListInv, LeaderInv
  <1>6. LeaderInv'
    BY <1>f, <1>e DEF IInv, TypeOK, Dispatch, LeaderInv, LockInv, ListInv
  <1> QED
    BY <1>1, <1>2, <1>3, <1>4, <1>5, <1>6 DEF IInv

\* A thread comes back from the reactor.
LEMMA ReturnInv ==
    ASSUME IInv, NEW t \in Threads, Return(t)
    PROVE  IInv'
  <1> USE ThreadAssumption DEF Locked, Goto, lfVars, eventVars, poolVars
  <1>f. /\ ToSet(followers) \subseteq Threads /\ NoThread \notin Threads
        /\ followers = <<>> <=> ToSet(followers) = {}
    BY FollowersFacts DEF IInv, Threads, Workers
  <1>e. /\ followers' \in Seq(Threads) /\ Distinct(followers')
        /\ leader' \in Threads \cup {NoThread} /\ leader' # t
        /\ signalled' \subseteq Threads /\ signalled \subseteq signalled'
        /\ leader # t => leader' = leader /\ ToSet(followers') = ToSet(followers)
        /\ leader = t /\ leader' # NoThread =>
              /\ leader' \in ToSet(followers) /\ leader' \in signalled'
              /\ ToSet(followers') = ToSet(followers) \ {leader'}
        /\ leader = t /\ leader' = NoThread => ToSet(followers) = {} /\ ToSet(followers') = {}
        /\ followers' # <<>> => leader' # NoThread
    BY ElectFacts DEF IInv, Return
  <1>1. TypeOK'
    BY <1>f, <1>e, FollowersType DEF IInv, TypeOK, Return
  <1>2. LockInv'
    BY <1>f, <1>e DEF IInv, TypeOK, Return, LockInv, ListInv, LeaderInv
  <1>3. ListenerInv'
    BY <1>f, <1>e DEF IInv, TypeOK, Return, ListenerInv, LockInv, ListInv, LeaderInv
  <1>4. ListInv'
    BY <1>f, <1>e DEF IInv, TypeOK, Return, ListInv, LockInv, LeaderInv
  <1>5. RoleInv'
    BY <1>f, <1>e DEF IInv, TypeOK, Return, RoleInv, LockInv, ListInv, LeaderInv
  <1>6. LeaderInv'
    BY <1>f, <1>e DEF IInv, TypeOK, Return, LeaderInv, LockInv, ListInv
  <1> QED
    BY <1>1, <1>2, <1>3, <1>4, <1>5, <1>6 DEF IInv

\* A thread leaves the loop.
LEMMA ExitInv ==
    ASSUME IInv, NEW t \in Threads, Exit(t)
    PROVE  IInv'
  <1> USE ThreadAssumption DEF Locked, Goto, lfVars, eventVars, poolVars
  <1>f. /\ ToSet(followers) \subseteq Threads /\ NoThread \notin Threads
        /\ followers = <<>> <=> ToSet(followers) = {}
    BY FollowersFacts DEF IInv, Threads, Workers
  <1>1. TypeOK'
    BY <1>f DEF IInv, TypeOK, Exit
  <1>2. LockInv'
    BY <1>f DEF IInv, TypeOK, Exit, LockInv
  <1>3. ListenerInv'
    BY <1>f DEF IInv, TypeOK, Exit, ListenerInv
  <1>4. ListInv'
    BY <1>f DEF IInv, TypeOK, Exit, ListInv
  <1>5. RoleInv'
    BY <1>f DEF IInv, TypeOK, Exit, RoleInv
  <1>6. LeaderInv'
    BY <1>f DEF IInv, TypeOK, Exit, LeaderInv
  <1> QED
    BY <1>1, <1>2, <1>3, <1>4, <1>5, <1>6 DEF IInv

\* The Event is final.
LEMMA CompleteInv ==
    ASSUME IInv, Complete
    PROVE  IInv'
  <1> USE ThreadAssumption DEF Locked, Goto, lfVars, eventVars, poolVars
  <1>f. /\ ToSet(followers) \subseteq Threads /\ NoThread \notin Threads
        /\ followers = <<>> <=> ToSet(followers) = {}
    BY FollowersFacts DEF IInv, Threads, Workers
  <1>1. TypeOK'
    BY <1>f DEF IInv, TypeOK, Complete
  <1>2. LockInv'
    BY <1>f DEF IInv, TypeOK, Complete, LockInv
  <1>3. ListenerInv'
    BY <1>f DEF IInv, TypeOK, Complete, ListenerInv
  <1>4. ListInv'
    BY <1>f DEF IInv, TypeOK, Complete, ListInv
  <1>5. RoleInv'
    BY <1>f DEF IInv, TypeOK, Complete, RoleInv
  <1>6. LeaderInv'
    BY <1>f DEF IInv, TypeOK, Complete, LeaderInv
  <1> QED
    BY <1>1, <1>2, <1>3, <1>4, <1>5, <1>6 DEF IInv

\* The listener is told.
LEMMA FireInv ==
    ASSUME IInv, Fire
    PROVE  IInv'
  <1> USE ThreadAssumption DEF Locked, Goto, lfVars, eventVars, poolVars
  <1>f. /\ ToSet(followers) \subseteq Threads /\ NoThread \notin Threads
        /\ followers = <<>> <=> ToSet(followers) = {}
    BY FollowersFacts DEF IInv, Threads, Workers
  <1>1. TypeOK'
    BY <1>f DEF IInv, TypeOK, Fire, LockInv, ListInv, LeaderInv, RoleInv, ListenerInv
  <1>2. LockInv'
    BY <1>f DEF IInv, TypeOK, Fire, LockInv, ListInv, LeaderInv, RoleInv, ListenerInv
  <1>3. ListenerInv'
    BY <1>f DEF IInv, TypeOK, Fire, ListenerInv, LockInv, ListInv, LeaderInv, RoleInv
  <1>4. ListInv'
    BY <1>f DEF IInv, TypeOK, Fire, ListInv, LockInv, LeaderInv, RoleInv, ListenerInv
  <1>5. RoleInv'
    BY <1>f DEF IInv, TypeOK, Fire, RoleInv, LockInv, ListInv, LeaderInv, ListenerInv
  <1>6. LeaderInv'
    BY <1>f DEF IInv, TypeOK, Fire, LeaderInv, LockInv, ListInv, RoleInv, ListenerInv
  <1> QED
    BY <1>1, <1>2, <1>3, <1>4, <1>5, <1>6 DEF IInv

\* Threads are started.
LEMMA SetMaxDynamicThreadsInv ==
    ASSUME IInv, NEW n \in 1 .. MaxDynamic, SetMaxDynamicThreads(n)
    PROVE  IInv'
  <1> USE ThreadAssumption DEF Locked, Goto, lfVars, eventVars, poolVars
  <1>f. /\ ToSet(followers) \subseteq Threads /\ NoThread \notin Threads
        /\ followers = <<>> <=> ToSet(followers) = {}
    BY FollowersFacts DEF IInv, Threads, Workers
  <1>1. TypeOK'
    BY <1>f DEF IInv, TypeOK, SetMaxDynamicThreads
  <1>2. LockInv'
    BY <1>f DEF IInv, TypeOK, SetMaxDynamicThreads, LockInv
  <1>3. ListenerInv'
    BY <1>f DEF IInv, TypeOK, SetMaxDynamicThreads, ListenerInv
  <1>4. ListInv'
    BY <1>f DEF IInv, TypeOK, SetMaxDynamicThreads, ListInv
  <1>5. RoleInv'
    BY <1>f DEF IInv, TypeOK, SetMaxDynamicThreads, RoleInv
  <1>6. LeaderInv'
    BY <1>f DEF IInv, TypeOK, SetMaxDynamicThreads, LeaderInv
  <1> QED
    BY <1>1, <1>2, <1>3, <1>4, <1>5, <1>6 DEF IInv

-----------------------------------------------------------------------------
(* The invariant holds                                                     *)

LEMMA InitIInv == Init => IInv
  <1> SUFFICES ASSUME Init
               PROVE  IInv
    OBVIOUS
  <1>1. ToSet(followers) = {} /\ NoThread \notin Threads
    BY ThreadAssumption DEF Init, ToSet, Threads, Workers
  <1>2. TypeOK
    BY ThreadAssumption DEF Init, TypeOK
  <1>3. LockInv /\ ListenerInv /\ ListInv /\ RoleInv /\ LeaderInv
    BY <1>1 DEF Init, LockInv, Locked, ListenerInv, ListInv, RoleInv, LeaderInv
  <1> QED
    BY <1>2, <1>3 DEF IInv

LEMMA NextIInv == IInv /\ [Next]_vars => IInv'
  <1> SUFFICES ASSUME IInv, [Next]_vars
               PROVE  IInv'
    OBVIOUS
  <1> USE DEF lfVars, eventVars, poolVars
  <1>1. ASSUME NEW t \in Threads, ThreadStep(t)
        PROVE  IInv'
    BY <1>1, JoinInv, SetListenerInv, WakeInv, WaitTimeoutInv, RemoveListenerInv,
       LeadInv, DispatchInv, ReturnInv, ExitInv DEF ThreadStep
  <1>2. ASSUME NEW n \in 1 .. MaxDynamic, SetMaxDynamicThreads(n)
        PROVE  IInv'
    BY <1>2, SetMaxDynamicThreadsInv
  <1>3. CASE Expire \/ Arrive
    <2>1. TypeOK'
      BY <1>3, ThreadAssumption DEF Expire, Arrive, IInv, TypeOK
    <2>2. LockInv' /\ ListenerInv' /\ ListInv' /\ RoleInv' /\ LeaderInv'
      BY <1>3 DEF Expire, Arrive, IInv, LockInv, ListenerInv, ListInv, RoleInv, LeaderInv
    <2> QED
      BY <2>1, <2>2 DEF IInv
  <1>4. CASE Shutdown \/ ShutdownDone \/ UNCHANGED vars
    BY <1>4 DEF Shutdown, ShutdownDone, vars, IInv, TypeOK, LockInv, ListenerInv,
       ListInv, RoleInv, LeaderInv
  <1> QED
    BY <1>1, <1>2, <1>3, <1>4, CompleteInv, FireInv DEF Next

LEMMA IInvHolds == Spec => []IInv
  BY InitIInv, NextIInv, PTL DEF Spec

-----------------------------------------------------------------------------
(* What the pool promises                                                  *)

(***************************************************************************)
(* However many threads take part, leadership is with a thread that is on  *)
(* its way to the reactor, nobody follows when nobody leads, and only the  *)
(* leader waits at the reactor unless a timeout is over (becomeLeader,     *)
(* electNewLeader, removeFollower, join).                                  *)
(***************************************************************************)
THEOREM LeadershipIsNotLost == Spec => []LeaderIsComing
  <1>1. IInv => LeaderIsComing
    BY DEF IInv, LeaderIsComing, HandlesAsLeader, RoleInv, LeaderInv
  <1> QED
    BY <1>1, IInvHolds, PTL
=============================================================================
