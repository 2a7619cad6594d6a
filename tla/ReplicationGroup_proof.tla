----------------------- MODULE ReplicationGroup_proof -----------------------
(***************************************************************************)
(* Proofs about ReplicationGroup, for any set of peers, any list of        *)
(* recruits and any number of deaths and failed connects.                  *)
(*                                                                         *)
(* NoSplitBrain is not inductive: that two owners are never up together    *)
(* rests on what each member knows of the others.  IInv says it: lists     *)
(* are sorted by recruitment (Sorted), they hold every earlier member that *)
(* is up (KnownInv), and whoever owns the IID is its own primary           *)
(* (JoinedInv).  So an owner has nobody before it that is up.  ListInv and *)
(* AddInv say what the packets in flight may still append.                 *)
(***************************************************************************)
EXTENDS ReplicationGroup, WellFoundedInduction, SequenceTheorems, TLAPS

-----------------------------------------------------------------------------
(* The list of replicas: erase of the first match.                          *)

\* A set of naturals that is not empty has a least element.
LEMMA MinFacts ==
    ASSUME NEW T \in SUBSET Nat, T # {}
    PROVE  Min(T) \in T /\ \A y \in T : Min(T) <= y
  <1> DEFINE Less == {ss \in Nat \X Nat : ss[1] < ss[2]}
  <1>a. IsWellFoundedOn(Less, Nat)
    BY NatLessThanWellFounded, Zenon DEF OpToRel
  <1>1. PICK x \in T : \A y \in T : ~(<<y, x>> \in Less)
    <2> HIDE DEF Less
    <2> QED BY <1>a, WFMin
  <1>2. ASSUME NEW y \in T PROVE x <= y
    <2>1. ~(<<y, x>> \in Less)
      BY <1>1
    <2>2. <<y, x>> \in Less <=> y < x
      <3> DEFINE p == <<y, x>>
      <3>1. p \in Nat \X Nat /\ p[1] = y /\ p[2] = x
        OBVIOUS
      <3>2. p \in Less <=> p \in Nat \X Nat /\ p[1] < p[2]
        BY Zenon
      <3> QED
        BY <3>1, <3>2
    <2> HIDE DEF Less
    <2> QED
      BY <2>1, <2>2
  <1> QED
    BY <1>2 DEF Min

\* t is what list::erase of the first e leaves of s.
Erased(s, e, t) ==
    /\ (\A i \in 1..Len(s) : s[i] # e) => t = s
    /\ (\E i \in 1..Len(s) : s[i] = e) =>
          \E k \in 1..Len(s) :
              /\ s[k] = e
              /\ Len(t) = Len(s) - 1
              /\ \A i \in 1..(Len(s) - 1) : t[i] = IF i < k THEN s[i] ELSE s[i + 1]

\* RemoveFirst erases the first match.
LEMMA RemoveFirstFacts ==
    ASSUME NEW S, NEW s \in Seq(S), NEW e
    PROVE  RemoveFirst(s, e) \in Seq(S) /\ Erased(s, e, RemoveFirst(s, e))
  <1>1. CASE \A i \in 1..Len(s) : s[i] # e
    BY <1>1 DEF RemoveFirst, Erased
  <1>2. CASE \E i \in 1..Len(s) : s[i] = e
    <2> DEFINE I == {i \in 1..Len(s) : s[i] = e}
               k == Min(I)
               a == SubSeq(s, 1, k - 1)
               b == SubSeq(s, k + 1, Len(s))
    <2>1. k \in I
      <3>1. I \in SUBSET Nat /\ I # {}
        BY <1>2
      <3> HIDE DEF I
      <3> QED
        BY <3>1, MinFacts
    <2> HIDE DEF k
    <2>2. k \in 1..Len(s) /\ s[k] = e
      BY <2>1
    <2>3. RemoveFirst(s, e) = a \o b
      BY <1>2, <2>2 DEF RemoveFirst, RemoveAt, SelectInSeq, k
    <2>4. /\ a \in Seq(S) /\ Len(a) = k - 1
          /\ \A i \in 1..(k - 1) : a[i] = s[i]
      BY <2>2, SubSeqProperties
    <2>5. /\ b \in Seq(S) /\ Len(b) = Len(s) - k
          /\ \A i \in 1..(Len(s) - k) : b[i] = s[k + i]
      BY <2>2, SubSeqProperties
    <2> HIDE DEF a, b
    <2>6. /\ a \o b \in Seq(S)
          /\ Len(a \o b) = Len(s) - 1
          /\ \A i \in 1..(Len(s) - 1) : (a \o b)[i] = IF i < k THEN s[i] ELSE s[i + 1]
      <3>1. /\ a \o b \in Seq(S)
            /\ Len(a \o b) = Len(a) + Len(b)
            /\ \A i \in 1..(Len(a) + Len(b)) :
                  (a \o b)[i] = IF i <= Len(a) THEN a[i] ELSE b[i - Len(a)]
        BY <2>4, <2>5, ConcatProperties
      <3>2. Len(s) \in Nat
        OBVIOUS
      <3>3. ASSUME NEW i \in 1..(Len(s) - 1) PROVE (a \o b)[i] = IF i < k THEN s[i] ELSE s[i + 1]
        <4>1. CASE i < k
          BY <2>2, <2>4, <2>5, <3>1, <3>2, <4>1
        <4>2. CASE i >= k
          <5>1. i - (k - 1) \in 1..(Len(s) - k) /\ k + (i - (k - 1)) = i + 1
            BY <2>2, <3>2, <4>2
          <5>2. (a \o b)[i] = b[i - (k - 1)]
            BY <2>2, <2>4, <2>5, <3>1, <3>2, <4>2
          <5> QED
            BY <2>2, <2>5, <4>2, <5>1, <5>2
        <4>3. i < k \/ i >= k
          BY <2>2, <3>2
        <4> QED
          BY ONLY <4>1, <4>2, <4>3, Zenon
      <3> QED
        BY <2>2, <2>4, <2>5, <3>1, <3>2, <3>3
    <2> QED
      BY <1>2, <2>2, <2>3, <2>6 DEF Erased
  <1> QED
    BY <1>1, <1>2

-----------------------------------------------------------------------------
(* Types                                                                   *)

\* The recruit being dealt with is an entry of the list.
LEMMA RecruitType ==
    ASSUME TypeOK, stage \in {"control", "session", "data", "announce", "send"}
    PROVE  Recruit \in Peer /\ next \in 1..Len(Recruits)
  BY RecruitsAssumption DEF TypeOK, Recruit

\* Going on to the next recruit keeps the index in the list.
LEMMA NextRecruitType ==
    ASSUME TypeOK, NextRecruit,
           stage \in {"control", "session", "data", "announce", "send"}
    PROVE  /\ stage' \in {"control", "done"}
           /\ next' \in 1..(Len(Recruits) + 1)
           /\ stage' = "control" => next' <= Len(Recruits)
  BY RecruitType, RecruitsAssumption DEF NextRecruit, TypeOK, Stages

\* Registering one more channel, or none, keeps the channel tables' type.
LEMMA RegisterType ==
    ASSUME TypeOK, NEW p \in Peer, NEW q \in Peer,
           control' = [control EXCEPT ![p] = @ \cup {q}] \/ UNCHANGED control
    PROVE  control' \in [Peer -> SUBSET Peer]
  <1>1. control \in [Peer -> SUBSET Peer]
    BY DEF TypeOK
  <1>2. control[p] \cup {q} \in SUBSET Peer
    BY <1>1
  <1> QED
    BY <1>1, <1>2

LEMMA InitTypeOK == Init => TypeOK
  BY RecruitsAssumption, BoundsAssumption, NoPeerAssumption
  DEF Init, TypeOK, Stages, AddSteps

LEMMA FormTypeOK == TypeOK /\ Form => TypeOK'
  <1> SUFFICES ASSUME TypeOK, Form PROVE TypeOK'
    OBVIOUS
  <1> USE RecruitsAssumption, BoundsAssumption, NoPeerAssumption
      DEF envVars, viewVars, netVars, formVars, addVars,
          PushBack, InitList, Registered, Answered, IsThisPeer
  <1>1. CASE FindResources
    <2>1. joined' \subseteq Peer
      BY <1>1 DEF FindResources, TypeOK
    <2>2. /\ stage' \in {"control", "done", "failed"}
          /\ next' \in 1..(Len(Recruits) + 1)
          /\ stage' = "control" => next' <= Len(Recruits)
      BY <1>1 DEF FindResources, TypeOK
    <2> QED
      BY <1>1, <2>1, <2>2 DEF FindResources, TypeOK, Stages
  <1>2. CASE InitSession
    <2>1. Recruit \in Peer
      BY <1>2, RecruitType DEF InitSession
    <2>2. Append(replicas[Boot], Recruit) \in Seq(Peer)
      BY <2>1 DEF TypeOK
    <2> QED
      BY <1>2, <2>1, <2>2 DEF InitSession, TypeOK, Stages
  <1>3. CASE InitConnectFails
    <2>1. bindFails' \in 0..MaxBindFail
      BY <1>3, SMTT(30) DEF InitConnectFails, ConnectFails, TypeOK
    <2>2. /\ stage' \in {"control", "done"}
          /\ next' \in 1..(Len(Recruits) + 1)
          /\ stage' = "control" => next' <= Len(Recruits)
      BY <1>3, NextRecruitType DEF InitConnectFails
    <2> QED
      BY <1>3, <2>1, <2>2 DEF InitConnectFails, TypeOK, Stages
  <1>4. CASE RegisterSession
    <2>1. control' \in [Peer -> SUBSET Peer]
      BY <1>4, RecruitType, RegisterType DEF RegisterSession
    <2>2. /\ stage' \in {"control", "data", "done"}
          /\ next' \in 1..(Len(Recruits) + 1)
          /\ stage' \in {"control", "data"} => next' <= Len(Recruits)
      <3>1. next \in 1..Len(Recruits)
        BY <1>4, RecruitType DEF RegisterSession
      <3>2. CASE stage' = "data" /\ UNCHANGED next
        BY <3>1, <3>2
      <3>3. CASE NextRecruit
        BY <1>4, <3>3, NextRecruitType DEF RegisterSession
      <3> QED
        BY <1>4, <3>2, <3>3 DEF RegisterSession
    <2> QED
      BY <1>4, <2>1, <2>2 DEF RegisterSession, TypeOK, Stages
  <1>5. CASE BindData
    BY <1>5 DEF BindData, TypeOK, Stages
  <1>6. CASE BindDataFails
    BY <1>6, NextRecruitType, SMTT(30) DEF BindDataFails, ConnectFails, TypeOK, Stages
  <1>7. CASE Announce
    BY <1>7 DEF Announce, TypeOK, Stages
  <1>8. CASE PushReplica
    <2>1. Append(replicas[Boot], Recruit) \in Seq(Peer)
      BY <1>8, RecruitType DEF PushReplica, TypeOK
    <2> QED
      BY <1>8, <2>1, NextRecruitType DEF PushReplica, TypeOK, Stages
  <1>9. ASSUME NEW q \in Peer, SendAddReplica(q) PROVE TypeOK'
    <2>1. waiting' \subseteq Peer
      BY <1>9 DEF SendAddReplica, TypeOK
    <2>2. inbox' \in [Peer -> Peer \cup {NoPeer}]
      BY <1>9, RecruitType, ZenonT(40) DEF SendAddReplica, TypeOK
    <2> QED
      BY <1>9, <2>1, <2>2 DEF SendAddReplica, TypeOK, Stages
  <1>10. ASSUME NEW q \in Peer, SendAddReplicaFails(q) PROVE TypeOK'
    <2>1. RemoveFirst(replicas[Boot], q) \in Seq(Peer)
      BY RemoveFirstFacts DEF TypeOK
    <2> QED
      BY <1>10, <2>1 DEF SendAddReplicaFails, RemoveReplica, TypeOK, Stages
  <1>11. ASSUME NEW q \in Peer, ReceiveAck(q) PROVE TypeOK'
    BY <1>11 DEF ReceiveAck, TypeOK
  <1>12. ASSUME NEW q \in Peer, CancelRequests(q) PROVE TypeOK'
    BY <1>12 DEF CancelRequests, TypeOK
  <1> QED
    BY <1>1, <1>2, <1>3, <1>4, <1>5, <1>6, <1>7, <1>8, <1>9, <1>10, <1>11, <1>12
    DEF Form

LEMMA ServeTypeOK ==
    ASSUME NEW p \in Peer
    PROVE  TypeOK /\ Serve(p) => TypeOK'
  <1> SUFFICES ASSUME TypeOK, Serve(p) PROVE TypeOK'
    OBVIOUS
  <1> USE NoPeerAssumption, BoundsAssumption
      DEF envVars, viewVars, netVars, formVars, addVars,
          PushBack, InitList, Registered, Answered, IsThisPeer
  <1>1. CASE AcceptorRegister(p)
    <2>1. control' \in [Peer -> SUBSET Peer]
      <3>1. accepting[p] \in Peer
        BY <1>1 DEF AcceptorRegister, TypeOK
      <3> QED
        BY <1>1, <3>1, RegisterType DEF AcceptorRegister
    <2> QED
      BY <1>1, <2>1 DEF AcceptorRegister, TypeOK
  <1>2. CASE HandleAddReplica(p)
    BY <1>2 DEF HandleAddReplica, TypeOK, AddSteps
  <1>3. CASE PrebindSession(p)
    BY <1>3 DEF PrebindSession, TypeOK, AddSteps
  <1>4. CASE PrebindConnectFails(p)
    BY <1>4 DEF PrebindConnectFails, ConnectFails, TypeOK, AddSteps
  <1>5. CASE PrebindRegister(p)
    <2>1. control' \in [Peer -> SUBSET Peer]
      <3>1. adding[p] \in Peer
        BY <1>5 DEF PrebindRegister, TypeOK
      <3> QED
        BY <1>5, <3>1, RegisterType DEF PrebindRegister
    <2> QED
      BY <1>5, <2>1 DEF PrebindRegister, TypeOK, AddSteps
  <1>6. CASE PrebindData(p)
    <2>1. Append(replicas[p], adding[p]) \in Seq(Peer)
      BY <1>6 DEF PrebindData, TypeOK
    <2> QED
      BY <1>6, <2>1 DEF PrebindData, FinishAdd, TypeOK, AddSteps
  <1>7. CASE PrebindDataFails(p)
    BY <1>7 DEF PrebindDataFails, FinishAdd, ConnectFails, TypeOK, AddSteps
  <1> QED
    BY <1>1, <1>2, <1>3, <1>4, <1>5, <1>6, <1>7 DEF Serve

LEMMA CloseTypeOK ==
    ASSUME NEW p \in Peer
    PROVE  TypeOK /\ Close(p) => TypeOK'
  <1> SUFFICES ASSUME TypeOK, Close(p) PROVE TypeOK'
    OBVIOUS
  <1> USE NoPeerAssumption DEF envVars, viewVars, netVars, formVars, addVars,
          PushBack, InitList, Registered, Answered, IsThisPeer
  <1>1. CASE OnPeerClosure(p)
    <2>1. RemoveFirst(replicas[p], closing[p]) \in Seq(Peer)
      BY RemoveFirstFacts DEF TypeOK
    <2>2. replicas[p] # <<>> => Head(replicas[p]) \in Peer /\ Tail(replicas[p]) \in Seq(Peer)
      BY DEF TypeOK
    <2>3. /\ primaryPeer' \in [Peer -> Peer \cup {NoPeer}]
          /\ replicas' \in [Peer -> Seq(Peer)]
          /\ closed' \subseteq Peer
          /\ owner' \subseteq Peer
      <3>1. CASE primaryPeer[p] # closing[p]
        <4>1. /\ replicas' = [replicas EXCEPT ![p] = RemoveFirst(@, closing[p])]
              /\ UNCHANGED <<primaryPeer, closed, owner>>
          BY <1>1, <3>1 DEF OnPeerClosure, RemoveReplica
        <4> QED
          BY <4>1, <2>1 DEF TypeOK
      <3>2. CASE primaryPeer[p] = closing[p] /\ replicas[p] # <<>>
        <4>1. ElectFront(p)
          BY <1>1, <3>2 DEF OnPeerClosure
        <4>2. closed' \subseteq Peer /\ owner' \subseteq Peer
          BY <4>1 DEF ElectFront, TypeOK
        <4> QED
          BY <4>1, <4>2, <2>2, <3>2 DEF ElectFront, TypeOK
      <3>3. CASE primaryPeer[p] = closing[p] /\ replicas[p] = <<>>
        <4>1. closed' = closed \cup {p} /\ UNCHANGED <<primaryPeer, replicas, owner>>
          BY <1>1, <3>3 DEF OnPeerClosure
        <4> QED
          BY <4>1 DEF TypeOK
      <3> QED
        BY <3>1, <3>2, <3>3
    <2> QED
      BY <1>1, <2>3 DEF OnPeerClosure, TypeOK
  <1>2. ASSUME NEW q \in Peer, ChannelRemove(p, q) PROVE TypeOK'
    BY <1>2 DEF ChannelRemove, TypeOK
  <1> QED
    BY <1>1, <1>2 DEF Close

LEMMA NextTypeOK == TypeOK /\ [Next]_vars => TypeOK'
  <1> SUFFICES ASSUME TypeOK, [Next]_vars PROVE TypeOK'
    OBVIOUS
  <1>1. ASSUME NEW p \in Peer, Crash(p) PROVE TypeOK'
    BY <1>1, BoundsAssumption
    DEF Crash, TypeOK, viewVars, netVars, formVars, addVars
  <1>2. CASE UNCHANGED vars
    BY <1>2 DEF vars, envVars, viewVars, netVars, formVars, addVars, TypeOK
  <1> QED
    BY <1>1, <1>2, FormTypeOK, ServeTypeOK, CloseTypeOK DEF Next

\* In every reachable state the copies of the group, the channel tables, the
\* locks and the bootstrap's bookkeeping hold values of their types.
THEOREM TypeCorrect == Spec => []TypeOK
  BY InitTypeOK, NextTypeOK, PTL DEF Spec

-----------------------------------------------------------------------------
(* Ranks                                                                   *)

\* The rank of a recruit is its index in the list.
LEMMA RankRecruit ==
    ASSUME NEW i \in 1..Len(Recruits)
    PROVE  Rank(Recruits[i]) = i /\ Recruits[i] # Boot /\ Recruits[i] \in Peer
  BY RecruitsAssumption DEF Rank

\* The rank of Boot comes before all others.
LEMMA RankBoot == Rank(Boot) = 0
  BY DEF Rank

\* A peer that holds a group has a rank, which no other has and which is not
\* beyond the recruit being dealt with.
LEMMA RankJoined ==
    ASSUME TypeOK, JoinedInv
    PROVE  /\ \A p \in joined : /\ Rank(p) \in Nat
                                /\ Rank(p) < next \/ (Recruiting /\ p = Recruit)
           /\ \A p, q \in joined : Rank(p) = Rank(q) => p = q
           /\ Recruiting \/ stage = "control" =>
                 Rank(Recruit) = next /\ Recruit # Boot /\ Recruit \in Peer
           /\ next \in Nat
  <1>1. next \in Nat /\ next >= 1 /\ Len(Recruits) \in Nat
    BY RecruitsAssumption DEF TypeOK
  <1>2. ASSUME NEW p \in joined
        PROVE  p = Boot \/ \E i \in 1..Len(Recruits) : p = Recruits[i] /\ Rank(p) = i
    BY RankRecruit DEF JoinedInv
  <1>3. ASSUME NEW p \in joined
        PROVE  Rank(p) \in Nat /\ (Rank(p) < next \/ (Recruiting /\ p = Recruit))
    BY <1>1, RankRecruit, RankBoot DEF JoinedInv, Recruit
  <1>4. \A p, q \in joined : Rank(p) = Rank(q) => p = q
    BY <1>2, RankBoot
  <1>5. Recruiting \/ stage = "control" =>
           Rank(Recruit) = next /\ Recruit # Boot /\ Recruit \in Peer
    BY RecruitType, RankRecruit DEF Recruiting, Recruit
  <1> QED
    BY <1>1, <1>3, <1>4, <1>5

-----------------------------------------------------------------------------
(* What a change of a list does to Knows and Sorted                        *)

\* A step that touches no list.
LEMMA QuietView ==
    ASSUME UNCHANGED <<primaryPeer, replicas>>
    PROVE  /\ \A p, x : Knows(p, x)' <=> Knows(p, x)
           /\ \A p : Sorted(p)' <=> Sorted(p)
  BY DEF Knows, Sorted

\* A push_back at p.
LEMMA PushView ==
    ASSUME TypeOK, NEW p \in Peer, NEW r \in Peer,
           replicas' = [replicas EXCEPT ![p] = PushBack(@, r)],
           UNCHANGED primaryPeer
    PROVE  /\ \A o \in Peer, x \in Peer :
                 Knows(o, x)' <=> Knows(o, x) \/ (o = p /\ x = r)
           /\ \A o \in Peer : o # p /\ Sorted(o) => Sorted(o)'
           /\ Sorted(p) /\ (\A x \in Peer : Knows(p, x) => Rank(x) < Rank(r))
                 /\ primaryPeer[p] \in Peer => Sorted(p)'
  <1> DEFINE s == replicas[p]
             t == Append(s, r)
  <1>1. /\ s \in Seq(Peer) /\ t \in Seq(Peer) /\ Len(t) = Len(s) + 1
        /\ Len(s) \in Nat
        /\ \A i \in 1..Len(s) : t[i] = s[i] /\ s[i] \in Peer
        /\ t[Len(s) + 1] = r
    BY DEF TypeOK
  <1>2. replicas'[p] = t /\ \A o \in Peer : o # p => replicas'[o] = replicas[o]
    BY DEF TypeOK, PushBack
  <1> HIDE DEF t
  <1>3. ASSUME NEW o \in Peer, NEW x \in Peer
        PROVE  Knows(o, x)' <=> Knows(o, x) \/ (o = p /\ x = r)
    <2>1. CASE o # p
      BY <1>2, <2>1 DEF Knows
    <2>2. CASE o = p
      <3>1. (\E i \in 1..Len(t) : t[i] = x) <=> (\E i \in 1..Len(s) : s[i] = x) \/ x = r
        <4>1. ASSUME NEW i \in 1..Len(t), t[i] = x
              PROVE  (\E j \in 1..Len(s) : s[j] = x) \/ x = r
          <5>1. i = Len(s) + 1 \/ i \in 1..Len(s)
            BY <1>1
          <5> QED
            BY <1>1, <4>1, <5>1
        <4>2. ASSUME NEW i \in 1..Len(s), s[i] = x
              PROVE  \E j \in 1..Len(t) : t[j] = x
          <5>1. i \in 1..Len(t) /\ t[i] = x
            BY <1>1, <4>2
          <5> QED
            BY <5>1
        <4>3. Len(s) + 1 \in 1..Len(t) /\ t[Len(s) + 1] = r
          BY <1>1
        <4> QED
          BY <4>1, <4>2, <4>3
      <3> QED
        BY <1>2, <2>2, <3>1 DEF Knows
    <2> QED
      BY <2>1, <2>2
  <1>4. \A o \in Peer : o # p /\ Sorted(o) => Sorted(o)'
    BY <1>2 DEF Sorted
  <1>5. ASSUME Sorted(p), primaryPeer[p] \in Peer,
               \A x \in Peer : Knows(p, x) => Rank(x) < Rank(r)
        PROVE  Sorted(p)'
    <2>1. Rank(primaryPeer[p]) < Rank(r)
      BY <1>5 DEF Knows
    <2>2. \A i \in 1..Len(s) : Rank(s[i]) < Rank(r)
      BY <1>1, <1>5 DEF Knows
    <2>3. \A i \in 1..Len(t) : Rank(primaryPeer[p]) < Rank(t[i])
      BY <1>1, <1>5, <2>1 DEF Sorted
    <2>4. \A i, j \in 1..Len(t) : i < j => Rank(t[i]) < Rank(t[j])
      BY <1>1, <1>5, <2>2 DEF Sorted
    <2> QED
      BY <1>2, <2>3, <2>4 DEF Sorted
  <1> QED
    BY <1>3, <1>4, <1>5

\* removeReplica of e at p.
LEMMA RemoveView ==
    ASSUME TypeOK, NEW p \in Peer, NEW e \in Peer,
           replicas' = RemoveReplica(p, e), UNCHANGED primaryPeer
    PROVE  /\ \A o \in Peer, x \in Peer : Knows(o, x)' => Knows(o, x)
           /\ \A o \in Peer, x \in Peer : Knows(o, x) /\ x # e => Knows(o, x)'
           /\ \A o \in Peer, x \in Peer : Knows(o, x) /\ o # p => Knows(o, x)'
           /\ \A o \in Peer : Sorted(o) => Sorted(o)'
  <1> DEFINE s == replicas[p]
             t == RemoveFirst(s, e)
  <1>1. s \in Seq(Peer) /\ Len(s) \in Nat
    BY DEF TypeOK
  <1>2. /\ (\A i \in 1..Len(s) : s[i] # e) => t = s
        /\ (\E i \in 1..Len(s) : s[i] = e) =>
             \E k \in 1..Len(s) :
                /\ s[k] = e
                /\ Len(t) = Len(s) - 1
                /\ \A i \in 1..(Len(s) - 1) : t[i] = IF i < k THEN s[i] ELSE s[i + 1]
    <2>1. Erased(s, e, t)
      BY <1>1, RemoveFirstFacts
    <2> QED
      BY <2>1 DEF Erased
  <1>3. replicas'[p] = t /\ \A o \in Peer : o # p => replicas'[o] = replicas[o]
    BY DEF TypeOK, RemoveReplica
  <1> HIDE DEF t
  <1>4. ASSUME NEW x, NEW i \in 1..Len(t), t[i] = x
        PROVE  \E j \in 1..Len(s) : s[j] = x
    <2>1. CASE \A j \in 1..Len(s) : s[j] # e
      BY <1>2, <1>4, <2>1
    <2>2. CASE \E j \in 1..Len(s) : s[j] = e
      <3>1. PICK k \in 1..Len(s) :
                /\ Len(t) = Len(s) - 1
                /\ \A j \in 1..(Len(s) - 1) : t[j] = IF j < k THEN s[j] ELSE s[j + 1]
        BY <1>2, <2>2
      <3>2. i \in 1..Len(s) /\ i + 1 \in 1..Len(s)
        BY <1>1, <3>1
      <3> QED
        BY <1>4, <3>1, <3>2
    <2> QED
      BY <2>1, <2>2
  <1>5. ASSUME NEW x, x # e, NEW j \in 1..Len(s), s[j] = x
        PROVE  \E i \in 1..Len(t) : t[i] = x
    <2>1. CASE \A i \in 1..Len(s) : s[i] # e
      BY <1>2, <1>5, <2>1
    <2>2. CASE \E i \in 1..Len(s) : s[i] = e
      <3>1. PICK k \in 1..Len(s) :
                /\ s[k] = e
                /\ Len(t) = Len(s) - 1
                /\ \A i \in 1..(Len(s) - 1) : t[i] = IF i < k THEN s[i] ELSE s[i + 1]
        BY <1>2, <2>2
      <3>2. CASE j < k
        <4>1. j \in 1..(Len(s) - 1) /\ t[j] = s[j]
          BY <1>1, <3>1, <3>2
        <4> QED
          BY <1>5, <3>1, <4>1
      <3>3. CASE j > k
        <4>1. j - 1 \in 1..(Len(s) - 1) /\ ~(j - 1 < k) /\ (j - 1) + 1 = j
          BY <1>1, <3>1, <3>3
        <4>2. t[j - 1] = s[j]
          BY <3>1, <4>1
        <4> QED
          BY <1>5, <3>1, <4>1, <4>2
      <3> QED
        BY <1>1, <1>5, <3>1, <3>2, <3>3
    <2> QED
      BY <2>1, <2>2
  <1>6. ASSUME NEW o \in Peer, NEW x \in Peer
        PROVE  /\ Knows(o, x)' => Knows(o, x)
               /\ Knows(o, x) /\ (x # e \/ o # p) => Knows(o, x)'
    <2>1. CASE o # p
      BY <1>3, <2>1 DEF Knows
    <2>2. CASE o = p
      BY <1>3, <1>4, <1>5, <2>2 DEF Knows
    <2> QED
      BY <2>1, <2>2
  <1>7. ASSUME Sorted(p) PROVE Sorted(p)'
    <2>1. /\ \A i \in 1..Len(t) : Rank(primaryPeer[p]) < Rank(t[i])
          /\ \A i, j \in 1..Len(t) : i < j => Rank(t[i]) < Rank(t[j])
      <3>1. CASE \A i \in 1..Len(s) : s[i] # e
        BY <1>2, <1>7, <3>1 DEF Sorted
      <3>2. CASE \E i \in 1..Len(s) : s[i] = e
        <4>1. PICK k \in 1..Len(s) :
                /\ Len(t) = Len(s) - 1
                /\ \A i \in 1..(Len(s) - 1) : t[i] = IF i < k THEN s[i] ELSE s[i + 1]
          BY <1>2, <3>2
        <4>2. \A i \in 1..Len(t) : i \in 1..Len(s) /\ i + 1 \in 1..Len(s)
          BY <1>1, <4>1
        <4>3. \A i \in 1..Len(t) : t[i] = s[i] \/ t[i] = s[i + 1]
          BY <4>1
        <4>4. \A i \in 1..Len(t) : Rank(primaryPeer[p]) < Rank(t[i])
          BY <1>7, <4>2, <4>3 DEF Sorted
        <4>5. ASSUME NEW i \in 1..Len(t), NEW j \in 1..Len(t), i < j
              PROVE  Rank(t[i]) < Rank(t[j])
          <5> DEFINE a == IF i < k THEN i ELSE i + 1
                     b == IF j < k THEN j ELSE j + 1
          <5>1. a \in 1..Len(s) /\ b \in 1..Len(s) /\ a < b
            BY <1>1, <4>1, <4>5
          <5>2. t[i] = s[a] /\ t[j] = s[b]
            BY <4>1
          <5> HIDE DEF a, b
          <5> QED
            BY <1>7, <5>1, <5>2 DEF Sorted
        <4> QED
          BY <4>4, <4>5
      <3> QED
        BY <3>1, <3>2
    <2> QED
      BY <1>3, <2>1 DEF Sorted
  <1>8. \A o \in Peer : o # p /\ Sorted(o) => Sorted(o)'
    BY <1>3 DEF Sorted
  <1> QED
    BY <1>6, <1>7, <1>8

\* The election of the front at p.
LEMMA ElectView ==
    ASSUME TypeOK, NEW p \in Peer, replicas[p] # <<>>, ElectFront(p)
    PROVE  /\ \A o \in Peer, x \in Peer : Knows(o, x)' => Knows(o, x)
           /\ \A o \in Peer, x \in Peer :
                 Knows(o, x) /\ (o # p \/ x # primaryPeer[p]) => Knows(o, x)'
           /\ \A o \in Peer : Sorted(o) => Sorted(o)'
           /\ primaryPeer'[p] = Head(replicas[p])
           /\ \A o \in Peer : o # p => primaryPeer'[o] = primaryPeer[o]
  <1> DEFINE s == replicas[p]
             t == Tail(s)
  <1>1. /\ s \in Seq(Peer) /\ Len(s) \in Nat /\ Len(s) >= 1
        /\ Head(s) = s[1] /\ t \in Seq(Peer) /\ Len(t) = Len(s) - 1
        /\ \A i \in 1..Len(t) : t[i] = s[i + 1]
    BY DEF TypeOK
  <1>2. /\ replicas'[p] = t /\ primaryPeer'[p] = s[1]
        /\ \A o \in Peer : o # p => replicas'[o] = replicas[o] /\ primaryPeer'[o] = primaryPeer[o]
    BY <1>1 DEF TypeOK, ElectFront
  <1> HIDE DEF t
  <1>3. ASSUME NEW x
        PROVE  (x = s[1] \/ \E i \in 1..Len(t) : t[i] = x) <=> \E i \in 1..Len(s) : s[i] = x
    <2>1. ASSUME NEW i \in 1..Len(t), t[i] = x PROVE \E j \in 1..Len(s) : s[j] = x
      <3>1. i + 1 \in 1..Len(s)
        BY <1>1
      <3> QED
        BY <1>1, <2>1, <3>1
    <2>2. ASSUME NEW j \in 1..Len(s), s[j] = x, x # s[1]
          PROVE  \E i \in 1..Len(t) : t[i] = x
      <3>1. j - 1 \in 1..Len(t) /\ (j - 1) + 1 = j
        BY <1>1, <2>2
      <3>2. t[j - 1] = x
        BY <1>1, <2>2, <3>1
      <3> QED
        BY <3>1, <3>2
    <2> QED
      BY <1>1, <2>1, <2>2
  <1>4. ASSUME NEW o \in Peer, NEW x \in Peer
        PROVE  /\ Knows(o, x)' => Knows(o, x)
               /\ Knows(o, x) /\ (o # p \/ x # primaryPeer[p]) => Knows(o, x)'
    <2>1. CASE o # p
      BY <1>2, <2>1 DEF Knows
    <2>2. CASE o = p
      BY <1>2, <1>3, <2>2 DEF Knows
    <2> QED
      BY <2>1, <2>2
  <1>5. ASSUME Sorted(p) PROVE Sorted(p)'
    <2>1. ASSUME NEW i \in 1..Len(t) PROVE Rank(s[1]) < Rank(t[i])
      <3>1. i + 1 \in 1..Len(s) /\ 1 \in 1..Len(s) /\ 1 < i + 1
        BY <1>1
      <3> QED
        BY <1>1, <1>5, <3>1 DEF Sorted
    <2>2. ASSUME NEW i \in 1..Len(t), NEW j \in 1..Len(t), i < j
          PROVE  Rank(t[i]) < Rank(t[j])
      <3>1. i + 1 \in 1..Len(s) /\ j + 1 \in 1..Len(s) /\ i + 1 < j + 1
        BY <1>1, <2>2
      <3> QED
        BY <1>1, <1>5, <3>1 DEF Sorted
    <2> QED
      BY <1>2, <2>1, <2>2 DEF Sorted
  <1>6. \A o \in Peer : o # p /\ Sorted(o) => Sorted(o)'
    BY <1>2 DEF Sorted
  <1> QED
    BY <1>1, <1>2, <1>4, <1>5, <1>6

-----------------------------------------------------------------------------
(* The steps that change no list                                           *)

\* The invariant but its type part.
Rest ==
    /\ JoinedInv
    /\ ClosingInv
    /\ AddInv
    /\ ListInv
    /\ \A p \in joined : Sorted(p)
    /\ KnownInv

\* A step that touches no list and no owner, and whose loop stays or goes on.
LEMMA JoinedQuiet ==
    ASSUME TypeOK, JoinedInv, UNCHANGED <<joined, primaryPeer, replicas, owner>>,
           stage' = stage \/ (stage # "failed" /\ stage' \notin {"find", "failed"}),
           \/ next' = next /\ (Recruiting' <=> Recruiting)
           \/ next' = next + 1 /\ ~Recruiting'
    PROVE  JoinedInv'
  <1>1. \A p \in joined : Knows(p, p)'
    BY QuietView DEF JoinedInv
  <1>2. ASSUME NEW p \in joined, p # Boot
        PROVE  \E i \in 1..Len(Recruits) :
                   p = Recruits[i] /\ (i < next' \/ (i = next' /\ Recruiting'))
    <2>1. PICK i \in 1..Len(Recruits) :
                   p = Recruits[i] /\ (i < next \/ (i = next /\ Recruiting))
      BY <1>2 DEF JoinedInv
    <2>2. i < next' \/ (i = next' /\ Recruiting')
      BY <2>1, RecruitsAssumption DEF TypeOK
    <2> QED
      BY <2>1, <2>2
  <1>3. Recruiting' => Recruit' \in joined
    BY DEF JoinedInv, Recruit
  <1> QED
    BY <1>1, <1>2, <1>3 DEF JoinedInv

\* InitConnectFails preserves the invariant.
LEMMA InitConnectFailsInv ==
    ASSUME IInv, TypeOK', InitConnectFails
    PROVE  Rest'
  <1> USE RecruitsAssumption, NoPeerAssumption DEF envVars, viewVars, netVars, formVars, addVars
  <1>1. UNCHANGED <<joined, primaryPeer, replicas, owner>>
    BY DEF InitConnectFails, NextRecruit, ConnectFails
  <1>2. /\ \A o, x : Knows(o, x)' <=> Knows(o, x)
        /\ \A o : Sorted(o)' <=> Sorted(o)
    BY <1>1, QuietView
  <1>3. TypeOK /\ JoinedInv /\ ClosingInv /\ AddInv /\ ListInv /\ KnownInv
    BY DEF IInv
  <1>4. JoinedInv'
    <2>1. /\ stage' = stage \/ (stage # "failed" /\ stage' \notin {"find", "failed"})
          /\ \/ next' = next /\ (Recruiting' <=> Recruiting)
             \/ next' = next + 1 /\ ~Recruiting'
      BY <1>3 DEF InitConnectFails, NextRecruit, ConnectFails, Recruiting, TypeOK
    <2> QED
      BY <1>1, <1>3, <2>1, JoinedQuiet
  <1>5. ClosingInv'
    BY <1>3 DEF InitConnectFails, NextRecruit, ConnectFails, ClosingInv, TypeOK
  <1>6. AddInv'
    BY <1>1, <1>3 DEF InitConnectFails, NextRecruit, ConnectFails, AddInv, TypeOK, Recruiting, Recruit
  <1>7. ListInv'
    BY <1>1, <1>2, <1>3 DEF InitConnectFails, NextRecruit, ConnectFails, ListInv, AddInv, TypeOK, Recruiting, Recruit
  <1>8. \A o \in joined' : Sorted(o)'
    BY <1>1, <1>2 DEF IInv
  <1>9. KnownInv'
    BY <1>1, <1>2, <1>3 DEF InitConnectFails, NextRecruit, ConnectFails, KnownInv, TypeOK, Recruiting, Recruit
  <1> QED
    BY <1>4, <1>5, <1>6, <1>7, <1>8, <1>9 DEF Rest

\* RegisterSession preserves the invariant.
LEMMA RegisterSessionInv ==
    ASSUME IInv, TypeOK', RegisterSession
    PROVE  Rest'
  <1> USE RecruitsAssumption, NoPeerAssumption DEF envVars, viewVars, netVars, formVars, addVars
  <1>1. UNCHANGED <<joined, primaryPeer, replicas, owner>>
    BY DEF RegisterSession, NextRecruit
  <1>2. /\ \A o, x : Knows(o, x)' <=> Knows(o, x)
        /\ \A o : Sorted(o)' <=> Sorted(o)
    BY <1>1, QuietView
  <1>3. TypeOK /\ JoinedInv /\ ClosingInv /\ AddInv /\ ListInv /\ KnownInv
    BY DEF IInv
  <1>r. control'[Boot] \subseteq joined \ {Boot}
    <2>1. Recruit \in joined \ {Boot}
      <3>1. Recruit \in Peer /\ Recruit # Boot
        BY <1>3, RankJoined DEF RegisterSession, Recruiting
      <3> QED
        BY <1>3, <3>1 DEF RegisterSession, JoinedInv, Recruiting, Recruit
    <2> QED
      BY <1>3, <2>1 DEF RegisterSession, Registered, AddInv, TypeOK
  <1>4. JoinedInv'
    <2>1. /\ stage' = stage \/ (stage # "failed" /\ stage' \notin {"find", "failed"})
          /\ \/ next' = next /\ (Recruiting' <=> Recruiting)
             \/ next' = next + 1 /\ ~Recruiting'
      BY <1>3 DEF RegisterSession, NextRecruit, Recruiting, TypeOK
    <2> QED
      BY <1>1, <1>3, <2>1, JoinedQuiet
  <1>5. ClosingInv'
    BY <1>3 DEF RegisterSession, NextRecruit, ClosingInv, TypeOK
  <1>6. AddInv'
    BY <1>1, <1>3, <1>r DEF RegisterSession, NextRecruit, AddInv, TypeOK, Recruiting, Recruit
  <1>7. ListInv'
    BY <1>1, <1>2, <1>3, SMTT(30) DEF RegisterSession, NextRecruit, ListInv, AddInv, TypeOK, Recruiting, Recruit
  <1>8. \A o \in joined' : Sorted(o)'
    BY <1>1, <1>2 DEF IInv
  <1>9. KnownInv'
    BY <1>1, <1>2, <1>3 DEF RegisterSession, NextRecruit, KnownInv, TypeOK, Recruiting, Recruit
  <1> QED
    BY <1>4, <1>5, <1>6, <1>7, <1>8, <1>9 DEF Rest

\* BindData preserves the invariant.
LEMMA BindDataInv ==
    ASSUME IInv, TypeOK', BindData
    PROVE  Rest'
  <1> USE RecruitsAssumption, NoPeerAssumption DEF envVars, viewVars, netVars, formVars, addVars
  <1>1. UNCHANGED <<joined, primaryPeer, replicas, owner>>
    BY DEF BindData
  <1>2. /\ \A o, x : Knows(o, x)' <=> Knows(o, x)
        /\ \A o : Sorted(o)' <=> Sorted(o)
    BY <1>1, QuietView
  <1>3. TypeOK /\ JoinedInv /\ ClosingInv /\ AddInv /\ ListInv /\ KnownInv
    BY DEF IInv
  <1>4. JoinedInv'
    <2>1. /\ stage' = stage \/ (stage # "failed" /\ stage' \notin {"find", "failed"})
          /\ \/ next' = next /\ (Recruiting' <=> Recruiting)
             \/ next' = next + 1 /\ ~Recruiting'
      BY <1>3 DEF BindData, Recruiting, TypeOK
    <2> QED
      BY <1>1, <1>3, <2>1, JoinedQuiet
  <1>5. ClosingInv'
    BY <1>3 DEF BindData, ClosingInv, TypeOK
  <1>6. AddInv'
    BY <1>1, <1>3 DEF BindData, AddInv, TypeOK, Recruiting, Recruit
  <1>7. ListInv'
    BY <1>1, <1>2, <1>3 DEF BindData, ListInv, AddInv, TypeOK, Recruiting, Recruit
  <1>8. \A o \in joined' : Sorted(o)'
    BY <1>1, <1>2 DEF IInv
  <1>9. KnownInv'
    BY <1>1, <1>2, <1>3 DEF BindData, KnownInv, TypeOK, Recruiting, Recruit
  <1> QED
    BY <1>4, <1>5, <1>6, <1>7, <1>8, <1>9 DEF Rest

\* BindDataFails preserves the invariant.
LEMMA BindDataFailsInv ==
    ASSUME IInv, TypeOK', BindDataFails
    PROVE  Rest'
  <1> USE RecruitsAssumption, NoPeerAssumption DEF envVars, viewVars, netVars, formVars, addVars
  <1>1. UNCHANGED <<joined, primaryPeer, replicas, owner>>
    BY DEF BindDataFails, NextRecruit, ConnectFails
  <1>2. /\ \A o, x : Knows(o, x)' <=> Knows(o, x)
        /\ \A o : Sorted(o)' <=> Sorted(o)
    BY <1>1, QuietView
  <1>3. TypeOK /\ JoinedInv /\ ClosingInv /\ AddInv /\ ListInv /\ KnownInv
    BY DEF IInv
  <1>4. JoinedInv'
    <2>1. /\ stage' = stage \/ (stage # "failed" /\ stage' \notin {"find", "failed"})
          /\ \/ next' = next /\ (Recruiting' <=> Recruiting)
             \/ next' = next + 1 /\ ~Recruiting'
      BY <1>3 DEF BindDataFails, NextRecruit, ConnectFails, Recruiting, TypeOK
    <2> QED
      BY <1>1, <1>3, <2>1, JoinedQuiet
  <1>5. ClosingInv'
    BY <1>3 DEF BindDataFails, NextRecruit, ConnectFails, ClosingInv, TypeOK
  <1>6. AddInv'
    BY <1>1, <1>3 DEF BindDataFails, NextRecruit, ConnectFails, AddInv, TypeOK, Recruiting, Recruit
  <1>7. ListInv'
    BY <1>1, <1>2, <1>3 DEF BindDataFails, NextRecruit, ConnectFails, ListInv, AddInv, TypeOK, Recruiting, Recruit
  <1>8. \A o \in joined' : Sorted(o)'
    BY <1>1, <1>2 DEF IInv
  <1>9. KnownInv'
    BY <1>1, <1>2, <1>3 DEF BindDataFails, NextRecruit, ConnectFails, KnownInv, TypeOK, Recruiting, Recruit
  <1> QED
    BY <1>4, <1>5, <1>6, <1>7, <1>8, <1>9 DEF Rest

\* Announce preserves the invariant.
LEMMA AnnounceInv ==
    ASSUME IInv, TypeOK', Announce
    PROVE  Rest'
  <1> USE RecruitsAssumption, NoPeerAssumption DEF envVars, viewVars, netVars, formVars, addVars
  <1>1. UNCHANGED <<joined, primaryPeer, replicas, owner>>
    BY DEF Announce
  <1>2. /\ \A o, x : Knows(o, x)' <=> Knows(o, x)
        /\ \A o : Sorted(o)' <=> Sorted(o)
    BY <1>1, QuietView
  <1>3. TypeOK /\ JoinedInv /\ ClosingInv /\ AddInv /\ ListInv /\ KnownInv
    BY DEF IInv
  <1>4. JoinedInv'
    <2>1. /\ stage' = stage \/ (stage # "failed" /\ stage' \notin {"find", "failed"})
          /\ \/ next' = next /\ (Recruiting' <=> Recruiting)
             \/ next' = next + 1 /\ ~Recruiting'
      BY <1>3 DEF Announce, Recruiting, TypeOK
    <2> QED
      BY <1>1, <1>3, <2>1, JoinedQuiet
  <1>5. ClosingInv'
    BY <1>3 DEF Announce, ClosingInv, TypeOK
  <1>6. AddInv'
    BY <1>1, <1>3 DEF Announce, AddInv, TypeOK, Recruiting, Recruit
  <1>7. ListInv'
    BY <1>1, <1>2, <1>3 DEF Announce, ListInv, AddInv, TypeOK, Recruiting, Recruit
  <1>8. \A o \in joined' : Sorted(o)'
    BY <1>1, <1>2 DEF IInv
  <1>9. KnownInv'
    BY <1>1, <1>2, <1>3 DEF Announce, KnownInv, TypeOK, Recruiting, Recruit
  <1> QED
    BY <1>4, <1>5, <1>6, <1>7, <1>8, <1>9 DEF Rest

\* SendAddReplica preserves the invariant.
LEMMA SendAddReplicaInv ==
    ASSUME NEW q \in Peer, IInv, TypeOK', SendAddReplica(q)
    PROVE  Rest'
  <1> USE RecruitsAssumption, NoPeerAssumption DEF envVars, viewVars, netVars, formVars, addVars
  <1>1. UNCHANGED <<joined, primaryPeer, replicas, owner>>
    BY DEF SendAddReplica
  <1>2. /\ \A o, x : Knows(o, x)' <=> Knows(o, x)
        /\ \A o : Sorted(o)' <=> Sorted(o)
    BY <1>1, QuietView
  <1>3. TypeOK /\ JoinedInv /\ ClosingInv /\ AddInv /\ ListInv /\ KnownInv
    BY DEF IInv
  <1>4. JoinedInv'
    <2>1. /\ stage' = stage \/ (stage # "failed" /\ stage' \notin {"find", "failed"})
          /\ \/ next' = next /\ (Recruiting' <=> Recruiting)
             \/ next' = next + 1 /\ ~Recruiting'
      BY <1>3 DEF SendAddReplica, Recruiting, TypeOK
    <2> QED
      BY <1>1, <1>3, <2>1, JoinedQuiet
  <1>5. ClosingInv'
    BY <1>3 DEF SendAddReplica, ClosingInv, TypeOK
  <1>6. AddInv'
    <2>1. /\ stage' = stage /\ Recruit' = Recruit /\ acks' = acks /\ adding' = adding
          /\ accepting' = accepting /\ control' = control /\ alive' = alive /\ joined' = joined
          /\ q \in sending /\ sending' = sending \ {q} /\ stage = "send"
      BY DEF SendAddReplica, Recruit
    <2>2. CASE waiting' = waiting /\ inbox' = inbox
      BY <1>3, <2>1, <2>2 DEF AddInv, Recruiting
    <2>3. CASE /\ waiting' = waiting \cup {q}
               /\ inbox' = IF alive[q] THEN [inbox EXCEPT ![q] = Recruit] ELSE inbox
      <3>1. alive[q] => q \notin acks /\ adding[q] = NoPeer
        BY <1>3, <2>1 DEF AddInv
      <3>2. ASSUME NEW o \in Peer, alive[o], inbox'[o] # NoPeer \/ adding[o] # NoPeer
            PROVE  /\ o \in waiting' \ acks
                   /\ inbox'[o] \in {NoPeer, Recruit}
                   /\ adding[o] \in {NoPeer, Recruit}
                   /\ inbox'[o] = NoPeer \/ adding[o] = NoPeer
        <4>1. CASE o = q
          BY <1>3, <2>1, <2>3, <3>1, <3>2, <4>1 DEF TypeOK
        <4>2. CASE o # q
          <5>1. inbox'[o] = inbox[o] /\ (o \in waiting => o \in waiting')
            BY <1>3, <2>3, <4>2 DEF TypeOK
          <5> QED
            BY <1>3, <3>2, <5>1 DEF AddInv
        <4> QED
          BY <4>1, <4>2
      <3> QED
        BY <1>3, <2>1, <2>3, <3>1, <3>2 DEF AddInv, Recruiting
    <2> QED
      BY <2>2, <2>3 DEF SendAddReplica
  <1>7. ListInv'
    BY <1>1, <1>2, <1>3 DEF SendAddReplica, ListInv, AddInv, TypeOK, Recruiting, Recruit
  <1>8. \A o \in joined' : Sorted(o)'
    BY <1>1, <1>2 DEF IInv
  <1>9. KnownInv'
    BY <1>1, <1>2, <1>3 DEF SendAddReplica, KnownInv, TypeOK, Recruiting, Recruit
  <1> QED
    BY <1>4, <1>5, <1>6, <1>7, <1>8, <1>9 DEF Rest

\* ReceiveAck preserves the invariant.
LEMMA ReceiveAckInv ==
    ASSUME NEW q \in Peer, IInv, TypeOK', ReceiveAck(q)
    PROVE  Rest'
  <1> USE RecruitsAssumption, NoPeerAssumption DEF envVars, viewVars, netVars, formVars, addVars
  <1>1. UNCHANGED <<joined, primaryPeer, replicas, owner>>
    BY DEF ReceiveAck
  <1>2. /\ \A o, x : Knows(o, x)' <=> Knows(o, x)
        /\ \A o : Sorted(o)' <=> Sorted(o)
    BY <1>1, QuietView
  <1>3. TypeOK /\ JoinedInv /\ ClosingInv /\ AddInv /\ ListInv /\ KnownInv
    BY DEF IInv
  <1>4. JoinedInv'
    <2>1. /\ stage' = stage \/ (stage # "failed" /\ stage' \notin {"find", "failed"})
          /\ \/ next' = next /\ (Recruiting' <=> Recruiting)
             \/ next' = next + 1 /\ ~Recruiting'
      BY <1>3 DEF ReceiveAck, Recruiting, TypeOK
    <2> QED
      BY <1>1, <1>3, <2>1, JoinedQuiet
  <1>5. ClosingInv'
    BY <1>3 DEF ReceiveAck, ClosingInv, TypeOK
  <1>6. AddInv'
    BY <1>1, <1>3 DEF ReceiveAck, AddInv, TypeOK, Recruiting, Recruit
  <1>7. ListInv'
    BY <1>1, <1>2, <1>3 DEF ReceiveAck, ListInv, AddInv, TypeOK, Recruiting, Recruit
  <1>8. \A o \in joined' : Sorted(o)'
    BY <1>1, <1>2 DEF IInv
  <1>9. KnownInv'
    BY <1>1, <1>2, <1>3 DEF ReceiveAck, KnownInv, TypeOK, Recruiting, Recruit
  <1> QED
    BY <1>4, <1>5, <1>6, <1>7, <1>8, <1>9 DEF Rest

\* CancelRequests preserves the invariant.
LEMMA CancelRequestsInv ==
    ASSUME NEW q \in Peer, IInv, TypeOK', CancelRequests(q)
    PROVE  Rest'
  <1> USE RecruitsAssumption, NoPeerAssumption DEF envVars, viewVars, netVars, formVars, addVars
  <1>1. UNCHANGED <<joined, primaryPeer, replicas, owner>>
    BY DEF CancelRequests
  <1>2. /\ \A o, x : Knows(o, x)' <=> Knows(o, x)
        /\ \A o : Sorted(o)' <=> Sorted(o)
    BY <1>1, QuietView
  <1>3. TypeOK /\ JoinedInv /\ ClosingInv /\ AddInv /\ ListInv /\ KnownInv
    BY DEF IInv
  <1>4. JoinedInv'
    <2>1. /\ stage' = stage \/ (stage # "failed" /\ stage' \notin {"find", "failed"})
          /\ \/ next' = next /\ (Recruiting' <=> Recruiting)
             \/ next' = next + 1 /\ ~Recruiting'
      BY <1>3 DEF CancelRequests, Recruiting, TypeOK
    <2> QED
      BY <1>1, <1>3, <2>1, JoinedQuiet
  <1>5. ClosingInv'
    BY <1>3 DEF CancelRequests, ClosingInv, TypeOK
  <1>6. AddInv'
    BY <1>1, <1>3 DEF CancelRequests, AddInv, TypeOK, Recruiting, Recruit
  <1>7. ListInv'
    BY <1>1, <1>2, <1>3 DEF CancelRequests, ListInv, AddInv, TypeOK, Recruiting, Recruit
  <1>8. \A o \in joined' : Sorted(o)'
    BY <1>1, <1>2 DEF IInv
  <1>9. KnownInv'
    BY <1>1, <1>2, <1>3 DEF CancelRequests, KnownInv, TypeOK, Recruiting, Recruit
  <1> QED
    BY <1>4, <1>5, <1>6, <1>7, <1>8, <1>9 DEF Rest

\* AcceptorRegister preserves the invariant.
LEMMA AcceptorRegisterInv ==
    ASSUME NEW p \in Peer, IInv, TypeOK', AcceptorRegister(p)
    PROVE  Rest'
  <1> USE RecruitsAssumption, NoPeerAssumption DEF envVars, viewVars, netVars, formVars, addVars
  <1>1. UNCHANGED <<joined, primaryPeer, replicas, owner>>
    BY DEF AcceptorRegister
  <1>2. /\ \A o, x : Knows(o, x)' <=> Knows(o, x)
        /\ \A o : Sorted(o)' <=> Sorted(o)
    BY <1>1, QuietView
  <1>3. TypeOK /\ JoinedInv /\ ClosingInv /\ AddInv /\ ListInv /\ KnownInv
    BY DEF IInv
  <1>r. control'[Boot] = control[Boot]
    BY <1>3 DEF AcceptorRegister, Registered, AddInv, TypeOK
  <1>4. JoinedInv'
    <2>1. /\ stage' = stage \/ (stage # "failed" /\ stage' \notin {"find", "failed"})
          /\ \/ next' = next /\ (Recruiting' <=> Recruiting)
             \/ next' = next + 1 /\ ~Recruiting'
      BY <1>3 DEF AcceptorRegister, Recruiting, TypeOK
    <2> QED
      BY <1>1, <1>3, <2>1, JoinedQuiet
  <1>5. ClosingInv'
    BY <1>3 DEF AcceptorRegister, ClosingInv, TypeOK
  <1>6. AddInv'
    BY <1>1, <1>3, <1>r DEF AcceptorRegister, AddInv, TypeOK, Recruiting, Recruit
  <1>7. ListInv'
    BY <1>1, <1>2, <1>3 DEF AcceptorRegister, ListInv, AddInv, TypeOK, Recruiting, Recruit
  <1>8. \A o \in joined' : Sorted(o)'
    BY <1>1, <1>2 DEF IInv
  <1>9. KnownInv'
    BY <1>1, <1>2, <1>3 DEF AcceptorRegister, KnownInv, TypeOK, Recruiting, Recruit
  <1> QED
    BY <1>4, <1>5, <1>6, <1>7, <1>8, <1>9 DEF Rest

\* HandleAddReplica preserves the invariant.
LEMMA HandleAddReplicaInv ==
    ASSUME NEW p \in Peer, IInv, TypeOK', HandleAddReplica(p)
    PROVE  Rest'
  <1> USE RecruitsAssumption, NoPeerAssumption DEF envVars, viewVars, netVars, formVars, addVars
  <1>1. UNCHANGED <<joined, primaryPeer, replicas, owner>>
    BY DEF HandleAddReplica
  <1>2. /\ \A o, x : Knows(o, x)' <=> Knows(o, x)
        /\ \A o : Sorted(o)' <=> Sorted(o)
    BY <1>1, QuietView
  <1>3. TypeOK /\ JoinedInv /\ ClosingInv /\ AddInv /\ ListInv /\ KnownInv
    BY DEF IInv
  <1>4. JoinedInv'
    <2>1. /\ stage' = stage \/ (stage # "failed" /\ stage' \notin {"find", "failed"})
          /\ \/ next' = next /\ (Recruiting' <=> Recruiting)
             \/ next' = next + 1 /\ ~Recruiting'
      BY <1>3 DEF HandleAddReplica, Recruiting, TypeOK
    <2> QED
      BY <1>1, <1>3, <2>1, JoinedQuiet
  <1>5. ClosingInv'
    BY <1>3 DEF HandleAddReplica, ClosingInv, TypeOK
  <1>6. AddInv'
    BY <1>1, <1>3 DEF HandleAddReplica, AddInv, TypeOK, Recruiting, Recruit
  <1>7. ListInv'
    BY <1>1, <1>2, <1>3 DEF HandleAddReplica, ListInv, AddInv, TypeOK, Recruiting, Recruit
  <1>8. \A o \in joined' : Sorted(o)'
    BY <1>1, <1>2 DEF IInv
  <1>9. KnownInv'
    BY <1>1, <1>2, <1>3 DEF HandleAddReplica, KnownInv, TypeOK, Recruiting, Recruit
  <1> QED
    BY <1>4, <1>5, <1>6, <1>7, <1>8, <1>9 DEF Rest

\* PrebindSession preserves the invariant.
LEMMA PrebindSessionInv ==
    ASSUME NEW p \in Peer, IInv, TypeOK', PrebindSession(p)
    PROVE  Rest'
  <1> USE RecruitsAssumption, NoPeerAssumption DEF envVars, viewVars, netVars, formVars, addVars
  <1>1. UNCHANGED <<joined, primaryPeer, replicas, owner>>
    BY DEF PrebindSession
  <1>2. /\ \A o, x : Knows(o, x)' <=> Knows(o, x)
        /\ \A o : Sorted(o)' <=> Sorted(o)
    BY <1>1, QuietView
  <1>3. TypeOK /\ JoinedInv /\ ClosingInv /\ AddInv /\ ListInv /\ KnownInv
    BY DEF IInv
  <1>4. JoinedInv'
    <2>1. /\ stage' = stage \/ (stage # "failed" /\ stage' \notin {"find", "failed"})
          /\ \/ next' = next /\ (Recruiting' <=> Recruiting)
             \/ next' = next + 1 /\ ~Recruiting'
      BY <1>3 DEF PrebindSession, Recruiting, TypeOK
    <2> QED
      BY <1>1, <1>3, <2>1, JoinedQuiet
  <1>5. ClosingInv'
    BY <1>3 DEF PrebindSession, ClosingInv, TypeOK
  <1>6. AddInv'
    BY <1>1, <1>3 DEF PrebindSession, AddInv, TypeOK, Recruiting, Recruit
  <1>7. ListInv'
    BY <1>1, <1>2, <1>3 DEF PrebindSession, ListInv, AddInv, TypeOK, Recruiting, Recruit
  <1>8. \A o \in joined' : Sorted(o)'
    BY <1>1, <1>2 DEF IInv
  <1>9. KnownInv'
    BY <1>1, <1>2, <1>3 DEF PrebindSession, KnownInv, TypeOK, Recruiting, Recruit
  <1> QED
    BY <1>4, <1>5, <1>6, <1>7, <1>8, <1>9 DEF Rest

\* PrebindConnectFails preserves the invariant.
LEMMA PrebindConnectFailsInv ==
    ASSUME NEW p \in Peer, IInv, TypeOK', PrebindConnectFails(p)
    PROVE  Rest'
  <1> USE RecruitsAssumption, NoPeerAssumption DEF envVars, viewVars, netVars, formVars, addVars
  <1>1. UNCHANGED <<joined, primaryPeer, replicas, owner>>
    BY DEF PrebindConnectFails, ConnectFails
  <1>2. /\ \A o, x : Knows(o, x)' <=> Knows(o, x)
        /\ \A o : Sorted(o)' <=> Sorted(o)
    BY <1>1, QuietView
  <1>3. TypeOK /\ JoinedInv /\ ClosingInv /\ AddInv /\ ListInv /\ KnownInv
    BY DEF IInv
  <1>4. JoinedInv'
    <2>1. /\ stage' = stage \/ (stage # "failed" /\ stage' \notin {"find", "failed"})
          /\ \/ next' = next /\ (Recruiting' <=> Recruiting)
             \/ next' = next + 1 /\ ~Recruiting'
      BY <1>3 DEF PrebindConnectFails, ConnectFails, Recruiting, TypeOK
    <2> QED
      BY <1>1, <1>3, <2>1, JoinedQuiet
  <1>5. ClosingInv'
    BY <1>3 DEF PrebindConnectFails, ConnectFails, ClosingInv, TypeOK
  <1>6. AddInv'
    BY <1>1, <1>3 DEF PrebindConnectFails, ConnectFails, AddInv, TypeOK, Recruiting, Recruit
  <1>7. ListInv'
    BY <1>1, <1>2, <1>3 DEF PrebindConnectFails, ConnectFails, ListInv, AddInv, TypeOK, Recruiting, Recruit
  <1>8. \A o \in joined' : Sorted(o)'
    BY <1>1, <1>2 DEF IInv
  <1>9. KnownInv'
    BY <1>1, <1>2, <1>3 DEF PrebindConnectFails, ConnectFails, KnownInv, TypeOK, Recruiting, Recruit
  <1> QED
    BY <1>4, <1>5, <1>6, <1>7, <1>8, <1>9 DEF Rest

\* PrebindRegister preserves the invariant.
LEMMA PrebindRegisterInv ==
    ASSUME NEW p \in Peer, IInv, TypeOK', PrebindRegister(p)
    PROVE  Rest'
  <1> USE RecruitsAssumption, NoPeerAssumption DEF envVars, viewVars, netVars, formVars, addVars
  <1>1. UNCHANGED <<joined, primaryPeer, replicas, owner>>
    BY DEF PrebindRegister
  <1>2. /\ \A o, x : Knows(o, x)' <=> Knows(o, x)
        /\ \A o : Sorted(o)' <=> Sorted(o)
    BY <1>1, QuietView
  <1>3. TypeOK /\ JoinedInv /\ ClosingInv /\ AddInv /\ ListInv /\ KnownInv
    BY DEF IInv
  <1>r. control'[Boot] = control[Boot]
    <2>1. adding[p] # NoPeer
      BY <1>3 DEF PrebindRegister, TypeOK
    <2>2. p # Boot
      BY <1>3, <2>1 DEF PrebindRegister, AddInv
    <2> QED
      BY <1>3, <2>2 DEF PrebindRegister, Registered, TypeOK
  <1>4. JoinedInv'
    <2>1. /\ stage' = stage \/ (stage # "failed" /\ stage' \notin {"find", "failed"})
          /\ \/ next' = next /\ (Recruiting' <=> Recruiting)
             \/ next' = next + 1 /\ ~Recruiting'
      BY <1>3 DEF PrebindRegister, Recruiting, TypeOK
    <2> QED
      BY <1>1, <1>3, <2>1, JoinedQuiet
  <1>5. ClosingInv'
    BY <1>3 DEF PrebindRegister, ClosingInv, TypeOK
  <1>6. AddInv'
    BY <1>1, <1>3, <1>r DEF PrebindRegister, AddInv, TypeOK, Recruiting, Recruit
  <1>7. ListInv'
    BY <1>1, <1>2, <1>3 DEF PrebindRegister, ListInv, AddInv, TypeOK, Recruiting, Recruit
  <1>8. \A o \in joined' : Sorted(o)'
    BY <1>1, <1>2 DEF IInv
  <1>9. KnownInv'
    BY <1>1, <1>2, <1>3 DEF PrebindRegister, KnownInv, TypeOK, Recruiting, Recruit
  <1> QED
    BY <1>4, <1>5, <1>6, <1>7, <1>8, <1>9 DEF Rest

\* PrebindDataFails preserves the invariant.
LEMMA PrebindDataFailsInv ==
    ASSUME NEW p \in Peer, IInv, TypeOK', PrebindDataFails(p)
    PROVE  Rest'
  <1> USE RecruitsAssumption, NoPeerAssumption DEF envVars, viewVars, netVars, formVars, addVars
  <1>1. UNCHANGED <<joined, primaryPeer, replicas, owner>>
    BY DEF PrebindDataFails, ConnectFails, FinishAdd, Answered
  <1>2. /\ \A o, x : Knows(o, x)' <=> Knows(o, x)
        /\ \A o : Sorted(o)' <=> Sorted(o)
    BY <1>1, QuietView
  <1>3. TypeOK /\ JoinedInv /\ ClosingInv /\ AddInv /\ ListInv /\ KnownInv
    BY DEF IInv
  <1>4. JoinedInv'
    <2>1. /\ stage' = stage \/ (stage # "failed" /\ stage' \notin {"find", "failed"})
          /\ \/ next' = next /\ (Recruiting' <=> Recruiting)
             \/ next' = next + 1 /\ ~Recruiting'
      BY <1>3 DEF PrebindDataFails, ConnectFails, FinishAdd, Answered, Recruiting, TypeOK
    <2> QED
      BY <1>1, <1>3, <2>1, JoinedQuiet
  <1>5. ClosingInv'
    BY <1>3 DEF PrebindDataFails, ConnectFails, FinishAdd, Answered, ClosingInv, TypeOK
  <1>6. AddInv'
    BY <1>1, <1>3, SMTT(30) DEF PrebindDataFails, ConnectFails, FinishAdd, Answered, AddInv, TypeOK, Recruiting, Recruit
  <1>7. ListInv'
    BY <1>1, <1>2, <1>3 DEF PrebindDataFails, ConnectFails, FinishAdd, Answered, ListInv, AddInv, TypeOK, Recruiting, Recruit
  <1>8. \A o \in joined' : Sorted(o)'
    BY <1>1, <1>2 DEF IInv
  <1>9. KnownInv'
    BY <1>1, <1>2, <1>3 DEF PrebindDataFails, ConnectFails, FinishAdd, Answered, KnownInv, TypeOK, Recruiting, Recruit
  <1> QED
    BY <1>4, <1>5, <1>6, <1>7, <1>8, <1>9 DEF Rest

\* ChannelRemove preserves the invariant.
LEMMA ChannelRemoveInv ==
    ASSUME NEW p \in Peer, NEW q \in Peer, IInv, TypeOK', ChannelRemove(p, q)
    PROVE  Rest'
  <1> USE RecruitsAssumption, NoPeerAssumption DEF envVars, viewVars, netVars, formVars, addVars
  <1>1. UNCHANGED <<joined, primaryPeer, replicas, owner>>
    BY DEF ChannelRemove
  <1>2. /\ \A o, x : Knows(o, x)' <=> Knows(o, x)
        /\ \A o : Sorted(o)' <=> Sorted(o)
    BY <1>1, QuietView
  <1>3. TypeOK /\ JoinedInv /\ ClosingInv /\ AddInv /\ ListInv /\ KnownInv
    BY DEF IInv
  <1>4. JoinedInv'
    <2>1. /\ stage' = stage \/ (stage # "failed" /\ stage' \notin {"find", "failed"})
          /\ \/ next' = next /\ (Recruiting' <=> Recruiting)
             \/ next' = next + 1 /\ ~Recruiting'
      BY <1>3 DEF ChannelRemove, Recruiting, TypeOK
    <2> QED
      BY <1>1, <1>3, <2>1, JoinedQuiet
  <1>5. ClosingInv'
    BY <1>3 DEF ChannelRemove, ClosingInv, TypeOK
  <1>6. AddInv'
    BY <1>1, <1>3 DEF ChannelRemove, AddInv, TypeOK, Recruiting, Recruit
  <1>7. ListInv'
    BY <1>1, <1>2, <1>3 DEF ChannelRemove, ListInv, AddInv, TypeOK, Recruiting, Recruit
  <1>8. \A o \in joined' : Sorted(o)'
    BY <1>1, <1>2 DEF IInv
  <1>9. KnownInv'
    BY <1>1, <1>2, <1>3 DEF ChannelRemove, KnownInv, TypeOK, Recruiting, Recruit
  <1> QED
    BY <1>4, <1>5, <1>6, <1>7, <1>8, <1>9 DEF Rest

\* Crash preserves the invariant.
LEMMA CrashInv ==
    ASSUME NEW p \in Peer, IInv, TypeOK', Crash(p)
    PROVE  Rest'
  <1> USE RecruitsAssumption, NoPeerAssumption DEF envVars, viewVars, netVars, formVars, addVars
  <1>1. UNCHANGED <<joined, primaryPeer, replicas, owner>>
    BY DEF Crash
  <1>2. /\ \A o, x : Knows(o, x)' <=> Knows(o, x)
        /\ \A o : Sorted(o)' <=> Sorted(o)
    BY <1>1, QuietView
  <1>3. TypeOK /\ JoinedInv /\ ClosingInv /\ AddInv /\ ListInv /\ KnownInv
    BY DEF IInv
  <1>4. JoinedInv'
    <2>1. /\ stage' = stage \/ (stage # "failed" /\ stage' \notin {"find", "failed"})
          /\ \/ next' = next /\ (Recruiting' <=> Recruiting)
             \/ next' = next + 1 /\ ~Recruiting'
      BY <1>3 DEF Crash, Recruiting, TypeOK
    <2> QED
      BY <1>1, <1>3, <2>1, JoinedQuiet
  <1>5. ClosingInv'
    BY <1>3 DEF Crash, ClosingInv, TypeOK
  <1>6. AddInv'
    BY <1>1, <1>3 DEF Crash, AddInv, TypeOK, Recruiting, Recruit
  <1>7. ListInv'
    BY <1>1, <1>2, <1>3 DEF Crash, ListInv, AddInv, TypeOK, Recruiting, Recruit
  <1>8. \A o \in joined' : Sorted(o)'
    BY <1>1, <1>2 DEF IInv
  <1>9. KnownInv'
    BY <1>1, <1>2, <1>3 DEF Crash, KnownInv, TypeOK, Recruiting, Recruit
  <1> QED
    BY <1>4, <1>5, <1>6, <1>7, <1>8, <1>9 DEF Rest

-----------------------------------------------------------------------------
(* The steps that change a list                                            *)

\* No list changes, but a group without resources is given up.
LEMMA FindResourcesInv ==
    ASSUME IInv, TypeOK', FindResources
    PROVE  Rest'
  <1>1. TypeOK /\ JoinedInv /\ ClosingInv /\ AddInv /\ ListInv /\ KnownInv
    BY DEF IInv
  <1>2. /\ UNCHANGED <<alive, bindFails, primaryPeer, replicas, owner, control, closing,
                       accepting, sending, waiting, acks, inbox, adding>>
        /\ stage = "find"
        /\ \/ stage' \in {"done", "control"} /\ joined' = joined
           \/ stage' = "failed" /\ joined' = joined \ {Boot}
    BY DEF FindResources, envVars, netVars, addVars
  <1>3. ~Recruiting' /\ ~Recruiting /\ stage' \notin {"send", "find"}
    BY <1>2 DEF Recruiting
  <1>4. /\ \A o, x : Knows(o, x)' <=> Knows(o, x)
        /\ \A o : Sorted(o)' <=> Sorted(o)
    BY <1>2, QuietView
  <1>5. /\ joined \subseteq {Boot} /\ joined' \subseteq joined
        /\ stage' # "failed" => joined' = joined
        /\ stage' = "failed" => joined' = {}
    BY <1>1, <1>2 DEF JoinedInv
  <1>6. control[Boot] = {} /\ sending = {} /\ waiting = {} /\ acks = {}
    BY <1>1, <1>5 DEF AddInv
  <1>7. JoinedInv'
    BY <1>1, <1>2, <1>3, <1>4, <1>5 DEF JoinedInv
  <1>8. ClosingInv'
    BY <1>1, <1>2 DEF ClosingInv
  <1>9. AddInv'
    BY <1>1, <1>2, <1>3, <1>6 DEF AddInv
  <1>10. ListInv'
    BY <1>1, <1>2, <1>3, <1>4, <1>5 DEF ListInv
  <1>11. \A o \in joined' : Sorted(o)'
    BY <1>4, <1>5 DEF IInv
  <1>12. KnownInv'
    BY <1>1, <1>2, <1>3, <1>4, <1>5 DEF KnownInv
  <1> QED
    BY <1>7, <1>8, <1>9, <1>10, <1>11, <1>12 DEF Rest

\* The list a recruit opens its group with.
LEMMA InitView ==
    ASSUME TypeOK, NEW r \in Peer, r # Boot, r = Recruit,
           primaryPeer' = [primaryPeer EXCEPT ![r] = primaryPeer[Boot]],
           replicas' = [replicas EXCEPT ![r] = InitList]
    PROVE  /\ \A o \in Peer, x \in Peer : o # r => (Knows(o, x)' <=> Knows(o, x))
           /\ \A x \in Peer : Knows(r, x)' <=> Knows(Boot, x) \/ x = r
           /\ \A o \in Peer : o # r /\ Sorted(o) => Sorted(o)'
           /\ Sorted(Boot) /\ (\A x \in Peer : Knows(Boot, x) => Rank(x) < Rank(r))
                 /\ primaryPeer[Boot] \in Peer => Sorted(r)'
  <1> USE RecruitsAssumption
  <1> DEFINE s == replicas[Boot]
             t == Append(s, r)
  <1>1. /\ s \in Seq(Peer) /\ t \in Seq(Peer) /\ Len(t) = Len(s) + 1
        /\ Len(s) \in Nat
        /\ \A i \in 1..Len(s) : t[i] = s[i] /\ s[i] \in Peer
        /\ t[Len(s) + 1] = r
    BY DEF TypeOK
  <1>2. /\ replicas'[r] = t /\ primaryPeer'[r] = primaryPeer[Boot]
        /\ \A o \in Peer : o # r => replicas'[o] = replicas[o] /\ primaryPeer'[o] = primaryPeer[o]
    BY DEF TypeOK, InitList
  <1> HIDE DEF t
  <1>3. ASSUME NEW x \in Peer
        PROVE  Knows(r, x)' <=> Knows(Boot, x) \/ x = r
    <2>1. (\E i \in 1..Len(t) : t[i] = x) <=> (\E i \in 1..Len(s) : s[i] = x) \/ x = r
      <3>1. ASSUME NEW i \in 1..Len(t), t[i] = x
            PROVE  (\E j \in 1..Len(s) : s[j] = x) \/ x = r
        <4>1. i = Len(s) + 1 \/ i \in 1..Len(s)
          BY <1>1
        <4> QED
          BY <1>1, <3>1, <4>1
      <3>2. ASSUME NEW i \in 1..Len(s), s[i] = x
            PROVE  \E j \in 1..Len(t) : t[j] = x
        <4>1. i \in 1..Len(t) /\ t[i] = x
          BY <1>1, <3>2
        <4> QED
          BY <4>1
      <3>3. Len(s) + 1 \in 1..Len(t) /\ t[Len(s) + 1] = r
        BY <1>1
      <3> QED
        BY <3>1, <3>2, <3>3
    <2> QED
      BY <1>2, <2>1 DEF Knows
  <1>4. ASSUME NEW o \in Peer, o # r
        PROVE  /\ \A x \in Peer : Knows(o, x)' <=> Knows(o, x)
               /\ Sorted(o) => Sorted(o)'
    BY <1>2, <1>4 DEF Knows, Sorted
  <1>5. ASSUME Sorted(Boot), primaryPeer[Boot] \in Peer,
               \A x \in Peer : Knows(Boot, x) => Rank(x) < Rank(r)
        PROVE  Sorted(r)'
    <2>1. Rank(primaryPeer[Boot]) < Rank(r)
      BY <1>5 DEF Knows
    <2>2. \A i \in 1..Len(s) : Rank(s[i]) < Rank(r)
      BY <1>1, <1>5 DEF Knows
    <2>3. \A i \in 1..Len(t) : Rank(primaryPeer[Boot]) < Rank(t[i])
      BY <1>1, <1>5, <2>1 DEF Sorted
    <2>4. \A i, j \in 1..Len(t) : i < j => Rank(t[i]) < Rank(t[j])
      BY <1>1, <1>5, <2>2, SMTT(30) DEF Sorted
    <2> QED
      BY <1>2, <2>3, <2>4 DEF Sorted
  <1> QED
    BY <1>3, <1>4, <1>5

\* The recruit's list is Boot's and itself; it has no rank in any other list yet.
LEMMA InitSessionInv ==
    ASSUME IInv, TypeOK', InitSession
    PROVE  Rest'
  <1>1. TypeOK /\ JoinedInv /\ ClosingInv /\ AddInv /\ ListInv /\ KnownInv
    BY DEF IInv
  <1>r. PICK r \in Peer : r = Recruit
    BY <1>1, RecruitType DEF InitSession
  <1>2. /\ UNCHANGED <<alive, bindFails, owner, control, closing, next,
                       sending, waiting, acks, inbox, adding>>
        /\ stage = "control" /\ stage' = "session" /\ alive[r]
        /\ joined' = joined \cup {r}
        /\ primaryPeer' = [primaryPeer EXCEPT ![r] = primaryPeer[Boot]]
        /\ replicas' = [replicas EXCEPT ![r] = InitList]
        /\ accepting' = [accepting EXCEPT ![r] = Boot]
    BY <1>r DEF InitSession, envVars, addVars
  <1>3. ~Recruiting /\ Recruiting' /\ Recruit' = r
    BY <1>r, <1>2 DEF Recruiting, Recruit
  <1>4. /\ r \in Peer /\ r # Boot /\ Rank(r) = next /\ r \notin joined
        /\ \A x \in joined : Rank(x) \in Nat /\ Rank(x) < next
        /\ Boot \in joined /\ Boot \in Peer /\ next \in Nat
        /\ next \in 1..Len(Recruits) /\ joined \subseteq Peer
    <2>1. /\ \A x \in joined : Rank(x) \in Nat /\ Rank(x) < next
          /\ Rank(r) = next /\ r # Boot /\ next \in Nat
      BY <1>r, <1>1, <1>2, <1>3, RankJoined
    <2>2. r \notin joined
      BY <2>1
    <2>3. next \in 1..Len(Recruits) /\ joined \subseteq Peer /\ Boot \in joined /\ Boot \in Peer
      BY <1>1, <1>2, RecruitType, RecruitsAssumption DEF JoinedInv, TypeOK
    <2> QED
      BY <2>1, <2>2, <2>3
  <1>5. sending = {} /\ waiting = {}
    BY <1>1, <1>2 DEF AddInv
  <1>6. \A o \in Peer : alive[o] => inbox[o] = NoPeer /\ adding[o] = NoPeer
    BY <1>1, <1>5 DEF AddInv
  <1>7. \A x \in Peer : Knows(Boot, x) => x \in joined /\ Rank(x) < Rank(r)
    BY <1>1, <1>4 DEF ListInv
  <1>8. /\ \A o \in Peer, x \in Peer : o # r => (Knows(o, x)' <=> Knows(o, x))
        /\ \A x \in Peer : Knows(r, x)' <=> Knows(Boot, x) \/ x = r
        /\ \A o \in Peer : o # r /\ Sorted(o) => Sorted(o)'
        /\ Sorted(Boot) /\ (\A x \in Peer : Knows(Boot, x) => Rank(x) < Rank(r))
                 /\ primaryPeer[Boot] \in Peer => Sorted(r)'
    BY <1>1, <1>2, <1>4, <1>r, InitView
  <1>9. /\ primaryPeer'[r] = Boot
        /\ \A o \in Peer : o # r => primaryPeer'[o] = primaryPeer[o]
        /\ accepting'[Boot] = accepting[Boot]
    BY <1>1, <1>2, <1>4 DEF TypeOK, JoinedInv
  <1>10. JoinedInv'
    <2>1. ASSUME NEW o \in joined'
          PROVE  o = Boot \/ \E i \in 1..Len(Recruits) :
                    o = Recruits[i] /\ (i < next \/ (i = next /\ Recruiting'))
      <3>1. CASE o = r
        BY <1>r, <1>3, <1>4, <3>1 DEF Recruit
      <3>2. CASE o \in joined
        BY <1>1, <1>3, <3>2 DEF JoinedInv
      <3> QED
        BY <1>2, <3>1, <3>2
    <2>2. ASSUME NEW o \in joined'
          PROVE  Knows(o, o)' /\ primaryPeer'[o] \in Peer
      BY <1>1, <1>2, <1>4, <1>8, <1>9 DEF JoinedInv
    <2>3. ASSUME NEW o \in owner
          PROVE  primaryPeer'[o] = o /\ (o \in joined' \/ o = Boot)
      BY <1>1, <1>2, <1>4, <1>9 DEF JoinedInv
    <2>4. \A o \in Peer : o \in joined' \/ o = Boot \/ primaryPeer'[o] = NoPeer
      BY <1>1, <1>2, <1>9 DEF JoinedInv
    <2>5. primaryPeer'[Boot] = Boot
      BY <1>1, <1>4, <1>9 DEF JoinedInv
    <2> QED
      BY <1>2, <1>3, <1>4, <2>1, <2>2, <2>3, <2>4, <2>5 DEF JoinedInv
  <1>11. ClosingInv'
    BY <1>1, <1>2 DEF ClosingInv
  <1>12. AddInv'
    BY <1>1, <1>2, <1>5, <1>6, <1>9 DEF AddInv
  <1>13. ListInv'
    <2> SUFFICES ASSUME NEW o \in joined', NEW x \in Peer, Knows(o, x)'
                 PROVE  /\ x \in joined'
                        /\ alive[o] /\ x = r =>
                              /\ o # Boot /\ o = r /\ o \notin sending
                              /\ inbox[o] = NoPeer /\ adding[o] = NoPeer
      BY <1>2, <1>3 DEF ListInv
    <2>1. CASE o = r
      BY <1>2, <1>4, <1>5, <1>6, <1>7, <1>8, <2>1
    <2>2. CASE o # r
      BY <1>1, <1>2, <1>4, <1>8, <2>2 DEF ListInv
    <2> QED
      BY <2>1, <2>2
  <1>14. \A o \in joined' : Sorted(o)'
    BY <1>1, <1>2, <1>4, <1>7, <1>8 DEF IInv, JoinedInv
  <1>15. KnownInv'
    <2> SUFFICES ASSUME bindFails = 0
                 PROVE  /\ \A p, q \in joined' : alive[q] /\ Rank(q) < Rank(p) => Knows(p, q)'
                        /\ \A q \in joined' : alive[q] => Knows(Boot, q)' \/ q = r
      BY <1>2, <1>3 DEF KnownInv
    <2>1. \A q \in joined : alive[q] => Knows(Boot, q)
      BY <1>1, <1>3 DEF KnownInv
    <2>2. ASSUME NEW p \in joined', NEW q \in joined', alive[q], Rank(q) < Rank(p)
          PROVE  Knows(p, q)'
      <3>1. q \in joined
        BY <1>2, <1>4, <2>2
      <3>2. CASE p = r
        BY <1>4, <1>8, <2>1, <2>2, <3>1, <3>2
      <3>3. CASE p \in joined
        BY <1>1, <1>4, <1>8, <2>2, <3>1, <3>3 DEF KnownInv
      <3> QED
        BY <1>2, <3>2, <3>3
    <2> QED
      BY <1>2, <1>4, <1>8, <2>1, <2>2
  <1> QED
    BY <1>10, <1>11, <1>12, <1>13, <1>14, <1>15 DEF Rest

\* Boot appends the recruit once everyone has answered.
LEMMA PushReplicaInv ==
    ASSUME IInv, TypeOK', PushReplica
    PROVE  Rest'
  <1> DEFINE r == Recruit
  <1>1. TypeOK /\ JoinedInv /\ ClosingInv /\ AddInv /\ ListInv /\ KnownInv
    BY DEF IInv
  <1>2. /\ UNCHANGED <<alive, bindFails, joined, primaryPeer, owner, control, closing,
                       accepting, sending, waiting, acks, inbox, adding>>
        /\ stage = "send" /\ alive[Boot] /\ sending = {} /\ waiting = {}
        /\ stage' \in {"control", "done"} /\ next' = next + 1
        /\ replicas' = [replicas EXCEPT ![Boot] = PushBack(@, r)]
    BY DEF PushReplica, NextRecruit, envVars, netVars, addVars
  <1>3. Recruiting /\ ~Recruiting'
    BY <1>2 DEF Recruiting
  <1>4. /\ r \in joined /\ r # Boot /\ Rank(r) = next /\ Boot \in joined
        /\ \A x \in joined : Rank(x) \in Nat /\ (Rank(x) < next \/ x = r)
        /\ next \in Nat /\ joined \subseteq Peer
    BY <1>1, <1>2, <1>3, RankJoined DEF JoinedInv, TypeOK
  <1> HIDE DEF r
  <1>5. \A x \in Peer : Knows(Boot, x) => x \in joined /\ Rank(x) < Rank(r)
    BY <1>1, <1>2, <1>3, <1>4 DEF ListInv, r
  <1>6. /\ \A o \in Peer, x \in Peer :
                 Knows(o, x)' <=> Knows(o, x) \/ (o = Boot /\ x = r)
        /\ \A o \in Peer : o # Boot /\ Sorted(o) => Sorted(o)'
        /\ Sorted(Boot) /\ (\A x \in Peer : Knows(Boot, x) => Rank(x) < Rank(r))
                 /\ primaryPeer[Boot] \in Peer => Sorted(Boot)'
    BY <1>1, <1>2, <1>4, PushView
  <1>7. JoinedInv'
    <2>1. ASSUME NEW o \in joined, o # Boot
          PROVE  \E i \in 1..Len(Recruits) : o = Recruits[i] /\ i < next'
      <3>1. PICK i \in 1..Len(Recruits) : o = Recruits[i] /\ (i < next \/ i = next)
        BY <1>1, <2>1 DEF JoinedInv
      <3> QED
        BY <1>2, <1>4, <3>1
    <2> QED
      BY <1>1, <1>2, <1>3, <1>4, <1>6, <2>1 DEF JoinedInv
  <1>8. ClosingInv'
    BY <1>1, <1>2 DEF ClosingInv
  <1>9. AddInv'
    BY <1>1, <1>2, <1>3 DEF AddInv
  <1>10. ListInv'
    BY <1>1, <1>2, <1>3, <1>4, <1>6 DEF ListInv
  <1>11. \A o \in joined' : Sorted(o)'
    BY <1>1, <1>2, <1>4, <1>5, <1>6 DEF IInv, JoinedInv
  <1>12. KnownInv'
    BY <1>1, <1>2, <1>3, <1>4, <1>6 DEF KnownInv, r
  <1> QED
    BY <1>7, <1>8, <1>9, <1>10, <1>11, <1>12 DEF Rest

\* Boot erases a dead member: nobody that is up is forgotten.
LEMMA SendAddReplicaFailsInv ==
    ASSUME NEW q \in Peer, IInv, TypeOK', SendAddReplicaFails(q)
    PROVE  Rest'
  <1>1. TypeOK /\ JoinedInv /\ ClosingInv /\ AddInv /\ ListInv /\ KnownInv
    BY DEF IInv
  <1>2. /\ UNCHANGED <<alive, bindFails, joined, primaryPeer, owner, closing,
                       accepting, stage, next, waiting, acks, inbox, adding>>
        /\ alive[Boot] /\ ~alive[q]
        /\ sending' = sending \ {q}
        /\ control' = [control EXCEPT ![Boot] = @ \ {q}]
        /\ replicas' = RemoveReplica(Boot, q)
    BY DEF SendAddReplicaFails, envVars, addVars
  <1>3. Recruit' = Recruit /\ (Recruiting' <=> Recruiting)
        /\ control'[Boot] \subseteq control[Boot] /\ joined \subseteq Peer /\ Boot \in Peer
    BY <1>1, <1>2, RecruitsAssumption DEF Recruit, Recruiting, TypeOK
  <1>4. /\ \A o \in Peer, x \in Peer : Knows(o, x)' => Knows(o, x)
        /\ \A o \in Peer, x \in Peer : Knows(o, x) /\ alive[x] => Knows(o, x)'
        /\ \A o \in Peer, x \in Peer : Knows(o, x) /\ o # Boot => Knows(o, x)'
        /\ \A o \in Peer : Sorted(o) => Sorted(o)'
    BY <1>1, <1>2, <1>3, RemoveView
  <1>5. JoinedInv'
    BY <1>1, <1>2, <1>3, <1>4 DEF JoinedInv
  <1>6. ClosingInv'
    BY <1>1, <1>2 DEF ClosingInv
  <1>7. AddInv'
    BY <1>1, <1>2, <1>3 DEF AddInv
  <1>8. ListInv'
    BY <1>1, <1>2, <1>3, <1>4 DEF ListInv
  <1>9. \A o \in joined' : Sorted(o)'
    BY <1>2, <1>3, <1>4 DEF IInv
  <1>10. KnownInv'
    BY <1>1, <1>2, <1>3, <1>4 DEF KnownInv
  <1> QED
    BY <1>5, <1>6, <1>7, <1>8, <1>9, <1>10 DEF Rest

\* A replica appends the recruit it was told of.
LEMMA PrebindDataInv ==
    ASSUME NEW p \in Peer, IInv, TypeOK', PrebindData(p)
    PROVE  Rest'
  <1> DEFINE r == Recruit
  <1>1. TypeOK /\ JoinedInv /\ ClosingInv /\ AddInv /\ ListInv /\ KnownInv
    BY DEF IInv
  <1>2. /\ UNCHANGED <<alive, bindFails, joined, primaryPeer, owner, control, closing,
                       accepting, stage, next, sending, waiting, inbox>>
        /\ alive[p] /\ adding[p] # NoPeer
        /\ adding' = [adding EXCEPT ![p] = NoPeer]
        /\ acks' = acks \cup {p}
        /\ replicas' = [replicas EXCEPT ![p] = PushBack(@, adding[p])]
    BY <1>1 DEF PrebindData, FinishAdd, Answered, netVars, TypeOK
  <1>3. /\ p \in waiting \ acks /\ p \in joined \ {Boot} /\ p \notin sending
        /\ adding[p] = r /\ inbox[p] = NoPeer /\ stage = "send"
    BY <1>1, <1>2 DEF AddInv
  <1>4. Recruit' = r /\ Recruiting /\ Recruiting'
    BY <1>2, <1>3 DEF Recruit, Recruiting
  <1>5. /\ r \in joined /\ r # Boot /\ Rank(r) = next
        /\ \A x \in joined : Rank(x) \in Nat /\ (Rank(x) < next \/ x = r)
        /\ next \in Nat /\ joined \subseteq Peer
    BY <1>1, <1>4, RankJoined DEF JoinedInv, TypeOK
  <1>6. \A x \in Peer : Knows(p, x) => x \in joined /\ x # r /\ Rank(x) < Rank(r)
    BY <1>1, <1>2, <1>3, <1>4, <1>5 DEF ListInv
  <1>7. /\ adding'[p] = NoPeer
        /\ \A o \in Peer : o # p => adding'[o] = adding[o]
    BY <1>1, <1>2 DEF TypeOK
  <1> HIDE DEF r
  <1>8. /\ \A o \in Peer, x \in Peer :
                 Knows(o, x)' <=> Knows(o, x) \/ (o = p /\ x = r)
        /\ \A o \in Peer : o # p /\ Sorted(o) => Sorted(o)'
        /\ Sorted(p) /\ (\A x \in Peer : Knows(p, x) => Rank(x) < Rank(r))
                 /\ primaryPeer[p] \in Peer => Sorted(p)'
    <2>1. replicas' = [replicas EXCEPT ![p] = PushBack(@, r)] /\ r \in Peer
      BY <1>2, <1>3, <1>5
    <2> QED
      BY <1>1, <1>2, <2>1, PushView
  <1>9. JoinedInv'
    BY <1>1, <1>2, <1>4, <1>5, <1>8 DEF JoinedInv, r
  <1>10. ClosingInv'
    BY <1>1, <1>2 DEF ClosingInv
  <1>11. AddInv'
    <2>1. ASSUME NEW o \in Peer, alive[o], inbox[o] # NoPeer \/ adding'[o] # NoPeer
          PROVE  /\ o \in waiting \ acks'
                 /\ inbox[o] \in {NoPeer, r}
                 /\ adding'[o] \in {NoPeer, r}
                 /\ inbox[o] = NoPeer \/ adding'[o] = NoPeer
      <3>1. o # p
        BY <1>3, <1>7, <2>1
      <3> QED
        BY <1>1, <1>2, <1>7, <2>1, <3>1 DEF AddInv, r
    <2> QED
      BY <1>1, <1>2, <1>3, <1>4, <2>1 DEF AddInv, r
  <1>12. ListInv'
    BY <1>1, <1>2, <1>3, <1>4, <1>5, <1>7, <1>8 DEF ListInv, r
  <1>13. \A o \in joined' : Sorted(o)'
    BY <1>1, <1>2, <1>3, <1>5, <1>6, <1>8 DEF IInv, JoinedInv
  <1>14. KnownInv'
    BY <1>1, <1>2, <1>4, <1>5, <1>8, RecruitsAssumption DEF KnownInv, r
  <1> QED
    BY <1>9, <1>10, <1>11, <1>12, <1>13, <1>14 DEF Rest

\* A closure erases a peer that is dead, or elects in its place the front: nobody
\* that is up is forgotten, and who takes the IID becomes its own primary.
LEMMA OnPeerClosureInv ==
    ASSUME NEW p \in Peer, IInv, TypeOK', OnPeerClosure(p)
    PROVE  Rest'
  <1>1. TypeOK /\ JoinedInv /\ ClosingInv /\ AddInv /\ ListInv /\ KnownInv
    BY DEF IInv
  <1>2. /\ UNCHANGED <<alive, bindFails, joined, control, accepting, stage, next,
                       sending, waiting, acks, inbox, adding>>
        /\ alive[p] /\ closing[p] # NoPeer
        /\ closing' = [closing EXCEPT ![p] = NoPeer]
    BY DEF OnPeerClosure, envVars, formVars, addVars
  <1>3. Recruit' = Recruit /\ (Recruiting' <=> Recruiting) /\ joined \subseteq Peer /\ Boot \in Peer
    BY <1>1, <1>2, RecruitsAssumption DEF Recruit, Recruiting, TypeOK
  <1>4. PICK e \in Peer : e = closing[p] /\ ~alive[e]
    BY <1>1, <1>2 DEF ClosingInv, TypeOK
  <1>5. /\ \A o \in Peer, x \in Peer : Knows(o, x)' => Knows(o, x)
        /\ \A o \in Peer, x \in Peer : Knows(o, x) /\ (o # p \/ x # e) => Knows(o, x)'
        /\ \A o \in Peer : Sorted(o) => Sorted(o)'
        /\ \A o \in Peer : o # p => primaryPeer'[o] = primaryPeer[o]
        /\ \/ primaryPeer' = primaryPeer /\ owner' = owner
           \/ /\ primaryPeer[p] = e /\ primaryPeer'[p] \in Peer
              /\ owner' = owner \/ (owner' = owner \cup {p} /\ primaryPeer'[p] = p)
    <2>1. CASE primaryPeer[p] # e
      <3>1. replicas' = RemoveReplica(p, e) /\ UNCHANGED <<primaryPeer, owner>>
        BY <1>4, <2>1 DEF OnPeerClosure
      <3> QED
        BY <1>1, <3>1, RemoveView
    <2>2. CASE primaryPeer[p] = e /\ replicas[p] # <<>>
      <3>1. ElectFront(p)
        BY <1>4, <2>2 DEF OnPeerClosure
      <3>2. Head(replicas[p]) \in Peer
        BY <1>1, <2>2 DEF TypeOK
      <3>3. owner' = owner \/ (owner' = owner \cup {p} /\ Head(replicas[p]) = p)
        BY <3>1 DEF ElectFront, IsThisPeer
      <3> QED
        BY <1>1, <2>2, <3>1, <3>2, <3>3, ElectView
    <2>3. CASE primaryPeer[p] = e /\ replicas[p] = <<>>
      <3>1. UNCHANGED <<primaryPeer, replicas, owner>>
        BY <1>4, <2>3 DEF OnPeerClosure
      <3> QED
        BY <3>1, QuietView
    <2> QED
      BY <2>1, <2>2, <2>3
  <1>6. p # e
    BY <1>2, <1>4
  <1>7. primaryPeer'[Boot] = Boot
    BY <1>1, <1>3, <1>5, <1>6 DEF JoinedInv
  <1>8. ASSUME NEW o \in owner'
        PROVE  primaryPeer'[o] = o /\ (o \in joined \/ o = Boot)
    <2>1. CASE o = p
      <3>1. p \in joined \/ p = Boot
        BY <1>1, <1>5, <1>8, <2>1, NoPeerAssumption DEF JoinedInv
      <3>2. primaryPeer'[p] = p
        BY <1>1, <1>5, <1>6, <1>8, <2>1 DEF JoinedInv
      <3> QED
        BY <2>1, <3>1, <3>2
    <2>2. CASE o # p
      BY <1>1, <1>5, <1>8, <2>2 DEF JoinedInv, TypeOK
    <2> QED
      BY <2>1, <2>2
  <1>9. ASSUME NEW o \in joined
        PROVE  Knows(o, o)' /\ primaryPeer'[o] \in Peer
    BY <1>1, <1>3, <1>5, <1>6 DEF JoinedInv
  <1>10. \A o \in Peer : o \in joined \/ o = Boot \/ primaryPeer'[o] = NoPeer
    BY <1>1, <1>5, NoPeerAssumption DEF JoinedInv
  <1>11. JoinedInv'
    BY <1>1, <1>2, <1>3, <1>7, <1>8, <1>9, <1>10 DEF JoinedInv
  <1>12. ClosingInv'
    BY <1>1, <1>2 DEF ClosingInv, TypeOK
  <1>13. AddInv'
    BY <1>1, <1>2, <1>3 DEF AddInv
  <1>14. ListInv'
    BY <1>1, <1>2, <1>3, <1>5 DEF ListInv
  <1>15. \A o \in joined' : Sorted(o)'
    BY <1>2, <1>3, <1>5 DEF IInv
  <1>16. KnownInv'
    BY <1>1, <1>2, <1>3, <1>4, <1>5 DEF KnownInv
  <1> QED
    BY <1>11, <1>12, <1>13, <1>14, <1>15, <1>16 DEF Rest

-----------------------------------------------------------------------------
(* The theorems                                                            *)

\* The group Boot creates.
LEMMA InitIInv == Init => IInv
  <1> SUFFICES ASSUME Init PROVE IInv
    OBVIOUS
  <1> USE RecruitsAssumption, NoPeerAssumption
  <1>1. TypeOK
    BY InitTypeOK
  <1>2. /\ joined = {Boot} /\ owner = {Boot} /\ primaryPeer[Boot] = Boot
        /\ replicas[Boot] = <<>> /\ stage = "find" /\ ~Recruiting
        /\ \A p \in Peer : p = Boot \/ primaryPeer[p] = NoPeer
        /\ \A p \in Peer : closing[p] = NoPeer /\ accepting[p] = NoPeer
        /\ \A p \in Peer : inbox[p] = NoPeer /\ adding[p] = NoPeer
        /\ sending = {} /\ waiting = {} /\ acks = {} /\ control[Boot] = {}
    BY DEF Init, Recruiting
  <1>3. Knows(Boot, Boot) /\ Sorted(Boot) /\ \A x \in Peer : Knows(Boot, x) => x = Boot
    BY <1>2 DEF Knows, Sorted
  <1>4. JoinedInv
    BY <1>2, <1>3 DEF JoinedInv
  <1>5. ClosingInv /\ AddInv
    BY <1>2 DEF ClosingInv, AddInv
  <1>6. ListInv
    BY <1>2, <1>3 DEF ListInv
  <1>7. KnownInv
    BY <1>2, <1>3, RankBoot DEF KnownInv
  <1> QED
    BY <1>1, <1>2, <1>3, <1>4, <1>5, <1>6, <1>7 DEF IInv

\* IInv is inductive.
LEMMA NextIInv == IInv /\ [Next]_vars => IInv'
  <1> SUFFICES ASSUME IInv, [Next]_vars PROVE IInv'
    OBVIOUS
  <1>1. TypeOK'
    BY NextTypeOK DEF IInv
  <1>2. CASE Form
    <2>1. Rest'
      BY <1>1, <1>2, FindResourcesInv, InitSessionInv, InitConnectFailsInv,
         RegisterSessionInv, BindDataInv, BindDataFailsInv, AnnounceInv,
         PushReplicaInv, SendAddReplicaInv, SendAddReplicaFailsInv,
         ReceiveAckInv, CancelRequestsInv DEF Form
    <2> QED
      BY <1>1, <2>1 DEF Rest, IInv
  <1>3. ASSUME NEW p \in Peer, Serve(p) PROVE IInv'
    <2>1. Rest'
      BY <1>1, <1>3, AcceptorRegisterInv, HandleAddReplicaInv, PrebindSessionInv,
         PrebindConnectFailsInv, PrebindRegisterInv, PrebindDataInv,
         PrebindDataFailsInv DEF Serve
    <2> QED
      BY <1>1, <2>1 DEF Rest, IInv
  <1>4. ASSUME NEW p \in Peer, Close(p) \/ Crash(p) PROVE IInv'
    <2>1. Rest'
      BY <1>1, <1>4, OnPeerClosureInv, ChannelRemoveInv, CrashInv DEF Close
    <2> QED
      BY <1>1, <2>1 DEF Rest, IInv
  <1>5. CASE UNCHANGED vars
    <2>1. UNCHANGED <<alive, bindFails, joined, primaryPeer, replicas, owner, control,
                      closing, accepting, stage, next, sending, waiting, acks, inbox, adding>>
      BY <1>5 DEF vars, envVars, viewVars, netVars, formVars, addVars
    <2>2. /\ \A o, x : Knows(o, x)' <=> Knows(o, x)
          /\ \A o : Sorted(o)' <=> Sorted(o)
      BY <2>1, QuietView
    <2>3. Recruit' = Recruit /\ (Recruiting' <=> Recruiting)
      BY <2>1 DEF Recruit, Recruiting
    <2>4. JoinedInv'
      BY <2>1, <2>3, JoinedQuiet DEF IInv
    <2>5. ClosingInv' /\ AddInv'
      BY <2>1, <2>3 DEF IInv, ClosingInv, AddInv
    <2>6. ListInv' /\ KnownInv'
      BY <2>1, <2>2, <2>3 DEF IInv, ListInv, KnownInv
    <2> QED
      BY <1>1, <2>1, <2>2, <2>4, <2>5, <2>6 DEF IInv
  <1> QED
    BY <1>2, <1>3, <1>4, <1>5 DEF Next

\* An owner of the group's IID is the first of its line, and its line holds every
\* member before it that is up: there is none.
LEMMA OwnersApart == IInv => NoSplitBrain
  <1> SUFFICES ASSUME IInv, bindFails = 0,
                      NEW p \in owner, NEW q \in owner, alive[p], alive[q], p # q
               PROVE  FALSE
    BY DEF NoSplitBrain
  <1>1. TypeOK /\ JoinedInv /\ KnownInv
    BY DEF IInv
  <1>2. primaryPeer[p] = p /\ primaryPeer[q] = q /\ p \in joined /\ q \in joined
    BY <1>1 DEF JoinedInv
  <1>3. Rank(p) \in Nat /\ Rank(q) \in Nat /\ Rank(p) # Rank(q)
    BY <1>1, <1>2, RankJoined
  <1>4. ASSUME NEW x \in joined, NEW y \in joined, alive[x], primaryPeer[y] = y,
               x # y, Rank(x) < Rank(y), Rank(x) \in Nat, Rank(y) \in Nat
        PROVE  FALSE
    <2>1. Knows(y, x)
      BY <1>1, <1>4 DEF KnownInv
    <2>2. PICK i \in 1..Len(replicas[y]) : replicas[y][i] = x
      BY <1>4, <2>1 DEF Knows
    <2>3. Rank(y) < Rank(x)
      BY <1>4, <2>2 DEF IInv, Sorted
    <2> QED
      BY <1>4, <2>3
  <1>5. Rank(p) < Rank(q) \/ Rank(q) < Rank(p)
    BY <1>3
  <1> QED
    BY <1>2, <1>3, <1>4, <1>5

\* A sorted list behind its primary is a sorted line.
LEMMA LinesSorted == IInv => SuccessionOrder
  <1> SUFFICES ASSUME IInv, NEW p \in joined,
                      NEW i \in 1..Len(Line(p)), NEW j \in 1..Len(Line(p)), i < j
               PROVE  Rank(Line(p)[i]) < Rank(Line(p)[j])
    BY DEF SuccessionOrder
  <1> DEFINE s == replicas[p]
             h == primaryPeer[p]
  <1>1. s \in Seq(Peer) /\ Len(s) \in Nat /\ h \in Peer /\ Sorted(p)
    BY DEF IInv, TypeOK, JoinedInv
  <1>2. /\ Len(Line(p)) = Len(s) + 1
        /\ Line(p)[1] = h
        /\ \A k \in 2..(Len(s) + 1) : Line(p)[k] = s[k - 1]
    <2>1. <<h>> \in Seq(Peer) /\ Len(<<h>>) = 1 /\ <<h>>[1] = h
      BY <1>1
    <2> QED
      BY <1>1, <2>1 DEF Line
  <1>3. j \in 2..(Len(s) + 1) /\ j - 1 \in 1..Len(s)
    BY <1>1, <1>2
  <1>4. CASE i = 1
    BY <1>1, <1>2, <1>3, <1>4 DEF Sorted
  <1>5. CASE i # 1
    <2>1. i \in 2..(Len(s) + 1) /\ i - 1 \in 1..Len(s) /\ i - 1 < j - 1
      BY <1>1, <1>2, <1>5
    <2> QED
      BY <1>1, <1>2, <1>3, <2>1 DEF Sorted
  <1> QED
    BY <1>4, <1>5

\* IInv is an invariant of the specification.
LEMMA IInvHolds == Spec => []IInv
  BY InitIInv, NextIInv, PTL DEF Spec

\* Two runtimes that are up never both serve under the group's IID, as long as
\* no connect to a live runtime has failed.
THEOREM OneServer == Spec => []NoSplitBrain
  BY IInvHolds, OwnersApart, PTL

\* Every member's line of succession follows the order of recruitment, whatever
\* connects fail and whoever dies.
THEOREM OneOrder == Spec => []SuccessionOrder
  BY IInvHolds, LinesSorted, PTL

\* A step leaves the deaths and the owners alone, or is a death, or hands the IID
\* to a runtime that is up, when nobody that served before is.
LEMMA StepFailover ==
    ASSUME MaxBindFail = 0, IInv, IInv', [Next]_vars
    PROVE  [Failover!Next]_<<{p \in Peer : alive[p]}, owner>>
  <1> DEFINE up == {p \in Peer : alive[p]}
  <1>1. TypeOK /\ JoinedInv /\ ClosingInv /\ TypeOK'
    BY DEF IInv
  <1>2. NoSplitBrain' /\ bindFails' = 0
    <2>1. NoSplitBrain'
      BY OwnersApart, PTL
    <2>2. bindFails' = 0
      BY <1>1 DEF TypeOK
    <2> QED
      BY <2>1, <2>2
  <1>3. CASE UNCHANGED <<alive, owner>>
    BY <1>3
  <1>4. ASSUME NEW p \in Peer, Crash(p)
        PROVE  Failover!Next
    <2>1. alive[p] /\ alive' = [alive EXCEPT ![p] = FALSE] /\ owner' = owner
      BY <1>4 DEF Crash, viewVars
    <2>2. p \in up /\ up' = up \ {p}
      BY <1>1, <2>1 DEF TypeOK
    <2>3. Failover!Die(p)
      BY <2>1, <2>2 DEF Failover!Die
    <2> QED
      BY <2>3 DEF Failover!Next
  <1>5. ASSUME NEW p \in Peer, OnPeerClosure(p), owner' # owner
        PROVE  Failover!Next
    <2>1. alive[p] /\ alive' = alive /\ owner' = owner \cup {p} /\ primaryPeer[p] = closing[p]
          /\ closing[p] # NoPeer
      BY <1>5 DEF OnPeerClosure, ElectFront, envVars
    <2>2. p \notin owner
      BY <1>1, <2>1 DEF JoinedInv, ClosingInv
    <2>3. \A q \in owner : ~alive[q]
      BY <1>2, <2>1, <2>2 DEF NoSplitBrain
    <2>4. up' = up /\ p \in up \ owner /\ owner \cap up = {}
      BY <2>1, <2>2, <2>3
    <2>5. Failover!TakeOver(p)
      BY <2>1, <2>4 DEF Failover!TakeOver
    <2> QED
      BY <2>5 DEF Failover!Next
  <1>6. Form => UNCHANGED <<alive, owner>>
    BY DEF Form, FindResources, InitSession, InitConnectFails, RegisterSession, BindData,
           BindDataFails, Announce, PushReplica, SendAddReplica, SendAddReplicaFails,
           ReceiveAck, CancelRequests, envVars, viewVars
  <1>7. ASSUME NEW p \in Peer
        PROVE  Serve(p) => UNCHANGED <<alive, owner>>
    BY DEF Serve, AcceptorRegister, HandleAddReplica, PrebindSession, PrebindConnectFails,
           PrebindRegister, PrebindData, PrebindDataFails, FinishAdd, envVars, viewVars
  <1>8. ASSUME NEW p \in Peer
        PROVE  Close(p) => UNCHANGED <<alive, owner>> \/ (OnPeerClosure(p) /\ owner' # owner)
    BY DEF Close, ChannelRemove, OnPeerClosure, envVars, viewVars
  <1>9. UNCHANGED vars => UNCHANGED <<alive, owner>>
    BY DEF vars, envVars, viewVars
  <1> QED
    BY <1>3, <1>4, <1>5, <1>6, <1>7, <1>8, <1>9 DEF Next

\* A group whose connects to live runtimes all succeed hands the service over as
\* ServiceFailover says.
THEOREM FailoverImplemented ==
    ASSUME MaxBindFail = 0
    PROVE  Spec => FailoverSpec
  <1>1. Init => Failover!Init
    BY DEF Init, Failover!Init
  <1>2. IInv /\ IInv' /\ [Next]_vars => [Failover!Next]_<<{p \in Peer : alive[p]}, owner>>
    BY StepFailover
  <1> QED
    BY <1>1, <1>2, IInvHolds, PTL DEF Spec, FailoverSpec, Failover!Spec

-----------------------------------------------------------------------------
(* The channels between the members                                        *)

\* The channel between Boot and a member that is up: the member's end is in
\* the hands of its acceptor or registered, Boot's end is registered as soon
\* as the session is over.
BootMesh ==
    bindFails = 0 /\ alive[Boot] =>
        \A q \in joined \ {Boot} : alive[q] =>
            /\ accepting[q] = Boot \/ Boot \in control[q]
            /\ q \in control[Boot] \/ (stage = "session" /\ q = Recruit)

\* The member p has yet to dial the recruit q, or is dialling it.
Ahead(p, q) ==
    /\ Recruiting /\ q = Recruit
    /\ \/ stage # "send" \/ p \in sending \/ inbox[p] = q
       \/ adding[p] = q /\ addStep[p] = "connect"
Dialling(p, q) ==
    Recruiting /\ q = Recruit /\ adding[p] = q /\ addStep[p] = "register"

\* The channel between two members that are up, dialled by the earlier one.
PairMesh ==
    bindFails = 0 /\ (alive[Boot] \/ stage = "done") =>
        \A p, q \in joined \ {Boot} :
            alive[p] /\ alive[q] /\ Rank(p) < Rank(q) =>
                \/ Ahead(p, q)
                \/ /\ p \in control[q] \/ accepting[q] = p
                   /\ q \in control[p] \/ Dialling(p, q)

\* No member but Boot yet.
LEMMA FindResourcesMesh ==
    ASSUME IInv, BootMesh, PairMesh, FindResources
    PROVE  BootMesh' /\ PairMesh'
  <1> USE NoPeerAssumption DEF envVars, viewVars, netVars, formVars, addVars
  <1>1. TypeOK /\ JoinedInv /\ AddInv
    BY DEF IInv
  <1>2. BootMesh'
    BY <1>1 DEF FindResources, BootMesh, TypeOK, JoinedInv, AddInv, Recruit
  <1>3. PairMesh'
    BY <1>1 DEF FindResources, PairMesh, Ahead, Dialling, Recruiting, TypeOK, JoinedInv, AddInv, Recruit
  <1> QED
    BY <1>2, <1>3

\* A recruit that is dead is passed over.
LEMMA InitConnectFailsMesh ==
    ASSUME IInv, BootMesh, PairMesh, InitConnectFails
    PROVE  BootMesh' /\ PairMesh'
  <1> USE NoPeerAssumption DEF envVars, viewVars, netVars, formVars, addVars
  <1>1. TypeOK /\ JoinedInv /\ AddInv
    BY DEF IInv
  <1>2. BootMesh'
    BY <1>1 DEF InitConnectFails, ConnectFails, NextRecruit, BootMesh, TypeOK, JoinedInv, AddInv, Recruit
  <1>3. PairMesh'
    BY <1>1 DEF InitConnectFails, ConnectFails, NextRecruit, PairMesh, Ahead, Dialling, Recruiting, TypeOK, JoinedInv, AddInv, Recruit
  <1> QED
    BY <1>2, <1>3

\* The recruit holds a group, and nobody but Boot has dialled it.
LEMMA InitSessionMesh ==
    ASSUME IInv, BootMesh, PairMesh, InitSession
    PROVE  BootMesh' /\ PairMesh'
  <1> USE NoPeerAssumption DEF envVars, viewVars, netVars, formVars, addVars
  <1>1. TypeOK /\ JoinedInv /\ AddInv
    BY DEF IInv
  <1>4. /\ Rank(Recruit) = next /\ Recruit # Boot /\ Recruit \in Peer
        /\ \A p \in joined : Rank(p) \in Nat /\ Rank(p) < next
        /\ next \in Nat /\ ~Recruiting
    BY <1>1, RankJoined DEF InitSession, Recruiting
  <1>5. Recruit \notin joined
    BY <1>4
  <1>6. /\ stage' = "session" /\ joined' = joined \cup {Recruit} /\ Recruit' = Recruit
        /\ accepting' = [accepting EXCEPT ![Recruit] = Boot]
        /\ UNCHANGED <<alive, bindFails, control>>
    BY DEF InitSession, Recruit
  <1>7. \A q \in joined : q \in Peer /\ q # Recruit /\ accepting'[q] = accepting[q]
    BY <1>1, <1>5, <1>6 DEF TypeOK
  <1>8. accepting'[Recruit] = Boot /\ stage # "session" /\ alive[Boot]
    BY <1>1, <1>4, <1>6 DEF TypeOK, InitSession
  <1>2. BootMesh'
    BY <1>6, <1>7, <1>8 DEF BootMesh
  <1>3. PairMesh'
    <2> SUFFICES ASSUME bindFails' = 0, alive'[Boot] \/ stage' = "done",
                        NEW p \in joined' \ {Boot}, NEW q \in joined' \ {Boot},
                        alive'[p], alive'[q], Rank(p) < Rank(q)
                 PROVE  \/ Ahead(p, q)'
                        \/ /\ p \in control'[q] \/ accepting'[q] = p
                           /\ q \in control'[p] \/ Dialling(p, q)'
      BY DEF PairMesh
    <2>1. CASE q = Recruit
      BY <1>6, <2>1 DEF Ahead, Recruiting
    <2>2. CASE q # Recruit
      <3>1. q \in joined /\ Rank(q) < next /\ Rank(q) \in Nat
        BY <1>4, <1>6, <2>2
      <3>2. p \in joined
        <4>1. p # Recruit
          BY <1>4, <3>1
        <4> QED
          BY <1>6, <4>1
      <3>3. /\ p \in control[q] \/ accepting[q] = p
            /\ q \in control[p]
        BY <1>4, <1>6, <1>8, <3>1, <3>2 DEF PairMesh, Ahead, Dialling
      <3> QED
        BY <1>6, <1>7, <3>1, <3>3
    <2> QED
      BY <2>1, <2>2
  <1> QED
    BY <1>2, <1>3

\* Boot's end of the session.
LEMMA RegisterSessionMesh ==
    ASSUME IInv, BootMesh, PairMesh, RegisterSession
    PROVE  BootMesh' /\ PairMesh'
  <1> USE NoPeerAssumption DEF envVars, viewVars, netVars, formVars, addVars
  <1>1. TypeOK /\ JoinedInv /\ AddInv
    BY DEF IInv
  <1>2. BootMesh'
    BY <1>1 DEF RegisterSession, Registered, NextRecruit, BootMesh, TypeOK, JoinedInv, AddInv, Recruit
  <1>3. PairMesh'
    BY <1>1, SMTT(30) DEF RegisterSession, Registered, NextRecruit, PairMesh, Ahead, Dialling, Recruiting, TypeOK, JoinedInv, AddInv, Recruit
  <1> QED
    BY <1>2, <1>3

LEMMA BindDataMesh ==
    ASSUME IInv, BootMesh, PairMesh, BindData
    PROVE  BootMesh' /\ PairMesh'
  <1> USE NoPeerAssumption DEF envVars, viewVars, netVars, formVars, addVars
  <1>1. TypeOK /\ JoinedInv /\ AddInv
    BY DEF IInv
  <1>2. BootMesh'
    BY <1>1 DEF BindData, BootMesh, TypeOK, JoinedInv, AddInv, Recruit
  <1>3. PairMesh'
    BY <1>1 DEF BindData, PairMesh, Ahead, Dialling, Recruiting, TypeOK, JoinedInv, AddInv, Recruit
  <1> QED
    BY <1>2, <1>3

\* A recruit that is dead is passed over.
LEMMA BindDataFailsMesh ==
    ASSUME IInv, BootMesh, PairMesh, BindDataFails
    PROVE  BootMesh' /\ PairMesh'
  <1> USE NoPeerAssumption DEF envVars, viewVars, netVars, formVars, addVars
  <1>1. TypeOK /\ JoinedInv /\ AddInv
    BY DEF IInv
  <1>2. BootMesh'
    BY <1>1 DEF BindDataFails, ConnectFails, NextRecruit, BootMesh, TypeOK, JoinedInv, AddInv, Recruit
  <1>3. PairMesh'
    BY <1>1 DEF BindDataFails, ConnectFails, NextRecruit, PairMesh, Ahead, Dialling, Recruiting, TypeOK, JoinedInv, AddInv, Recruit
  <1> QED
    BY <1>2, <1>3

\* Everybody up is told.
LEMMA AnnounceMesh ==
    ASSUME IInv, BootMesh, PairMesh, Announce
    PROVE  BootMesh' /\ PairMesh'
  <1> USE NoPeerAssumption DEF envVars, viewVars, netVars, formVars, addVars
  <1>1. TypeOK /\ JoinedInv /\ AddInv
    BY DEF IInv
  <1>4. /\ stage = "announce" /\ stage' = "send" /\ sending' = control[Boot] \ {Recruit}
        /\ Recruit' = Recruit /\ alive[Boot]
        /\ UNCHANGED <<alive, bindFails, joined, control, accepting>>
    BY DEF Announce, Recruit
  <1>2. BootMesh'
    BY <1>4 DEF BootMesh
  <1>3. PairMesh'
    <2> SUFFICES ASSUME bindFails' = 0, alive'[Boot] \/ stage' = "done",
                        NEW p \in joined' \ {Boot}, NEW q \in joined' \ {Boot},
                        alive'[p], alive'[q], Rank(p) < Rank(q)
                 PROVE  \/ Ahead(p, q)'
                        \/ /\ p \in control'[q] \/ accepting'[q] = p
                           /\ q \in control'[p] \/ Dialling(p, q)'
      BY DEF PairMesh
    <2>1. \/ Ahead(p, q)
          \/ /\ p \in control[q] \/ accepting[q] = p
             /\ q \in control[p] \/ Dialling(p, q)
      BY <1>4 DEF PairMesh
    <2>2. CASE q = Recruit
      <3>1. p \in control[Boot]
        BY <1>4 DEF BootMesh
      <3>2. p # q
        <4>1. Rank(p) \in Nat
          BY <1>1, <1>4, RankJoined
        <4> QED
          BY <4>1
      <3> QED
        BY <1>4, <2>2, <3>1, <3>2 DEF Ahead, Recruiting
    <2>3. CASE q # Recruit
      BY <1>4, <2>1, <2>3 DEF Ahead, Dialling
    <2> QED
      BY <2>2, <2>3
  <1> QED
    BY <1>2, <1>3

LEMMA SendAddReplicaMesh ==
    ASSUME IInv, BootMesh, PairMesh, NEW x \in Peer, SendAddReplica(x)
    PROVE  BootMesh' /\ PairMesh'
  <1> USE NoPeerAssumption DEF envVars, viewVars, netVars, formVars, addVars
  <1>1. TypeOK /\ JoinedInv /\ AddInv
    BY DEF IInv
  <1>4. /\ stage = "send" /\ stage' = "send" /\ Recruit' = Recruit /\ alive[Boot]
        /\ UNCHANGED <<alive, bindFails, joined, control, accepting, adding, addStep>>
        /\ sending' = sending \ {x}
        /\ \A p \in Peer : p # x => inbox'[p] = inbox[p]
        /\ x \in control[Boot] /\ alive[x] => inbox'[x] = Recruit
        /\ x \notin control[Boot] => inbox' = inbox
    BY <1>1 DEF SendAddReplica, Recruit, TypeOK
  <1>2. BootMesh'
    BY <1>4 DEF BootMesh
  <1>3. PairMesh'
    <2> SUFFICES ASSUME bindFails' = 0, alive'[Boot] \/ stage' = "done",
                        NEW p \in joined' \ {Boot}, NEW q \in joined' \ {Boot},
                        alive'[p], alive'[q], Rank(p) < Rank(q)
                 PROVE  \/ Ahead(p, q)'
                        \/ /\ p \in control'[q] \/ accepting'[q] = p
                           /\ q \in control'[p] \/ Dialling(p, q)'
      BY DEF PairMesh
    <2>1. \/ Ahead(p, q)
          \/ /\ p \in control[q] \/ accepting[q] = p
             /\ q \in control[p] \/ Dialling(p, q)
      BY <1>4 DEF PairMesh
    <2>2. p \in Peer /\ p \in control[Boot]
      BY <1>1, <1>4 DEF BootMesh, TypeOK
    <2>3. CASE Ahead(p, q)
      <3>1. CASE p = x
        BY <1>4, <2>2, <2>3, <3>1 DEF Ahead, Recruiting
      <3>2. CASE p # x
        BY <1>4, <2>2, <2>3, <3>2 DEF Ahead, Recruiting
      <3> QED
        BY <3>1, <3>2
    <2>4. CASE ~Ahead(p, q)
      BY <1>4, <2>1, <2>4 DEF Dialling, Recruiting
    <2> QED
      BY <2>3, <2>4
  <1> QED
    BY <1>2, <1>3

LEMMA SendAddReplicaFailsMesh ==
    ASSUME IInv, BootMesh, PairMesh, NEW x \in Peer, SendAddReplicaFails(x)
    PROVE  BootMesh' /\ PairMesh'
  <1> USE NoPeerAssumption DEF envVars, viewVars, netVars, formVars, addVars
  <1>1. TypeOK /\ JoinedInv /\ AddInv
    BY DEF IInv
  <1>2. BootMesh'
    BY <1>1 DEF SendAddReplicaFails, BootMesh, TypeOK, JoinedInv, AddInv, Recruit
  <1>3. PairMesh'
    BY <1>1, SMTT(30) DEF SendAddReplicaFails, PairMesh, Ahead, Dialling, Recruiting, TypeOK, JoinedInv, AddInv, Recruit
  <1> QED
    BY <1>2, <1>3

LEMMA ReceiveAckMesh ==
    ASSUME IInv, BootMesh, PairMesh, NEW x \in Peer, ReceiveAck(x)
    PROVE  BootMesh' /\ PairMesh'
  <1> USE NoPeerAssumption DEF envVars, viewVars, netVars, formVars, addVars
  <1>1. TypeOK /\ JoinedInv /\ AddInv
    BY DEF IInv
  <1>2. BootMesh'
    BY <1>1 DEF ReceiveAck, BootMesh, TypeOK, JoinedInv, AddInv, Recruit
  <1>3. PairMesh'
    BY <1>1, SMTT(30) DEF ReceiveAck, PairMesh, Ahead, Dialling, Recruiting, TypeOK, JoinedInv, AddInv, Recruit
  <1> QED
    BY <1>2, <1>3

LEMMA CancelRequestsMesh ==
    ASSUME IInv, BootMesh, PairMesh, NEW x \in Peer, CancelRequests(x)
    PROVE  BootMesh' /\ PairMesh'
  <1> USE NoPeerAssumption DEF envVars, viewVars, netVars, formVars, addVars
  <1>1. TypeOK /\ JoinedInv /\ AddInv
    BY DEF IInv
  <1>2. BootMesh'
    BY <1>1 DEF CancelRequests, BootMesh, TypeOK, JoinedInv, AddInv, Recruit
  <1>3. PairMesh'
    BY <1>1, SMTT(30) DEF CancelRequests, PairMesh, Ahead, Dialling, Recruiting, TypeOK, JoinedInv, AddInv, Recruit
  <1> QED
    BY <1>2, <1>3

\* Nobody up is still at work on the recruit.
LEMMA PushReplicaMesh ==
    ASSUME IInv, BootMesh, PairMesh, PushReplica
    PROVE  BootMesh' /\ PairMesh'
  <1> USE NoPeerAssumption DEF envVars, viewVars, netVars, formVars, addVars
  <1>1. TypeOK /\ JoinedInv /\ AddInv
    BY DEF IInv
  <1>4. /\ stage = "send" /\ sending = {} /\ waiting = {} /\ stage' \in {"control", "done"}
        /\ UNCHANGED <<alive, bindFails, joined, control, accepting>> /\ alive[Boot]
    BY DEF PushReplica, NextRecruit
  <1>2. BootMesh'
    BY <1>4 DEF BootMesh
  <1>3. PairMesh'
    <2> SUFFICES ASSUME bindFails' = 0, alive'[Boot] \/ stage' = "done",
                        NEW p \in joined' \ {Boot}, NEW q \in joined' \ {Boot},
                        alive'[p], alive'[q], Rank(p) < Rank(q)
                 PROVE  \/ Ahead(p, q)'
                        \/ /\ p \in control'[q] \/ accepting'[q] = p
                           /\ q \in control'[p] \/ Dialling(p, q)'
      BY DEF PairMesh
    <2>1. \/ Ahead(p, q)
          \/ /\ p \in control[q] \/ accepting[q] = p
             /\ q \in control[p] \/ Dialling(p, q)
      BY <1>4 DEF PairMesh
    <2>2. p \in Peer /\ inbox[p] = NoPeer /\ adding[p] = NoPeer
      BY <1>1, <1>4 DEF TypeOK, AddInv
    <2>3. q \in Peer /\ q # NoPeer
      BY <1>1, <1>4 DEF TypeOK
    <2>4. ~Ahead(p, q) /\ ~Dialling(p, q)
      BY <1>4, <2>2, <2>3 DEF Ahead, Dialling
    <2> QED
      BY <1>4, <2>1, <2>4
  <1> QED
    BY <1>2, <1>3

\* The other end of a channel.
LEMMA AcceptorRegisterMesh ==
    ASSUME IInv, BootMesh, PairMesh, NEW x \in Peer, AcceptorRegister(x)
    PROVE  BootMesh' /\ PairMesh'
  <1> USE NoPeerAssumption DEF envVars, viewVars, netVars, formVars, addVars
  <1>1. TypeOK /\ JoinedInv /\ AddInv
    BY DEF IInv
  <1>4. /\ UNCHANGED <<alive, bindFails, joined, stage, sending, inbox, adding, addStep>>
        /\ Recruit' = Recruit
    BY DEF AcceptorRegister, Recruit
  <1>5. /\ \A p \in Peer : control[p] \subseteq control'[p]
        /\ \A p \in Peer : p # x => accepting'[p] = accepting[p]
        /\ alive[accepting[x]] => accepting[x] \in control'[x]
    <2>1. CASE control' = Registered(x, accepting[x])
      BY <1>1, <2>1 DEF AcceptorRegister, Registered, TypeOK
    <2>2. CASE ~alive[accepting[x]] /\ UNCHANGED control
      BY <1>1, <2>2 DEF AcceptorRegister, TypeOK
    <2> QED
      BY <2>1, <2>2 DEF AcceptorRegister
  <1>2. BootMesh'
    <2> SUFFICES ASSUME bindFails' = 0, alive'[Boot], NEW q \in joined' \ {Boot}, alive'[q]
                 PROVE  /\ accepting'[q] = Boot \/ Boot \in control'[q]
                        /\ q \in control'[Boot] \/ (stage' = "session" /\ q = Recruit')
      BY DEF BootMesh
    <2>1. q \in Peer /\ Boot \in Peer
      BY <1>1, <1>4, RecruitsAssumption DEF TypeOK
    <2>2. /\ accepting[q] = Boot \/ Boot \in control[q]
          /\ q \in control[Boot] \/ (stage = "session" /\ q = Recruit)
      BY <1>4 DEF BootMesh
    <2> QED
      BY <1>4, <1>5, <2>1, <2>2
  <1>3. PairMesh'
    <2> SUFFICES ASSUME bindFails' = 0, alive'[Boot] \/ stage' = "done",
                        NEW p \in joined' \ {Boot}, NEW q \in joined' \ {Boot},
                        alive'[p], alive'[q], Rank(p) < Rank(q)
                 PROVE  \/ Ahead(p, q)'
                        \/ /\ p \in control'[q] \/ accepting'[q] = p
                           /\ q \in control'[p] \/ Dialling(p, q)'
      BY DEF PairMesh
    <2>1. \/ Ahead(p, q)
          \/ /\ p \in control[q] \/ accepting[q] = p
             /\ q \in control[p] \/ Dialling(p, q)
      BY <1>4 DEF PairMesh
    <2>2. Ahead(p, q)' = Ahead(p, q) /\ Dialling(p, q)' = Dialling(p, q)
      BY <1>4 DEF Ahead, Dialling, Recruiting
    <2>3. p \in Peer /\ q \in Peer
      BY <1>1, <1>4 DEF TypeOK
    <2> QED
      BY <1>4, <1>5, <2>1, <2>2, <2>3
  <1> QED
    BY <1>2, <1>3

LEMMA HandleAddReplicaMesh ==
    ASSUME IInv, BootMesh, PairMesh, NEW x \in Peer, HandleAddReplica(x)
    PROVE  BootMesh' /\ PairMesh'
  <1> USE NoPeerAssumption DEF envVars, viewVars, netVars, formVars, addVars
  <1>1. TypeOK /\ JoinedInv /\ AddInv
    BY DEF IInv
  <1>2. BootMesh'
    BY <1>1 DEF HandleAddReplica, BootMesh, TypeOK, JoinedInv, AddInv, Recruit
  <1>3. PairMesh'
    BY <1>1, SMTT(30) DEF HandleAddReplica, PairMesh, Ahead, Dialling, Recruiting, TypeOK, JoinedInv, AddInv, Recruit
  <1> QED
    BY <1>2, <1>3

LEMMA PrebindSessionMesh ==
    ASSUME IInv, BootMesh, PairMesh, NEW x \in Peer, PrebindSession(x)
    PROVE  BootMesh' /\ PairMesh'
  <1> USE NoPeerAssumption DEF envVars, viewVars, netVars, formVars, addVars
  <1>1. TypeOK /\ JoinedInv /\ AddInv
    BY DEF IInv
  <1>2. BootMesh'
    BY <1>1 DEF PrebindSession, BootMesh, TypeOK, JoinedInv, AddInv, Recruit
  <1>3. PairMesh'
    BY <1>1, SMTT(30) DEF PrebindSession, PairMesh, Ahead, Dialling, Recruiting, TypeOK, JoinedInv, AddInv, Recruit
  <1> QED
    BY <1>2, <1>3

LEMMA PrebindConnectFailsMesh ==
    ASSUME IInv, BootMesh, PairMesh, NEW x \in Peer, PrebindConnectFails(x)
    PROVE  BootMesh' /\ PairMesh'
  <1> USE NoPeerAssumption DEF envVars, viewVars, netVars, formVars, addVars
  <1>1. TypeOK /\ JoinedInv /\ AddInv
    BY DEF IInv
  <1>2. BootMesh'
    BY <1>1 DEF PrebindConnectFails, ConnectFails, BootMesh, TypeOK, JoinedInv, AddInv, Recruit
  <1>3. PairMesh'
    BY <1>1 DEF PrebindConnectFails, ConnectFails, PairMesh, Ahead, Dialling, Recruiting, TypeOK, JoinedInv, AddInv, Recruit
  <1> QED
    BY <1>2, <1>3

LEMMA PrebindRegisterMesh ==
    ASSUME IInv, BootMesh, PairMesh, NEW x \in Peer, PrebindRegister(x)
    PROVE  BootMesh' /\ PairMesh'
  <1> USE NoPeerAssumption DEF envVars, viewVars, netVars, formVars, addVars
  <1>1. TypeOK /\ JoinedInv /\ AddInv
    BY DEF IInv
  <1>4. /\ UNCHANGED <<alive, bindFails, joined, stage, sending, inbox, adding, accepting>>
        /\ Recruit' = Recruit /\ addStep[x] = "register" /\ addStep'[x] = "data"
        /\ \A p \in Peer : p # x => addStep'[p] = addStep[p]
    BY <1>1 DEF PrebindRegister, Recruit, TypeOK
  <1>5. /\ \A p \in Peer : control[p] \subseteq control'[p]
        /\ alive[adding[x]] => adding[x] \in control'[x]
    <2>1. CASE control' = Registered(x, adding[x])
      BY <1>1, <2>1 DEF PrebindRegister, Registered, TypeOK
    <2>2. CASE ~alive[adding[x]] /\ UNCHANGED control
      BY <1>1, <2>2 DEF PrebindRegister, TypeOK
    <2> QED
      BY <2>1, <2>2 DEF PrebindRegister
  <1>2. BootMesh'
    <2> SUFFICES ASSUME bindFails' = 0, alive'[Boot], NEW q \in joined' \ {Boot}, alive'[q]
                 PROVE  /\ accepting'[q] = Boot \/ Boot \in control'[q]
                        /\ q \in control'[Boot] \/ (stage' = "session" /\ q = Recruit')
      BY DEF BootMesh
    <2>1. q \in Peer /\ Boot \in Peer
      BY <1>1, <1>4, RecruitsAssumption DEF TypeOK
    <2>2. /\ accepting[q] = Boot \/ Boot \in control[q]
          /\ q \in control[Boot] \/ (stage = "session" /\ q = Recruit)
      BY <1>4 DEF BootMesh
    <2> QED
      BY <1>4, <1>5, <2>1, <2>2
  <1>3. PairMesh'
    <2> SUFFICES ASSUME bindFails' = 0, alive'[Boot] \/ stage' = "done",
                        NEW p \in joined' \ {Boot}, NEW q \in joined' \ {Boot},
                        alive'[p], alive'[q], Rank(p) < Rank(q)
                 PROVE  \/ Ahead(p, q)'
                        \/ /\ p \in control'[q] \/ accepting'[q] = p
                           /\ q \in control'[p] \/ Dialling(p, q)'
      BY DEF PairMesh
    <2>1. \/ Ahead(p, q)
          \/ /\ p \in control[q] \/ accepting[q] = p
             /\ q \in control[p] \/ Dialling(p, q)
      BY <1>4 DEF PairMesh
    <2>2. p \in Peer /\ q \in Peer
      BY <1>1, <1>4 DEF TypeOK
    <2>3. Ahead(p, q) => Ahead(p, q)'
      BY <1>4, <2>2 DEF Ahead, Recruiting
    <2>4. Dialling(p, q) => Dialling(p, q)' \/ q \in control'[p]
      BY <1>4, <1>5, <2>2 DEF Dialling, Recruiting
    <2> QED
      BY <1>4, <1>5, <2>1, <2>2, <2>3, <2>4
  <1> QED
    BY <1>2, <1>3

LEMMA PrebindDataMesh ==
    ASSUME IInv, BootMesh, PairMesh, NEW x \in Peer, PrebindData(x)
    PROVE  BootMesh' /\ PairMesh'
  <1> USE NoPeerAssumption DEF envVars, viewVars, netVars, formVars, addVars
  <1>1. TypeOK /\ JoinedInv /\ AddInv
    BY DEF IInv
  <1>2. BootMesh'
    BY <1>1 DEF PrebindData, FinishAdd, Answered, BootMesh, TypeOK, JoinedInv, AddInv, Recruit
  <1>3. PairMesh'
    BY <1>1 DEF PrebindData, FinishAdd, Answered, PairMesh, Ahead, Dialling, Recruiting, TypeOK, JoinedInv, AddInv, Recruit
  <1> QED
    BY <1>2, <1>3

LEMMA PrebindDataFailsMesh ==
    ASSUME IInv, BootMesh, PairMesh, NEW x \in Peer, PrebindDataFails(x)
    PROVE  BootMesh' /\ PairMesh'
  <1> USE NoPeerAssumption DEF envVars, viewVars, netVars, formVars, addVars
  <1>1. TypeOK /\ JoinedInv /\ AddInv
    BY DEF IInv
  <1>2. BootMesh'
    BY <1>1 DEF PrebindDataFails, FinishAdd, Answered, ConnectFails, BootMesh, TypeOK, JoinedInv, AddInv, Recruit
  <1>3. PairMesh'
    BY <1>1, SMTT(30) DEF PrebindDataFails, FinishAdd, Answered, ConnectFails, PairMesh, Ahead, Dialling, Recruiting, TypeOK, JoinedInv, AddInv, Recruit
  <1> QED
    BY <1>2, <1>3

LEMMA OnPeerClosureMesh ==
    ASSUME IInv, BootMesh, PairMesh, NEW x \in Peer, OnPeerClosure(x)
    PROVE  BootMesh' /\ PairMesh'
  <1> USE NoPeerAssumption DEF envVars, viewVars, netVars, formVars, addVars
  <1>1. TypeOK /\ JoinedInv /\ AddInv
    BY DEF IInv
  <1>2. BootMesh'
    BY <1>1 DEF OnPeerClosure, BootMesh, TypeOK, JoinedInv, AddInv, Recruit
  <1>3. PairMesh'
    BY <1>1 DEF OnPeerClosure, PairMesh, Ahead, Dialling, Recruiting, TypeOK, JoinedInv, AddInv, Recruit
  <1> QED
    BY <1>2, <1>3

\* Only channels to the dead are removed.
LEMMA ChannelRemoveMesh ==
    ASSUME IInv, BootMesh, PairMesh, NEW x \in Peer, NEW y \in Peer, ChannelRemove(x, y)
    PROVE  BootMesh' /\ PairMesh'
  <1> USE NoPeerAssumption DEF envVars, viewVars, netVars, formVars, addVars
  <1>1. TypeOK /\ JoinedInv /\ AddInv
    BY DEF IInv
  <1>2. BootMesh'
    BY <1>1 DEF ChannelRemove, BootMesh, TypeOK, JoinedInv, AddInv, Recruit
  <1>3. PairMesh'
    BY <1>1, SMTT(30) DEF ChannelRemove, PairMesh, Ahead, Dialling, Recruiting, TypeOK, JoinedInv, AddInv, Recruit
  <1> QED
    BY <1>2, <1>3

LEMMA CrashMesh ==
    ASSUME IInv, BootMesh, PairMesh, NEW x \in Peer, Crash(x)
    PROVE  BootMesh' /\ PairMesh'
  <1> USE NoPeerAssumption DEF envVars, viewVars, netVars, formVars, addVars
  <1>1. TypeOK /\ JoinedInv /\ AddInv
    BY DEF IInv
  <1>2. BootMesh'
    BY <1>1 DEF Crash, BootMesh, TypeOK, JoinedInv, AddInv, Recruit
  <1>3. PairMesh'
    BY <1>1 DEF Crash, PairMesh, Ahead, Dialling, Recruiting, TypeOK, JoinedInv, AddInv, Recruit
  <1> QED
    BY <1>2, <1>3

LEMMA InitMesh == Init => BootMesh /\ PairMesh
  BY DEF Init, BootMesh, PairMesh

LEMMA NextMesh ==
    IInv /\ BootMesh /\ PairMesh /\ [Next]_vars => BootMesh' /\ PairMesh'
  <1> SUFFICES ASSUME IInv, BootMesh, PairMesh, [Next]_vars
               PROVE  BootMesh' /\ PairMesh'
    OBVIOUS
  <1>1. CASE Form
    BY <1>1, FindResourcesMesh, InitSessionMesh, InitConnectFailsMesh, RegisterSessionMesh,
       BindDataMesh, BindDataFailsMesh, AnnounceMesh, PushReplicaMesh, SendAddReplicaMesh,
       SendAddReplicaFailsMesh, ReceiveAckMesh, CancelRequestsMesh DEF Form
  <1>2. ASSUME NEW p \in Peer, Serve(p)
        PROVE  BootMesh' /\ PairMesh'
    BY <1>2, AcceptorRegisterMesh, HandleAddReplicaMesh, PrebindSessionMesh,
       PrebindConnectFailsMesh, PrebindRegisterMesh, PrebindDataMesh, PrebindDataFailsMesh
    DEF Serve
  <1>3. ASSUME NEW p \in Peer, Close(p) \/ Crash(p)
        PROVE  BootMesh' /\ PairMesh'
    BY <1>3, OnPeerClosureMesh, ChannelRemoveMesh, CrashMesh DEF Close
  <1>4. CASE UNCHANGED vars
    BY <1>4 DEF vars, envVars, viewVars, netVars, formVars, addVars, BootMesh, PairMesh,
       Ahead, Dialling, Recruiting, Recruit
  <1> QED
    BY <1>1, <1>2, <1>3, <1>4 DEF Next

\* Once the group is formed without a failed connect to a live runtime, any two
\* members that are up share a control channel, whatever deaths there were while
\* it formed (bindControlToReplica, prebindControlToReplica, addReplicaAsReplica,
\* FTControlAcceptor): each member's death is seen by all others.
THEOREM MeshComplete == Spec => []FullMesh
  <1>1. ASSUME IInv, BootMesh, PairMesh
        PROVE  FullMesh
    <2> SUFFICES ASSUME stage = "done", bindFails = 0, NEW p \in joined, NEW q \in joined,
                        p # q, alive[p], alive[q]
                 PROVE  q \in control[p] \/ accepting[p] = q
      BY DEF FullMesh
    <2>1. TypeOK /\ JoinedInv
      BY <1>1 DEF IInv
    <2>2. /\ Rank(p) \in Nat /\ Rank(q) \in Nat
          /\ Rank(p) # Rank(q)
      BY <2>1, RankJoined
    <2>3. CASE p = Boot \/ q = Boot
      BY <1>1, <2>3 DEF BootMesh
    <2>4. CASE p # Boot /\ q # Boot
      <3>1. ~Recruiting
        BY DEF Recruiting
      <3>2. CASE Rank(p) < Rank(q)
        BY <1>1, <2>4, <3>1, <3>2 DEF PairMesh, Ahead, Dialling
      <3>3. CASE Rank(q) < Rank(p)
        BY <1>1, <2>4, <3>1, <3>3 DEF PairMesh, Ahead, Dialling
      <3> QED
        BY <2>2, <3>2, <3>3
    <2> QED
      BY <2>3, <2>4
  <1>2. Spec => [](BootMesh /\ PairMesh)
    BY InitMesh, NextMesh, IInvHolds, PTL DEF Spec
  <1> QED
    BY <1>1, <1>2, IInvHolds, PTL

=============================================================================
