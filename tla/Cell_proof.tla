----------------------------- MODULE Cell_proof -----------------------------
(* Proofs about Cell, for any set of super-peers, any number of slots and   *)
(* any number of deaths.                                                    *)
EXTENDS Cell, WellFoundedInduction, SequenceTheorems, TLAPS

-----------------------------------------------------------------------------
(* Facts about std::list as the tree uses it: push_back, and erase of the   *)
(* first match (SequencesExt!RemoveFirst).                                  *)

\* A set of naturals that is not empty has a least element.
LEMMA MinFacts ==
    ASSUME NEW T \in SUBSET Nat, T # {}
    PROVE  Min(T) \in T /\ \A y \in T : Min(T) <= y
  <1> DEFINE Less == {ss \in Nat \X Nat : ss[1] < ss[2]}
  <1>a. IsWellFoundedOn(Less, Nat)
    BY NatLessThanWellFounded, Zenon DEF OpToRel
  <1>1. PICK x \in T : \A y \in T : ~(<<y, x>> \in Less)
    <2> HIDE DEF Less
    <2> QED BY <1>a, WFMin
  <1>2. ASSUME NEW y \in T PROVE x <= y
    <2>1. ~(<<y, x>> \in Less)
      BY <1>1
    <2>2. <<y, x>> \in Less <=> y < x
      <3> DEFINE p == <<y, x>>
      <3>1. p \in Nat \X Nat /\ p[1] = y /\ p[2] = x
        OBVIOUS
      <3>2. p \in Less <=> p \in Nat \X Nat /\ p[1] < p[2]
        BY Zenon
      <3> QED
        BY <3>1, <3>2
    <2> HIDE DEF Less
    <2> QED
      BY <2>1, <2>2
  <1> QED
    BY <1>2 DEF Min

\* t is what list::erase of the first e leaves of s.
Erased(s, e, t) ==
    /\ (\A i \in 1..Len(s) : s[i] # e) => t = s
    /\ (\E i \in 1..Len(s) : s[i] = e) =>
          \E k \in 1..Len(s) :
              /\ s[k] = e
              /\ Len(t) = Len(s) - 1
              /\ \A i \in 1..(Len(s) - 1) : t[i] = IF i < k THEN s[i] ELSE s[i + 1]

\* RemoveFirst erases the first match.
LEMMA RemoveFirstFacts ==
    ASSUME NEW S, NEW s \in Seq(S), NEW e
    PROVE  RemoveFirst(s, e) \in Seq(S) /\ Erased(s, e, RemoveFirst(s, e))
  <1>1. CASE \A i \in 1..Len(s) : s[i] # e
    BY <1>1 DEF RemoveFirst, Erased
  <1>2. CASE \E i \in 1..Len(s) : s[i] = e
    <2> DEFINE I == {i \in 1..Len(s) : s[i] = e}
               k == Min(I)
               a == SubSeq(s, 1, k - 1)
               b == SubSeq(s, k + 1, Len(s))
    <2>1. k \in I
      <3>1. I \in SUBSET Nat /\ I # {}
        BY <1>2
      <3> HIDE DEF I
      <3> QED
        BY <3>1, MinFacts
    <2> HIDE DEF k
    <2>2. k \in 1..Len(s) /\ s[k] = e
      BY <2>1
    <2>3. RemoveFirst(s, e) = a \o b
      BY <1>2, <2>2 DEF RemoveFirst, RemoveAt, SelectInSeq, k
    <2>4. /\ a \in Seq(S) /\ Len(a) = k - 1
          /\ \A i \in 1..(k - 1) : a[i] = s[i]
      BY <2>2, SubSeqProperties
    <2>5. /\ b \in Seq(S) /\ Len(b) = Len(s) - k
          /\ \A i \in 1..(Len(s) - k) : b[i] = s[k + i]
      BY <2>2, SubSeqProperties
    <2> HIDE DEF a, b
    <2>6. /\ a \o b \in Seq(S)
          /\ Len(a \o b) = Len(s) - 1
          /\ \A i \in 1..(Len(s) - 1) : (a \o b)[i] = IF i < k THEN s[i] ELSE s[i + 1]
      <3>1. /\ a \o b \in Seq(S)
            /\ Len(a \o b) = Len(a) + Len(b)
            /\ \A i \in 1..(Len(a) + Len(b)) :
                  (a \o b)[i] = IF i <= Len(a) THEN a[i] ELSE b[i - Len(a)]
        BY <2>4, <2>5, ConcatProperties
      <3>2. Len(s) \in Nat
        OBVIOUS
      <3>3. ASSUME NEW i \in 1..(Len(s) - 1) PROVE (a \o b)[i] = IF i < k THEN s[i] ELSE s[i + 1]
        <4>1. CASE i < k
          BY <2>2, <2>4, <2>5, <3>1, <3>2, <4>1
        <4>2. CASE i >= k
          <5>1. i - (k - 1) \in 1..(Len(s) - k) /\ k + (i - (k - 1)) = i + 1
            BY <2>2, <3>2, <4>2
          <5>2. (a \o b)[i] = b[i - (k - 1)]
            BY <2>2, <2>4, <2>5, <3>1, <3>2, <4>2
          <5> QED
            BY <2>2, <2>5, <4>2, <5>1, <5>2
        <4>3. i < k \/ i >= k
          BY <2>2, <3>2
        <4> QED
          BY ONLY <4>1, <4>2, <4>3, Zenon
      <3> QED
        BY <2>2, <2>4, <2>5, <3>1, <3>2, <3>3
    <2> QED
      BY <1>2, <2>2, <2>3, <2>6 DEF Erased
  <1> QED
    BY <1>1, <1>2

\* What erase keeps: every other element, and the front unless it is erased.
LEMMA ErasedKeeps ==
    ASSUME NEW S, NEW s \in Seq(S), NEW e
    PROVE  /\ \A q \in ToSet(s) : q # e => q \in ToSet(RemoveFirst(s, e))
           /\ s # <<>> /\ Head(s) # e =>
                 RemoveFirst(s, e) # <<>> /\ Head(RemoveFirst(s, e)) = Head(s)
  <1> DEFINE t == RemoveFirst(s, e)
  <1>1. t \in Seq(S) /\ Erased(s, e, t)
    BY RemoveFirstFacts
  <1> HIDE DEF t
  <1>2. CASE \A i \in 1..Len(s) : s[i] # e
    <2>1. t = s
      BY <1>1, <1>2 DEF Erased
    <2> QED
      BY <2>1 DEF t
  <1>3. CASE \E i \in 1..Len(s) : s[i] = e
    <2>1. PICK k \in 1..Len(s) :
              /\ s[k] = e
              /\ Len(t) = Len(s) - 1
              /\ \A i \in 1..(Len(s) - 1) : t[i] = IF i < k THEN s[i] ELSE s[i + 1]
      BY <1>1, <1>3 DEF Erased
    <2>2. ASSUME NEW q \in ToSet(s), q # e PROVE q \in ToSet(t)
      <3>1. PICK i \in 1..Len(s) : q = s[i]
        BY DEF ToSet
      <3>2. CASE i < k
        <4>1. i \in 1..Len(t) /\ t[i] = q
          BY <1>1, <2>1, <3>1, <3>2
        <4> QED
          BY <1>1, <4>1 DEF ToSet
      <3>3. CASE i > k
        <4>1. i - 1 \in 1..Len(t) /\ t[i - 1] = q
          BY <1>1, <2>1, <3>1, <3>3
        <4> QED
          BY <1>1, <4>1 DEF ToSet
      <3>4. i # k
        BY <2>1, <2>2, <3>1
      <3> QED
        BY <2>1, <3>1, <3>2, <3>3, <3>4
    <2>3. ASSUME s # <<>>, Head(s) # e PROVE t # <<>> /\ Head(t) = Head(s)
      <3>1. k > 1 /\ Len(s) > 1
        BY <2>1, <2>3
      <3>2. Len(t) > 0 /\ t[1] = s[1]
        BY <1>1, <2>1, <3>1
      <3> QED
        BY <1>1, <2>3, <3>2
    <2> QED
      BY <2>2, <2>3 DEF t
  <1> QED
    BY <1>2, <1>3

\* What push_back keeps.
LEMMA AppendKeeps ==
    ASSUME NEW S, NEW s \in Seq(S), NEW e \in S
    PROVE  /\ ToSet(Append(s, e)) = ToSet(s) \cup {e}
           /\ Append(s, e) \in Seq(S)
           /\ Append(s, e) # <<>>
           /\ s # <<>> => Head(Append(s, e)) = Head(s)
  <1> DEFINE t == Append(s, e)
  <1>1. /\ t \in Seq(S) /\ Len(t) = Len(s) + 1 /\ t[Len(s) + 1] = e
        /\ \A i \in 1..Len(s) : t[i] = s[i]
    OBVIOUS
  <1> HIDE DEF t
  <1>2. ASSUME NEW x \in ToSet(t) PROVE x \in ToSet(s) \cup {e}
    <2>1. PICK i \in 1..Len(t) : x = t[i]
      BY <1>1 DEF ToSet
    <2>2. i \in 1..Len(s) \/ i = Len(s) + 1
      BY <1>1, <2>1
    <2> QED
      BY <1>1, <2>1, <2>2 DEF ToSet
  <1>3. ASSUME NEW x \in ToSet(s) \cup {e} PROVE x \in ToSet(t)
    <2>1. CASE x = e
      <3>1. Len(s) + 1 \in 1..Len(t)
        BY <1>1
      <3> QED
        BY <1>1, <2>1, <3>1 DEF ToSet
    <2>2. CASE x \in ToSet(s)
      <3>1. PICK i \in 1..Len(s) : x = s[i]
        BY <2>2 DEF ToSet
      <3>2. i \in 1..Len(t)
        BY <1>1
      <3> QED
        BY <1>1, <3>1, <3>2 DEF ToSet
    <2> QED
      BY <2>1, <2>2
  <1>4. t # <<>> /\ (s # <<>> => Head(t) = Head(s))
    BY <1>1
  <1> QED
    BY <1>1, <1>2, <1>3, <1>4 DEF t

\* A list with an element has a front.
LEMMA FrontFacts ==
    ASSUME NEW S, NEW s \in Seq(S), NEW e \in ToSet(s)
    PROVE  s # <<>> /\ Head(s) \in S /\ Head(s) \in ToSet(s) /\ e \in S
  <1>1. PICK i \in 1..Len(s) : e = s[i]
    BY DEF ToSet
  <1>2. Len(s) > 0 /\ 1 \in 1..Len(s)
    BY <1>1
  <1>3. s # <<>> /\ Head(s) = s[1]
    BY <1>2
  <1> QED
    BY <1>1, <1>2, <1>3 DEF ToSet

\* No element is twice in s.
Distinct(s) == \A i, j \in DOMAIN s : s[i] = s[j] => i = j

\* push_back of what is not in the list.
LEMMA AppendDistinct ==
    ASSUME NEW S, NEW s \in Seq(S), NEW e \in S, Distinct(s), e \notin ToSet(s)
    PROVE  Distinct(Append(s, e))
  <1> DEFINE t == Append(s, e)
  <1>1. /\ Len(s) \in Nat /\ Len(t) = Len(s) + 1 /\ t[Len(s) + 1] = e
        /\ \A i \in 1..Len(s) : t[i] = s[i]
        /\ DOMAIN s = 1..Len(s) /\ DOMAIN t = 1..Len(t)
    OBVIOUS
  <1> HIDE DEF t
  <1>2. \A i \in 1..Len(s) : s[i] # e
    BY <1>1 DEF ToSet
  <1>3. \A i, j \in 1..Len(s) : s[i] = s[j] => i = j
    BY <1>1 DEF Distinct
  <1>4. ASSUME NEW i \in 1..Len(t), NEW j \in 1..Len(t), t[i] = t[j]
        PROVE  i = j
    <2>1. i \in 1..Len(s) \/ i = Len(s) + 1
      BY <1>1
    <2>2. j \in 1..Len(s) \/ j = Len(s) + 1
      BY <1>1
    <2> QED
      BY <1>1, <1>2, <1>3, <1>4, <2>1, <2>2
  <1>5. Distinct(t)
    BY <1>1, <1>4 DEF Distinct
  <1> QED
    BY <1>5 DEF t

\* Erase of the one match.
LEMMA EraseDistinct ==
    ASSUME NEW S, NEW s \in Seq(S), NEW e, Distinct(s)
    PROVE  /\ RemoveFirst(s, e) \in Seq(S) /\ Distinct(RemoveFirst(s, e))
           /\ ToSet(RemoveFirst(s, e)) = ToSet(s) \ {e}
           /\ s = <<>> => RemoveFirst(s, e) = <<>>
  <1> DEFINE t == RemoveFirst(s, e)
  <1>1. t \in Seq(S) /\ Erased(s, e, t)
    BY RemoveFirstFacts
  <1> HIDE DEF t
  <1>2. /\ DOMAIN s = 1..Len(s) /\ DOMAIN t = 1..Len(t)
        /\ Len(s) \in Nat /\ Len(t) \in Nat
    BY <1>1
  <1>3. CASE \A i \in 1..Len(s) : s[i] # e
    <2>1. t = s
      BY <1>1, <1>3 DEF Erased
    <2>2. e \notin ToSet(s)
      BY <1>2, <1>3 DEF ToSet
    <2> QED
      BY <1>1, <2>1, <2>2 DEF t
  <1>4. CASE \E i \in 1..Len(s) : s[i] = e
    <2>1. PICK k \in 1..Len(s) :
              /\ s[k] = e
              /\ Len(t) = Len(s) - 1
              /\ \A i \in 1..(Len(s) - 1) : t[i] = IF i < k THEN s[i] ELSE s[i + 1]
      BY <1>1, <1>4 DEF Erased
    <2> DEFINE old(i) == IF i < k THEN i ELSE i + 1
    <2>2. ASSUME NEW i \in 1..Len(t)
          PROVE  old(i) \in 1..Len(s) /\ old(i) # k /\ t[i] = s[old(i)]
      BY <1>2, <2>1
    <2>3. \A i, j \in 1..Len(s) : s[i] = s[j] => i = j
      BY <1>2 DEF Distinct
    <2>4. ASSUME NEW i \in 1..Len(t), NEW j \in 1..Len(t), t[i] = t[j]
          PROVE  i = j
      <3>1. old(i) = old(j)
        <4> HIDE DEF old
        <4> QED
          BY <2>2, <2>3, <2>4
      <3> QED
        BY <1>2, <2>1, <3>1
    <2>5. ASSUME NEW x \in ToSet(t)
          PROVE  x \in ToSet(s) /\ x # e
      <3>1. PICK i \in 1..Len(t) : x = t[i]
        BY <1>2 DEF ToSet
      <3> HIDE DEF old
      <3> QED
        BY <1>2, <2>1, <2>2, <2>3, <3>1 DEF ToSet
    <2>6. ASSUME NEW x \in ToSet(s), x # e
          PROVE  x \in ToSet(t)
      BY <2>6, ErasedKeeps DEF t
    <2>7. Distinct(t)
      BY <1>2, <2>4 DEF Distinct
    <2>8. s # <<>>
      BY <2>1
    <2> QED
      BY <1>1, <2>5, <2>6, <2>7, <2>8 DEF t
  <1> QED
    BY <1>3, <1>4

\* x is before y in s.
Precedes(s, x, y) == \E i, j \in 1..Len(s) : i < j /\ s[i] = x /\ s[j] = y

\* What is before something else is in the list, and the front is behind nothing.
LEMMA PrecedesIn ==
    ASSUME NEW S, NEW s \in Seq(S), NEW x, NEW y, Precedes(s, x, y)
    PROVE  /\ x \in ToSet(s) /\ y \in ToSet(s)
           /\ Distinct(s) => x # y /\ y # Head(s)
  <1>1. PICK i \in 1..Len(s), j \in 1..Len(s) : i < j /\ s[i] = x /\ s[j] = y
    BY DEF Precedes
  <1>2. x \in ToSet(s) /\ y \in ToSet(s)
    BY <1>1 DEF ToSet
  <1>3. Head(s) = s[1] /\ 1 \in 1..Len(s) /\ j # 1 /\ i # j /\ DOMAIN s = 1..Len(s)
    BY <1>1
  <1> QED
    BY <1>1, <1>2, <1>3 DEF Distinct

\* Two elements of a list are in one order or in the other.
LEMMA PrecedesTotal ==
    ASSUME NEW S, NEW s \in Seq(S), NEW x \in ToSet(s), NEW y \in ToSet(s), x # y
    PROVE  Precedes(s, x, y) \/ Precedes(s, y, x)
  <1>1. PICK i \in 1..Len(s), j \in 1..Len(s) : s[i] = x /\ s[j] = y
    BY DEF ToSet
  <1>2. i < j \/ j < i
    BY <1>1
  <1> QED
    BY <1>1, <1>2 DEF Precedes

\* In a list that holds nothing twice the order is transitive and strict.
LEMMA PrecedesOrder ==
    ASSUME NEW S, NEW s \in Seq(S), Distinct(s), NEW x, NEW y, Precedes(s, x, y)
    PROVE  /\ \A z : Precedes(s, y, z) => Precedes(s, x, z)
           /\ ~Precedes(s, y, x)
  <1>1. PICK i \in 1..Len(s), j \in 1..Len(s) : i < j /\ s[i] = x /\ s[j] = y
    BY DEF Precedes
  <1>2. ASSUME NEW z, Precedes(s, y, z)
        PROVE  z # x /\ Precedes(s, x, z)
    <2>1. PICK k \in 1..Len(s), l \in 1..Len(s) : k < l /\ s[k] = y /\ s[l] = z
      BY <1>2 DEF Precedes
    <2>2. k = j /\ DOMAIN s = 1..Len(s)
      BY <1>1, <2>1 DEF Distinct
    <2>3. i < l /\ i # l
      BY <1>1, <2>1, <2>2
    <2> QED
      BY <1>1, <2>1, <2>2, <2>3 DEF Precedes, Distinct
  <1> QED
    BY <1>2

\* Appending keeps the order and adds only what is before the new element.
LEMMA AppendPrecedes ==
    ASSUME NEW S, NEW s \in Seq(S), NEW e \in S, NEW x, NEW y
    PROVE  /\ Precedes(s, x, y) => Precedes(Append(s, e), x, y)
           /\ Precedes(Append(s, e), x, y) /\ y # e => Precedes(s, x, y)
  <1> DEFINE t == Append(s, e)
  <1>1. /\ Len(s) \in Nat /\ Len(t) = Len(s) + 1 /\ t[Len(s) + 1] = e
        /\ \A i \in 1..Len(s) : i \in 1..Len(t) /\ t[i] = s[i]
    OBVIOUS
  <1> HIDE DEF t
  <1>2. ASSUME Precedes(s, x, y) PROVE Precedes(t, x, y)
    BY <1>1, <1>2 DEF Precedes
  <1>3. ASSUME Precedes(t, x, y), y # e PROVE Precedes(s, x, y)
    <2>1. PICK i \in 1..Len(t), j \in 1..Len(t) : i < j /\ t[i] = x /\ t[j] = y
      BY <1>3 DEF Precedes
    <2>2. j # Len(s) + 1
      BY <1>1, <1>3, <2>1
    <2>3. i \in 1..Len(s) /\ j \in 1..Len(s)
      BY <1>1, <2>1, <2>2
    <2> QED
      BY <1>1, <2>1, <2>3 DEF Precedes
  <1> QED
    BY <1>2, <1>3 DEF t

\* Erasing keeps the order of what is left.
LEMMA ErasePrecedes ==
    ASSUME NEW S, NEW s \in Seq(S), NEW e, NEW x, NEW y
    PROVE  /\ Precedes(s, x, y) /\ x # e /\ y # e => Precedes(RemoveFirst(s, e), x, y)
           /\ Precedes(RemoveFirst(s, e), x, y) => Precedes(s, x, y)
  <1> DEFINE t == RemoveFirst(s, e)
  <1>1. t \in Seq(S) /\ Erased(s, e, t)
    BY RemoveFirstFacts
  <1> HIDE DEF t
  <1>2. CASE \A i \in 1..Len(s) : s[i] # e
    <2>1. t = s
      BY <1>1, <1>2 DEF Erased
    <2> QED
      BY <2>1 DEF t
  <1>3. CASE \E i \in 1..Len(s) : s[i] = e
    <2>1. PICK k \in 1..Len(s) :
              /\ s[k] = e /\ Len(t) = Len(s) - 1
              /\ \A i \in 1..(Len(s) - 1) : t[i] = IF i < k THEN s[i] ELSE s[i + 1]
      BY <1>1, <1>3 DEF Erased
    <2>2. Len(s) \in Nat /\ Len(t) = Len(s) - 1
      BY <2>1
    <2>3. ASSUME Precedes(s, x, y), x # e, y # e PROVE Precedes(t, x, y)
      <3>1. PICK i \in 1..Len(s), j \in 1..Len(s) : i < j /\ s[i] = x /\ s[j] = y
        BY <2>3 DEF Precedes
      <3>2. i # k /\ j # k
        BY <2>1, <2>3, <3>1
      <3> DEFINE a == IF i < k THEN i ELSE i - 1
                 b == IF j < k THEN j ELSE j - 1
      <3>3. a \in 1..Len(t) /\ b \in 1..Len(t) /\ a < b
        BY <2>2, <3>1, <3>2
      <3>4. t[a] = s[i] /\ t[b] = s[j]
        BY <2>1, <2>2, <3>1, <3>2
      <3> HIDE DEF a, b
      <3> QED
        BY <3>1, <3>3, <3>4 DEF Precedes
    <2>4. ASSUME Precedes(t, x, y) PROVE Precedes(s, x, y)
      <3>1. PICK i \in 1..Len(t), j \in 1..Len(t) : i < j /\ t[i] = x /\ t[j] = y
        BY <2>4 DEF Precedes
      <3> DEFINE a == IF i < k THEN i ELSE i + 1
                 b == IF j < k THEN j ELSE j + 1
      <3>2. a \in 1..Len(s) /\ b \in 1..Len(s) /\ a < b
        BY <2>2, <3>1
      <3>3. t[i] = s[a] /\ t[j] = s[b]
        BY <2>1, <2>2, <3>1
      <3> HIDE DEF a, b
      <3> QED
        BY <3>1, <3>2, <3>3 DEF Precedes
    <2> QED
      BY <2>3, <2>4 DEF t
  <1> QED
    BY <1>2, <1>3

-----------------------------------------------------------------------------
(* The inductive invariant.                                                *)

\* A peer with a tree is on its own list.
SelfInv ==
    \A p \in Peer : role[p] \in {"member", "rebinding", "orphan"} => p \in ToSet(sps[p])

\* So it is on the list it is sent, ...
AnswerInv ==
    \A p \in Peer : HasTree(p) => answer[p] \in Seq(Peer) /\ p \in ToSet(answer[p])

\* ... because the acceptor serialised the tree after it had added the joiner.
ReplyInv ==
    \A c \in Peer : acceptor[c] # "idle" =>
        /\ serving[c] \in Peer
        /\ \/ reply[c] = Refused
           \/ reply[c] \in Seq(Peer) /\ serving[c] \in ToSet(reply[c])

\* Nobody is told of its own departure.
NoticeInv ==
    \A c, f \in Peer : \A i \in 1..Len(inbox[c][f]) : inbox[c][f][i][2] # f

\* Nobody follows itself.
ClientInv ==
    \A p \in Peer :
        /\ client[p] # p
        /\ role[p] \in {"new", "orphan"} => client[p] = NoPeer

\* A coordinator follows nobody and is the first of its list.
CoordInv ==
    \A c \in coordinator :
        /\ role[c] = "member" /\ client[c] = NoPeer
        /\ sps[c] # <<>> /\ Head(sps[c]) = c

IInv ==
    /\ TypeOK /\ SelfInv /\ AnswerInv /\ ReplyInv
    /\ NoticeInv /\ ClientInv /\ CoordInv

-----------------------------------------------------------------------------
(* The operators.                                                          *)

\* What CellTreeNode::add keeps.
LEMMA AddFacts ==
    ASSUME NEW s \in Seq(Peer), NEW p \in Peer
    PROVE  /\ Add(s, p) \in Seq(Peer)
           /\ ToSet(s) \subseteq ToSet(Add(s, p))
           /\ ~Full(s) => p \in ToSet(Add(s, p))
           /\ s # <<>> => Add(s, p) # <<>> /\ Head(Add(s, p)) = Head(s)
  BY AppendKeeps DEF Add

\* What CellTreeNode::remove keeps.
LEMMA EraseFacts ==
    ASSUME NEW s \in Seq(Peer), NEW p
    PROVE  /\ Erase(s, p) \in Seq(Peer)
           /\ \A q \in ToSet(s) : q # p => q \in ToSet(Erase(s, p))
           /\ s # <<>> /\ Head(s) # p => Erase(s, p) # <<>> /\ Head(Erase(s, p)) = Head(s)
  BY RemoveFirstFacts, ErasedKeeps DEF Erase

\* A notice is not sent to the peer it is about.
LEMMA TellFacts ==
    ASSUME TypeOK, NoticeInv, NEW c \in Peer, NEW p \in Peer,
           NEW kind \in {"join", "leave"}, Tell(c, p, kind)
    PROVE  inbox' \in [Peer -> [Peer -> Seq(Notices)]] /\ NoticeInv'
  <1>1. <<kind, p>> \in Notices /\ <<kind, p>>[2] = p
    BY DEF Notices
  <1>2. ASSUME NEW d \in Peer, NEW f \in Peer
        PROVE  /\ inbox'[d][f] \in Seq(Notices)
               /\ \A i \in 1..Len(inbox'[d][f]) : inbox'[d][f][i][2] # f
    <2>1. inbox[d][f] \in Seq(Notices)
      BY DEF TypeOK
    <2>2. \A i \in 1..Len(inbox[d][f]) : inbox[d][f][i][2] # f
      BY DEF NoticeInv
    <2>3. CASE d = c /\ f \in (followers[c] \cap alive) \ {p}
      <3>1. inbox'[d][f] = Append(inbox[d][f], <<kind, p>>)
        BY <2>3 DEF Tell, TypeOK
      <3>2. /\ Append(inbox[d][f], <<kind, p>>) \in Seq(Notices)
            /\ Len(Append(inbox[d][f], <<kind, p>>)) = Len(inbox[d][f]) + 1
            /\ \A i \in 1..(Len(inbox[d][f]) + 1) :
                  Append(inbox[d][f], <<kind, p>>)[i] =
                      IF i = Len(inbox[d][f]) + 1 THEN <<kind, p>> ELSE inbox[d][f][i]
        BY <1>1, <2>1, AppendProperties
      <3>3. \A i \in 1..(Len(inbox[d][f]) + 1) :
                i \in 1..Len(inbox[d][f]) \/ i = Len(inbox[d][f]) + 1
        BY <2>1
      <3> QED
        BY <1>1, <2>2, <2>3, <3>1, <3>2, <3>3
    <2>4. CASE ~(d = c /\ f \in (followers[c] \cap alive) \ {p})
      <3>1. inbox'[d][f] = inbox[d][f]
        BY <2>4 DEF Tell, TypeOK
      <3> QED
        BY <2>1, <2>2, <3>1
    <2> QED
      BY <2>3, <2>4
  <1>3. inbox' \in [Peer -> [Peer -> Seq(Notices)]]
    <2> DEFINE row == [f \in Peer |->
                          IF f \in (followers[c] \cap alive) \ {p}
                          THEN Append(inbox[c][f], <<kind, p>>) ELSE inbox[c][f]]
    <2>1. inbox' = [inbox EXCEPT ![c] = row]
      BY DEF Tell
    <2>2. inbox'[c] = row
      BY <2>1 DEF TypeOK
    <2>3. row \in [Peer -> Seq(Notices)]
      BY <1>2, <2>2
    <2> HIDE DEF row
    <2> QED
      BY <2>1, <2>3 DEF TypeOK
  <1> QED
    BY <1>2, <1>3 DEF NoticeInv

\* A notice that is read is about another peer.
LEMMA NoticeFacts ==
    ASSUME TypeOK, NoticeInv, NEW c \in Peer, NEW f \in Peer, NEW kind, Notice(c, f, kind)
    PROVE  /\ inbox' \in [Peer -> [Peer -> Seq(Notices)]] /\ NoticeInv'
           /\ Head(inbox[c][f])[2] \in Peer /\ Head(inbox[c][f])[2] # f
  <1> DEFINE s == inbox[c][f]
  <1>1. s \in Seq(Notices) /\ s # <<>>
    BY DEF TypeOK, Notice
  <1>2. \A i \in 1..Len(s) : s[i] \in Notices /\ s[i][2] # f
    BY <1>1 DEF NoticeInv
  <1>3. inbox' = [inbox EXCEPT ![c][f] = Tail(s)]
    BY DEF Notice
  <1> HIDE DEF s
  <1>4. /\ Tail(s) \in Seq(Notices) /\ Len(Tail(s)) = Len(s) - 1
        /\ \A i \in 1..(Len(s) - 1) : Tail(s)[i] = s[i + 1]
        /\ Head(s) = s[1] /\ 1 \in 1..Len(s)
    BY <1>1
  <1>5. \A i \in 1..Len(Tail(s)) : Tail(s)[i][2] # f
    <2>1. \A i \in 1..(Len(s) - 1) : i + 1 \in 1..Len(s)
      BY <1>1
    <2> QED
      BY <1>2, <1>4, <2>1
  <1>6. inbox' \in [Peer -> [Peer -> Seq(Notices)]]
    BY <1>3, <1>4 DEF TypeOK
  <1>7. NoticeInv'
    <2> SUFFICES ASSUME NEW d \in Peer, NEW g \in Peer
                 PROVE  \A i \in 1..Len(inbox'[d][g]) : inbox'[d][g][i][2] # g
      BY DEF NoticeInv
    <2>1. CASE d = c /\ g = f
      <3>1. inbox'[d][g] = Tail(s)
        BY <1>3, <2>1 DEF TypeOK
      <3> QED
        BY <1>5, <2>1, <3>1
    <2>2. CASE ~(d = c /\ g = f)
      <3>1. inbox'[d][g] = inbox[d][g]
        BY <1>3, <2>2 DEF TypeOK
      <3> QED
        BY <3>1 DEF NoticeInv
    <2> QED
      BY <2>1, <2>2
  <1>8. Head(s)[2] \in Peer /\ Head(s)[2] # f
    BY <1>2, <1>4 DEF Notices
  <1> QED
    BY <1>6, <1>7, <1>8 DEF s

\* A follower whose coordinator is gone is a member that is on its own list
\* without the dead peer too.
LEMMA GoneFacts ==
    ASSUME IInv, NEW p \in Peer, CoordinatorGone(p)
    PROVE  /\ role[p] = "member" /\ p \notin coordinator
           /\ Survivors(p) \in Seq(Peer) /\ p \in ToSet(Survivors(p))
           /\ Survivors(p) # <<>> /\ Head(Survivors(p)) \in Peer
  <1>1. role[p] = "member"
    BY DEF IInv, TypeOK, Role, ClientInv, CoordinatorGone, Locked
  <1>2. p \notin coordinator
    BY DEF IInv, CoordInv, CoordinatorGone
  <1>3. sps[p] \in Seq(Peer) /\ p \in ToSet(sps[p]) /\ client[p] # p
    BY <1>1 DEF IInv, TypeOK, SelfInv, ClientInv
  <1>4. Survivors(p) \in Seq(Peer) /\ p \in ToSet(Survivors(p))
    BY <1>3, EraseFacts DEF Survivors
  <1>5. Survivors(p) # <<>> /\ Head(Survivors(p)) \in Peer
    BY <1>4, FrontFacts
  <1> QED
    BY <1>1, <1>2, <1>4, <1>5

-----------------------------------------------------------------------------
(* The steps.                                                              *)

\* A new peer asks to join.
LEMMA DialInv ==
    ASSUME IInv, NEW p \in Peer, NEW c \in Peer, Dial(p, c)
    PROVE  IInv'
  <1> USE PeerAssumption DEF peerVars, joinVars, tellVars
  <1>a. Head(sps[c]) = c /\ c # p
    BY DEF Dial, IInv, CoordInv
  <1>b. /\ role' = [role EXCEPT ![p] = "joining"]
        /\ client' = [client EXCEPT ![p] = c]
        /\ asking' = asking \cup {<<p, c>>}
        /\ UNCHANGED <<alive, crashes, coordinator, sps, answer, acceptor, serving, reply,
                       group, followers, leaving, inbox, dropped>>
    BY <1>a DEF Dial
  <1>1. TypeOK'
    <2>1. role' \in [Peer -> Role]
      BY <1>b DEF IInv, TypeOK, Role
    <2>2. client' \in [Peer -> Peer \cup {NoPeer}]
      BY <1>b DEF IInv, TypeOK
    <2>3. asking' \subseteq Peer \X Peer
      <3>1. <<p, c>> \in Peer \X Peer
        OBVIOUS
      <3> QED
        BY <1>b, <3>1 DEF IInv, TypeOK
    <2> QED
      BY <1>b, <2>1, <2>2, <2>3 DEF IInv, TypeOK
  <1>2. SelfInv'
    BY <1>a DEF Dial, TypeOK, IInv, SelfInv
  <1>3. AnswerInv'
    BY <1>a DEF Dial, TypeOK, IInv, AnswerInv, HasTree, Refused
  <1>4. ReplyInv'
    BY <1>a DEF Dial, TypeOK, IInv, ReplyInv, HasTree, Refused
  <1>5. NoticeInv'
    BY <1>a DEF Dial, TypeOK, IInv, NoticeInv
  <1>6. ClientInv'
    BY <1>a DEF Dial, TypeOK, IInv, ClientInv
  <1>7. CoordInv'
    BY <1>a DEF Dial, TypeOK, IInv, CoordInv
  <1> QED
    BY <1>1, <1>2, <1>3, <1>4, <1>5, <1>6, <1>7 DEF IInv

\* The acceptor adds the joiner and tells the followers.
LEMMA HandleJoinCellInv ==
    ASSUME IInv, NEW c \in Peer, NEW p \in Peer, HandleJoinCell(c, p)
    PROVE  IInv'
  <1> USE PeerAssumption DEF peerVars, joinVars, tellVars
  <1>a. /\ sps[c] \in Seq(Peer) /\ Add(sps[c], p) \in Seq(Peer)
        /\ ToSet(sps[c]) \subseteq ToSet(Add(sps[c], p))
        /\ ~Full(sps[c]) => p \in ToSet(Add(sps[c], p))
        /\ sps[c] # <<>> => Add(sps[c], p) # <<>> /\ Head(Add(sps[c], p)) = Head(sps[c])
    BY AddFacts DEF IInv, TypeOK
  <1>b. inbox' \in [Peer -> [Peer -> Seq(Notices)]] /\ NoticeInv'
    BY TellFacts DEF HandleJoinCell, IInv
  <1>c. /\ sps' = [sps EXCEPT ![c] = Add(sps[c], p)] /\ sps'[c] = Add(sps[c], p)
        /\ UNCHANGED <<alive, crashes, role, coordinator, client, answer, group, followers,
                       leaving, dropped>>
    BY DEF HandleJoinCell, IInv, TypeOK
  <1>d. reply' = [reply EXCEPT ![c] = ReplyOf(sps[c], Add(sps[c], p))]
    BY <1>c DEF HandleJoinCell
  <1>e. /\ ReplyOf(sps[c], Add(sps[c], p)) \in Seq(Peer \cup {NoPeer})
        /\ \/ ReplyOf(sps[c], Add(sps[c], p)) = Refused
           \/ /\ ReplyOf(sps[c], Add(sps[c], p)) \in Seq(Peer)
              /\ p \in ToSet(ReplyOf(sps[c], Add(sps[c], p)))
    <2>1. CASE Full(sps[c])
      BY <2>1 DEF ReplyOf, Refused
    <2>2. CASE ~Full(sps[c])
      <3>1. ReplyOf(sps[c], Add(sps[c], p)) = Add(sps[c], p)
        BY <2>2 DEF ReplyOf
      <3>2. \A s \in Seq(Peer) : s \in Seq(Peer \cup {NoPeer})
        OBVIOUS
      <3> QED
        BY <1>a, <2>2, <3>1, <3>2
    <2> QED
      BY <2>1, <2>2
  <1>f. /\ serving' = [serving EXCEPT ![c] = p]
        /\ acceptor' = [acceptor EXCEPT ![c] = "tell"]
        /\ asking' \subseteq asking
    BY DEF HandleJoinCell
  <1>1. TypeOK'
    BY <1>a, <1>b, <1>c, <1>d, <1>e, <1>f DEF IInv, TypeOK
  <1>2. SelfInv'
    BY <1>a, <1>c DEF IInv, TypeOK, SelfInv
  <1>3. AnswerInv'
    BY <1>c DEF IInv, AnswerInv, HasTree
  <1>4. ReplyInv'
    BY <1>d, <1>e, <1>f DEF IInv, TypeOK, ReplyInv
  <1>5. NoticeInv'
    BY <1>b
  <1>6. ClientInv'
    BY <1>c DEF IInv, ClientInv
  <1>7. CoordInv'
    BY <1>a, <1>c DEF IInv, TypeOK, CoordInv
  <1> QED
    BY <1>1, <1>2, <1>3, <1>4, <1>5, <1>6, <1>7 DEF IInv

\* The joiner died before it asked.
LEMMA NoInitPacketInv ==
    ASSUME IInv, NEW c \in Peer, NEW p \in Peer, NoInitPacket(c, p)
    PROVE  IInv'
  <1> USE PeerAssumption DEF peerVars, joinVars, tellVars
  <1>1. TypeOK'
    BY DEF NoInitPacket, IInv, TypeOK, Role, Refused
  <1>2. SelfInv'
    BY DEF NoInitPacket, TypeOK, IInv, SelfInv
  <1>3. AnswerInv'
    BY DEF NoInitPacket, TypeOK, IInv, AnswerInv, HasTree, Refused
  <1>4. ReplyInv'
    BY DEF NoInitPacket, TypeOK, IInv, ReplyInv, HasTree, Refused
  <1>5. NoticeInv'
    BY DEF NoInitPacket, TypeOK, IInv, NoticeInv
  <1>6. ClientInv'
    BY DEF NoInitPacket, TypeOK, IInv, ClientInv
  <1>7. CoordInv'
    BY DEF NoInitPacket, TypeOK, IInv, CoordInv
  <1> QED
    BY <1>1, <1>2, <1>3, <1>4, <1>5, <1>6, <1>7 DEF IInv

\* The joiner is answered.
LEMMA SendReplyInv ==
    ASSUME IInv, NEW c \in Peer, SendReply(c)
    PROVE  IInv'
  <1> USE PeerAssumption DEF peerVars, joinVars, tellVars
  <1>1. TypeOK'
    BY DEF SendReply, IInv, TypeOK, Role, Refused
  <1>2. SelfInv'
    BY DEF SendReply, TypeOK, IInv, SelfInv
  <1>3. AnswerInv'
    <2> SUFFICES ASSUME NEW q \in Peer, HasTree(q)'
                 PROVE  answer'[q] \in Seq(Peer) /\ q \in ToSet(answer'[q])
      BY DEF AnswerInv
    <2>1. CASE q = serving[c]
      <3>1. answer'[q] = reply[c]
        BY <2>1 DEF SendReply, IInv, TypeOK
      <3>2. reply[c] # Refused
        BY <3>1 DEF HasTree, Refused
      <3>3. reply[c] \in Seq(Peer) /\ serving[c] \in ToSet(reply[c])
        BY <3>2 DEF SendReply, IInv, ReplyInv
      <3> QED
        BY <2>1, <3>1, <3>3
    <2>2. CASE q # serving[c]
      <3>1. answer'[q] = answer[q]
        BY <2>2 DEF SendReply, IInv, TypeOK
      <3> QED
        BY <3>1 DEF IInv, AnswerInv, HasTree, Refused
    <2> QED
      BY <2>1, <2>2
  <1>4. ReplyInv'
    BY DEF SendReply, TypeOK, IInv, ReplyInv, HasTree, Refused
  <1>5. NoticeInv'
    BY DEF SendReply, TypeOK, IInv, NoticeInv
  <1>6. ClientInv'
    BY DEF SendReply, TypeOK, IInv, ClientInv
  <1>7. CoordInv'
    BY DEF SendReply, TypeOK, IInv, CoordInv
  <1> QED
    BY <1>1, <1>2, <1>3, <1>4, <1>5, <1>6, <1>7 DEF IInv

\* The joiner cannot be answered.
LEMMA ReplyFailsInv ==
    ASSUME IInv, NEW c \in Peer, ReplyFails(c)
    PROVE  IInv'
  <1> USE PeerAssumption DEF peerVars, joinVars, tellVars
  <1>1. TypeOK'
    <2>1. <<>> \in Seq(Peer \cup {NoPeer})
      OBVIOUS
    <2>2. /\ acceptor' \in [Peer -> {"idle", "tell", "connect"}]
          /\ serving' \in [Peer -> Peer \cup {NoPeer}]
          /\ reply' \in [Peer -> Seq(Peer \cup {NoPeer})]
      BY <2>1 DEF ReplyFails, IInv, TypeOK
    <2> QED
      BY <2>2 DEF ReplyFails, IInv, TypeOK
  <1>2. SelfInv'
    BY DEF ReplyFails, TypeOK, IInv, SelfInv
  <1>3. AnswerInv'
    BY DEF ReplyFails, TypeOK, IInv, AnswerInv, HasTree, Refused
  <1>4. ReplyInv'
    BY DEF ReplyFails, TypeOK, IInv, ReplyInv, HasTree, Refused
  <1>5. NoticeInv'
    BY DEF ReplyFails, TypeOK, IInv, NoticeInv
  <1>6. ClientInv'
    BY DEF ReplyFails, TypeOK, IInv, ClientInv
  <1>7. CoordInv'
    BY DEF ReplyFails, TypeOK, IInv, CoordInv
  <1> QED
    BY <1>1, <1>2, <1>3, <1>4, <1>5, <1>6, <1>7 DEF IInv

\* The joiner becomes a follower.
LEMMA ConnectFollowerInv ==
    ASSUME IInv, NEW c \in Peer, ConnectFollower(c)
    PROVE  IInv'
  <1> USE PeerAssumption DEF peerVars, joinVars, tellVars
  <1>a. serving[c] \in Peer
    BY DEF ConnectFollower, IInv, ReplyInv
  <1>1. TypeOK'
    <2>1. group' \in [Peer -> SUBSET Peer] /\ followers' \in [Peer -> SUBSET Peer]
      BY <1>a, SMTT(30) DEF ConnectFollower, IInv, TypeOK
    <2>2. /\ acceptor' \in [Peer -> {"idle", "tell", "connect"}]
          /\ serving' \in [Peer -> Peer \cup {NoPeer}]
      BY DEF ConnectFollower, IInv, TypeOK
    <2>3. reply' \in [Peer -> Seq(Peer \cup {NoPeer})]
      <3>1. <<>> \in Seq(Peer \cup {NoPeer})
        OBVIOUS
      <3> QED
        BY <3>1 DEF ConnectFollower, IInv, TypeOK
    <2>4. UNCHANGED <<alive, crashes, role, coordinator, sps, client, asking, answer,
                      leaving, inbox, dropped>>
      BY DEF ConnectFollower
    <2> QED
      BY <2>1, <2>2, <2>3, <2>4 DEF IInv, TypeOK
  <1>2. SelfInv'
    BY DEF ConnectFollower, TypeOK, IInv, SelfInv
  <1>3. AnswerInv'
    BY DEF ConnectFollower, TypeOK, IInv, AnswerInv, HasTree, Refused
  <1>4. ReplyInv'
    BY DEF ConnectFollower, TypeOK, IInv, ReplyInv, HasTree, Refused
  <1>5. NoticeInv'
    BY DEF ConnectFollower, TypeOK, IInv, NoticeInv
  <1>6. ClientInv'
    BY DEF ConnectFollower, TypeOK, IInv, ClientInv
  <1>7. CoordInv'
    BY DEF ConnectFollower, TypeOK, IInv, CoordInv
  <1> QED
    BY <1>1, <1>2, <1>3, <1>4, <1>5, <1>6, <1>7 DEF IInv

\* The acceptor dies with its joiner.
LEMMA ConnectFollowerFailsInv ==
    ASSUME IInv, NEW c \in Peer, ConnectFollowerFails(c)
    PROVE  IInv'
  <1> USE PeerAssumption DEF peerVars, joinVars, tellVars
  <1>1. TypeOK'
    BY DEF ConnectFollowerFails, IInv, TypeOK, Role, Refused
  <1>2. SelfInv'
    BY DEF ConnectFollowerFails, TypeOK, IInv, SelfInv
  <1>3. AnswerInv'
    BY DEF ConnectFollowerFails, TypeOK, IInv, AnswerInv, HasTree, Refused
  <1>4. ReplyInv'
    BY DEF ConnectFollowerFails, TypeOK, IInv, ReplyInv, HasTree, Refused
  <1>5. NoticeInv'
    BY DEF ConnectFollowerFails, TypeOK, IInv, NoticeInv
  <1>6. ClientInv'
    BY DEF ConnectFollowerFails, TypeOK, IInv, ClientInv
  <1>7. CoordInv'
    BY DEF ConnectFollowerFails, TypeOK, IInv, CoordInv
  <1> QED
    BY <1>1, <1>2, <1>3, <1>4, <1>5, <1>6, <1>7 DEF IInv

\* The joiner takes the tree of the reply.
LEMMA JoinedInv ==
    ASSUME IInv, NEW p \in Peer, Joined(p)
    PROVE  IInv'
  <1> USE PeerAssumption DEF peerVars, joinVars, tellVars
  <1>a. answer[p] \in Seq(Peer) /\ p \in ToSet(answer[p])
    BY DEF Joined, IInv, AnswerInv
  <1>b. /\ sps' = [sps EXCEPT ![p] = answer[p]]
        /\ role' = [role EXCEPT ![p] = "member"]
    BY DEF Joined
  <1>1. TypeOK'
    <2>1. role' \in [Peer -> Role] /\ sps' \in [Peer -> Seq(Peer)]
      BY <1>a, <1>b DEF IInv, TypeOK, Role
    <2>2. answer' \in [Peer -> Seq(Peer \cup {NoPeer})]
      <3>1. <<>> \in Seq(Peer \cup {NoPeer})
        OBVIOUS
      <3> QED
        BY <3>1 DEF Joined, IInv, TypeOK
    <2>3. UNCHANGED <<alive, crashes, coordinator, client, asking, acceptor, serving, reply,
                      group, followers, leaving, inbox, dropped>>
      BY DEF Joined
    <2> QED
      BY <2>1, <2>2, <2>3 DEF IInv, TypeOK
  <1>2. SelfInv'
    BY <1>a, <1>b DEF IInv, TypeOK, SelfInv
  <1>3. AnswerInv'
    BY DEF Joined, TypeOK, IInv, AnswerInv, HasTree, Refused
  <1>4. ReplyInv'
    BY DEF Joined, TypeOK, IInv, ReplyInv, HasTree, Refused
  <1>5. NoticeInv'
    BY DEF Joined, TypeOK, IInv, NoticeInv
  <1>6. ClientInv'
    BY DEF Joined, TypeOK, IInv, ClientInv
  <1>7. CoordInv'
    BY DEF Joined, TypeOK, IInv, CoordInv
  <1> QED
    BY <1>1, <1>2, <1>3, <1>4, <1>5, <1>6, <1>7 DEF IInv

\* The joiner gives up.
LEMMA JoinFailsInv ==
    ASSUME IInv, NEW p \in Peer, JoinFails(p)
    PROVE  IInv'
  <1> USE PeerAssumption DEF peerVars, joinVars, tellVars
  <1>1. TypeOK'
    BY DEF JoinFails, IInv, TypeOK, Role, Refused
  <1>2. SelfInv'
    BY DEF JoinFails, TypeOK, IInv, SelfInv
  <1>3. AnswerInv'
    BY DEF JoinFails, TypeOK, IInv, AnswerInv, HasTree, Refused
  <1>4. ReplyInv'
    BY DEF JoinFails, TypeOK, IInv, ReplyInv, HasTree, Refused
  <1>5. NoticeInv'
    BY DEF JoinFails, TypeOK, IInv, NoticeInv
  <1>6. ClientInv'
    BY DEF JoinFails, TypeOK, IInv, ClientInv
  <1>7. CoordInv'
    BY DEF JoinFails, TypeOK, IInv, CoordInv
  <1> QED
    BY <1>1, <1>2, <1>3, <1>4, <1>5, <1>6, <1>7 DEF IInv

\* A follower is told of a joiner.
LEMMA HandleCoordinatorJoinMeshInv ==
    ASSUME IInv, NEW c \in Peer, NEW f \in Peer, HandleCoordinatorJoinMesh(c, f)
    PROVE  IInv'
  <1> USE PeerAssumption DEF peerVars, joinVars, tellVars
  <1> DEFINE x == Head(inbox[c][f])[2]
  <1>a. /\ Notice(c, f, "join")
        /\ sps' = [sps EXCEPT ![f] = Add(sps[f], x)]
        /\ dropped' \subseteq dropped \cup {f}
    BY DEF HandleCoordinatorJoinMesh
  <1>b. inbox' \in [Peer -> [Peer -> Seq(Notices)]] /\ NoticeInv' /\ x \in Peer /\ x # f
    BY <1>a, NoticeFacts DEF IInv
  <1>c. UNCHANGED <<alive, crashes, role, coordinator, client, asking, answer, acceptor,
                    serving, reply, group, followers, leaving>>
    BY <1>a DEF Notice
  <1> HIDE DEF x
  <1>d. /\ sps[f] \in Seq(Peer) /\ Add(sps[f], x) \in Seq(Peer)
        /\ ToSet(sps[f]) \subseteq ToSet(Add(sps[f], x))
        /\ sps[f] # <<>> => Add(sps[f], x) # <<>> /\ Head(Add(sps[f], x)) = Head(sps[f])
    BY <1>b, AddFacts DEF IInv, TypeOK
  <1>1. TypeOK'
    BY <1>a, <1>b, <1>c, <1>d DEF IInv, TypeOK
  <1>2. SelfInv'
    BY <1>a, <1>b, <1>c, <1>d DEF IInv, TypeOK, SelfInv
  <1>3. AnswerInv'
    BY <1>c DEF IInv, AnswerInv, HasTree
  <1>4. ReplyInv'
    BY <1>c DEF IInv, ReplyInv
  <1>5. NoticeInv'
    BY <1>b
  <1>6. ClientInv'
    BY <1>c DEF IInv, ClientInv
  <1>7. CoordInv'
    BY <1>a, <1>b, <1>c, <1>d DEF IInv, TypeOK, CoordInv
  <1> QED
    BY <1>1, <1>2, <1>3, <1>4, <1>5, <1>6, <1>7 DEF IInv

\* A follower is told of a departure.
LEMMA HandleCoordinatorLeaveMeshInv ==
    ASSUME IInv, NEW c \in Peer, NEW f \in Peer, HandleCoordinatorLeaveMesh(c, f)
    PROVE  IInv'
  <1> USE PeerAssumption DEF peerVars, joinVars, tellVars
  <1> DEFINE x == Head(inbox[c][f])[2]
  <1>a. /\ Notice(c, f, "leave")
        /\ sps' = [sps EXCEPT ![f] = Erase(sps[f], x)]
        /\ dropped' = dropped
    BY DEF HandleCoordinatorLeaveMesh
  <1>b. inbox' \in [Peer -> [Peer -> Seq(Notices)]] /\ NoticeInv' /\ x \in Peer /\ x # f
    BY <1>a, NoticeFacts DEF IInv
  <1>c. UNCHANGED <<alive, crashes, role, coordinator, client, asking, answer, acceptor,
                    serving, reply, group, followers, leaving>>
    BY <1>a DEF Notice
  <1> HIDE DEF x
  <1>d. /\ sps[f] \in Seq(Peer) /\ Erase(sps[f], x) \in Seq(Peer)
        /\ \A q \in ToSet(sps[f]) : q # x => q \in ToSet(Erase(sps[f], x))
        /\ sps[f] # <<>> /\ Head(sps[f]) # x =>
              Erase(sps[f], x) # <<>> /\ Head(Erase(sps[f], x)) = Head(sps[f])
    BY <1>b, EraseFacts DEF IInv, TypeOK
  <1>1. TypeOK'
    BY <1>a, <1>b, <1>c, <1>d DEF IInv, TypeOK
  <1>2. SelfInv'
    BY <1>a, <1>b, <1>c, <1>d DEF IInv, TypeOK, SelfInv
  <1>3. AnswerInv'
    BY <1>c DEF IInv, AnswerInv, HasTree
  <1>4. ReplyInv'
    BY <1>c DEF IInv, ReplyInv
  <1>5. NoticeInv'
    BY <1>b
  <1>6. ClientInv'
    BY <1>c DEF IInv, ClientInv
  <1>7. CoordInv'
    BY <1>a, <1>b, <1>c, <1>d DEF IInv, TypeOK, CoordInv
  <1> QED
    BY <1>1, <1>2, <1>3, <1>4, <1>5, <1>6, <1>7 DEF IInv

\* A departure is noticed.
LEMMA LeaveMeshInv ==
    ASSUME IInv, NEW c \in Peer, NEW p \in Peer, LeaveMesh(c, p)
    PROVE  IInv'
  <1> USE PeerAssumption DEF peerVars, joinVars, tellVars
  <1>a. /\ sps[c] \in Seq(Peer) /\ Erase(sps[c], p) \in Seq(Peer)
        /\ \A q \in ToSet(sps[c]) : q # p => q \in ToSet(Erase(sps[c], p))
        /\ sps[c] # <<>> /\ Head(sps[c]) # p =>
              Erase(sps[c], p) # <<>> /\ Head(Erase(sps[c], p)) = Head(sps[c])
    BY EraseFacts DEF IInv, TypeOK
  <1>b. inbox' \in [Peer -> [Peer -> Seq(Notices)]] /\ NoticeInv'
    BY TellFacts DEF LeaveMesh, IInv
  <1>c. /\ sps' = [sps EXCEPT ![c] = Erase(sps[c], p)] /\ p # c
        /\ UNCHANGED <<alive, crashes, role, coordinator, client, asking, answer, acceptor,
                       serving, reply, dropped>>
    BY DEF LeaveMesh
  <1>d. /\ group' = [group EXCEPT ![c] = @ \ {p}]
        /\ followers' = [followers EXCEPT ![c] = @ \ {p}]
        /\ leaving' = [leaving EXCEPT ![c] = p]
    BY DEF LeaveMesh
  <1>1. TypeOK'
    BY <1>a, <1>b, <1>c, <1>d DEF IInv, TypeOK
  <1>2. SelfInv'
    BY <1>a, <1>c DEF IInv, TypeOK, SelfInv
  <1>3. AnswerInv'
    BY DEF LeaveMesh, TypeOK, IInv, AnswerInv, HasTree, Refused
  <1>4. ReplyInv'
    BY DEF LeaveMesh, TypeOK, IInv, ReplyInv, HasTree, Refused
  <1>5. NoticeInv'
    BY <1>b
  <1>6. ClientInv'
    BY DEF LeaveMesh, TypeOK, IInv, ClientInv
  <1>7. CoordInv'
    BY <1>a, <1>c DEF IInv, TypeOK, CoordInv
  <1> QED
    BY <1>1, <1>2, <1>3, <1>4, <1>5, <1>6, <1>7 DEF IInv

\* A departure has been told.
LEMMA LeaveToldInv ==
    ASSUME IInv, NEW c \in Peer, LeaveTold(c)
    PROVE  IInv'
  <1> USE PeerAssumption DEF peerVars, joinVars, tellVars
  <1>1. TypeOK'
    BY DEF LeaveTold, IInv, TypeOK, Role, Refused
  <1>2. SelfInv'
    BY DEF LeaveTold, TypeOK, IInv, SelfInv
  <1>3. AnswerInv'
    BY DEF LeaveTold, TypeOK, IInv, AnswerInv, HasTree, Refused
  <1>4. ReplyInv'
    BY DEF LeaveTold, TypeOK, IInv, ReplyInv, HasTree, Refused
  <1>5. NoticeInv'
    BY DEF LeaveTold, TypeOK, IInv, NoticeInv
  <1>6. ClientInv'
    BY DEF LeaveTold, TypeOK, IInv, ClientInv
  <1>7. CoordInv'
    BY DEF LeaveTold, TypeOK, IInv, CoordInv
  <1> QED
    BY <1>1, <1>2, <1>3, <1>4, <1>5, <1>6, <1>7 DEF IInv

\* A follower is the next coordinator.
LEMMA BecomeCoordinatorInv ==
    ASSUME IInv, NEW p \in Peer, BecomeCoordinator(p)
    PROVE  IInv'
  <1> USE PeerAssumption DEF peerVars, joinVars, tellVars
  <1>a. /\ role[p] = "member" /\ p \notin coordinator
        /\ Survivors(p) \in Seq(Peer) /\ p \in ToSet(Survivors(p))
        /\ Survivors(p) # <<>> /\ Head(Survivors(p)) \in Peer
    BY GoneFacts DEF BecomeCoordinator
  <1>1. TypeOK'
    BY <1>a DEF BecomeCoordinator, IInv, TypeOK
  <1>2. SelfInv'
    BY <1>a DEF BecomeCoordinator, IInv, TypeOK, SelfInv
  <1>3. AnswerInv'
    BY DEF BecomeCoordinator, TypeOK, IInv, AnswerInv, HasTree, Refused
  <1>4. ReplyInv'
    BY DEF BecomeCoordinator, TypeOK, IInv, ReplyInv, HasTree, Refused
  <1>5. NoticeInv'
    BY DEF BecomeCoordinator, TypeOK, IInv, NoticeInv
  <1>6. ClientInv'
    BY DEF BecomeCoordinator, TypeOK, IInv, ClientInv
  <1>7. CoordInv'
    <2>1. /\ sps' = [sps EXCEPT ![p] = Survivors(p)]
          /\ client' = [client EXCEPT ![p] = NoPeer]
          /\ coordinator' = coordinator \cup {p}
          /\ role' = role
          /\ Head(Survivors(p)) = p
      BY DEF BecomeCoordinator, IsNext
    <2> SUFFICES ASSUME NEW c \in coordinator'
                 PROVE  /\ role'[c] = "member" /\ client'[c] = NoPeer
                        /\ sps'[c] # <<>> /\ Head(sps'[c]) = c
      BY DEF CoordInv
    <2>2. CASE c = p
      <3>1. sps'[c] = Survivors(p) /\ client'[c] = NoPeer /\ role'[c] = role[p]
        BY <2>1, <2>2 DEF IInv, TypeOK
      <3> QED
        BY <1>a, <2>1, <2>2, <3>1
    <2>3. CASE c # p
      <3>1. c \in coordinator /\ c \in Peer
        BY <2>1, <2>3 DEF IInv, TypeOK
      <3>2. sps'[c] = sps[c] /\ client'[c] = client[c] /\ role'[c] = role[c]
        BY <2>1, <2>3, <3>1 DEF IInv, TypeOK
      <3> QED
        BY <3>1, <3>2 DEF IInv, CoordInv
    <2> QED
      BY <2>2, <2>3
  <1> QED
    BY <1>1, <1>2, <1>3, <1>4, <1>5, <1>6, <1>7 DEF IInv

\* A follower joins the next coordinator.
LEMMA RebindToNewCoordinatorInv ==
    ASSUME IInv, NEW p \in Peer, RebindToNewCoordinator(p)
    PROVE  IInv'
  <1> USE PeerAssumption DEF peerVars, joinVars, tellVars
  <1>a. /\ role[p] = "member" /\ p \notin coordinator
        /\ Survivors(p) \in Seq(Peer) /\ p \in ToSet(Survivors(p))
        /\ Survivors(p) # <<>> /\ Head(Survivors(p)) \in Peer
    BY GoneFacts DEF RebindToNewCoordinator
  <1>b. Head(Survivors(p)) # p
    BY DEF RebindToNewCoordinator, IsNext
  <1>c. /\ sps' = [sps EXCEPT ![p] = Survivors(p)]
        /\ client' = [client EXCEPT ![p] = Head(Survivors(p))]
        /\ role' = [role EXCEPT ![p] = "rebinding"] \/ role' = role
        /\ asking' = asking \cup {<<p, Head(Survivors(p))>>} \/ asking' = asking
        /\ alive' \subseteq alive
        /\ UNCHANGED <<crashes, coordinator, answer, acceptor, serving, reply, group,
                       followers, leaving, inbox, dropped>>
    BY DEF RebindToNewCoordinator
  <1>1. TypeOK'
    <2>1. sps' \in [Peer -> Seq(Peer)] /\ client' \in [Peer -> Peer \cup {NoPeer}]
      BY <1>a, <1>c DEF IInv, TypeOK
    <2>2. role' \in [Peer -> Role]
      BY <1>c DEF IInv, TypeOK, Role
    <2>3. asking' \subseteq Peer \X Peer /\ alive' \subseteq Peer
      <3>1. <<p, Head(Survivors(p))>> \in Peer \X Peer
        BY <1>a
      <3> QED
        BY <1>c, <3>1 DEF IInv, TypeOK
    <2> QED
      BY <1>c, <2>1, <2>2, <2>3 DEF IInv, TypeOK
  <1>2. SelfInv'
    <2>1. p \in ToSet(sps'[p])
      BY <1>a, <1>c DEF IInv, TypeOK
    <2>2. ASSUME NEW q \in Peer, q # p
          PROVE  sps'[q] = sps[q] /\ role'[q] = role[q]
      BY <1>c, <2>2 DEF IInv, TypeOK
    <2> QED
      BY <2>1, <2>2 DEF IInv, SelfInv
  <1>3. AnswerInv'
    BY DEF RebindToNewCoordinator, TypeOK, IInv, AnswerInv, HasTree, Refused
  <1>4. ReplyInv'
    BY DEF RebindToNewCoordinator, TypeOK, IInv, ReplyInv, HasTree, Refused
  <1>5. NoticeInv'
    BY DEF RebindToNewCoordinator, TypeOK, IInv, NoticeInv
  <1>6. ClientInv'
    BY <1>a, <1>b, <1>c DEF IInv, TypeOK, ClientInv
  <1>7. CoordInv'
    BY <1>a, <1>c DEF IInv, TypeOK, CoordInv
  <1> QED
    BY <1>1, <1>2, <1>3, <1>4, <1>5, <1>6, <1>7 DEF IInv

\* A follower gives up.
LEMMA WrongCoordinatorInv ==
    ASSUME IInv, NEW p \in Peer, WrongCoordinator(p)
    PROVE  IInv'
  <1> USE PeerAssumption DEF peerVars, joinVars, tellVars
  <1>a. /\ role[p] = "member" /\ p \notin coordinator
        /\ Survivors(p) \in Seq(Peer) /\ p \in ToSet(Survivors(p))
        /\ Survivors(p) # <<>> /\ Head(Survivors(p)) \in Peer
    BY GoneFacts DEF WrongCoordinator
  <1>1. TypeOK'
    BY DEF WrongCoordinator, IInv, TypeOK, Role, Refused
  <1>2. SelfInv'
    BY <1>a DEF WrongCoordinator, IInv, TypeOK, SelfInv
  <1>3. AnswerInv'
    BY DEF WrongCoordinator, TypeOK, IInv, AnswerInv, HasTree, Refused
  <1>4. ReplyInv'
    BY DEF WrongCoordinator, TypeOK, IInv, ReplyInv, HasTree, Refused
  <1>5. NoticeInv'
    BY DEF WrongCoordinator, TypeOK, IInv, NoticeInv
  <1>6. ClientInv'
    BY DEF WrongCoordinator, TypeOK, IInv, ClientInv
  <1>7. CoordInv'
    BY <1>a DEF WrongCoordinator, IInv, TypeOK, CoordInv
  <1> QED
    BY <1>1, <1>2, <1>3, <1>4, <1>5, <1>6, <1>7 DEF IInv

\* A process is killed.
LEMMA CrashInv ==
    ASSUME IInv, NEW p \in Peer, Crash(p)
    PROVE  IInv'
  <1> USE PeerAssumption DEF peerVars, joinVars, tellVars
  <1>a. crashes' \in 0..MaxCrash
    BY DEF Crash, IInv, TypeOK
  <1>1. TypeOK'
    BY <1>a DEF Crash, IInv, TypeOK
  <1>2. SelfInv'
    BY DEF Crash, TypeOK, IInv, SelfInv
  <1>3. AnswerInv'
    BY DEF Crash, TypeOK, IInv, AnswerInv, HasTree, Refused
  <1>4. ReplyInv'
    BY DEF Crash, TypeOK, IInv, ReplyInv, HasTree, Refused
  <1>5. NoticeInv'
    BY DEF Crash, TypeOK, IInv, NoticeInv
  <1>6. ClientInv'
    BY DEF Crash, TypeOK, IInv, ClientInv
  <1>7. CoordInv'
    BY DEF Crash, TypeOK, IInv, CoordInv
  <1> QED
    BY <1>1, <1>2, <1>3, <1>4, <1>5, <1>6, <1>7 DEF IInv

\* No step breaks the invariant.
LEMMA Inductive ==
    ASSUME IInv, [Next]_vars
    PROVE  IInv'
  <1>1. CASE UNCHANGED vars
    BY <1>1 DEF vars, peerVars, joinVars, tellVars, IInv, TypeOK, SelfInv, AnswerInv, ReplyInv,
               NoticeInv, ClientInv, CoordInv, HasTree
  <1>2. CASE \E p \in Peer :
                \/ Joined(p) \/ JoinFails(p) \/ Crash(p)
                \/ BecomeCoordinator(p) \/ RebindToNewCoordinator(p) \/ WrongCoordinator(p)
                \/ SendReply(p) \/ ReplyFails(p)
                \/ ConnectFollower(p) \/ ConnectFollowerFails(p)
                \/ LeaveTold(p)
    BY <1>2, JoinedInv, JoinFailsInv, CrashInv, BecomeCoordinatorInv,
       RebindToNewCoordinatorInv, WrongCoordinatorInv, SendReplyInv, ReplyFailsInv,
       ConnectFollowerInv, ConnectFollowerFailsInv, LeaveToldInv
  <1>3. CASE \E c, p \in Peer :
                \/ Dial(p, c) \/ HandleJoinCell(c, p) \/ NoInitPacket(c, p)
                \/ HandleCoordinatorJoinMesh(c, p) \/ HandleCoordinatorLeaveMesh(c, p)
                \/ LeaveMesh(c, p)
    BY <1>3, DialInv, HandleJoinCellInv, NoInitPacketInv, HandleCoordinatorJoinMeshInv,
       HandleCoordinatorLeaveMeshInv, LeaveMeshInv
  <1> QED
    BY <1>1, <1>2, <1>3 DEF Next

\* The founder alone, on its own list.
LEMMA Initially == Init => IInv
  <1> SUFFICES ASSUME Init PROVE IInv
    OBVIOUS
  <1> USE PeerAssumption DEF Init
  <1>1. TypeOK
    <2>1. <<>> \in Seq(Peer) /\ <<>> \in Seq(Peer \cup {NoPeer}) /\ <<>> \in Seq(Notices)
          /\ <<Founder>> \in Seq(Peer)
      OBVIOUS
    <2> QED
      BY <2>1 DEF TypeOK, Role
  <1>2. Founder \in ToSet(<<Founder>>) /\ <<Founder>> # <<>> /\ Head(<<Founder>>) = Founder
    <2>1. 1 \in DOMAIN <<Founder>> /\ <<Founder>>[1] = Founder
      OBVIOUS
    <2> QED
      BY <2>1 DEF ToSet
  <1>3. SelfInv /\ ClientInv /\ CoordInv
    BY <1>2 DEF SelfInv, ClientInv, CoordInv
  <1>4. AnswerInv /\ ReplyInv /\ NoticeInv
    BY DEF AnswerInv, ReplyInv, NoticeInv, HasTree
  <1> QED
    BY <1>1, <1>3, <1>4 DEF IInv

\* The invariant holds throughout.
LEMMA Invariant == Spec => []IInv
  BY Initially, Inductive, PTL DEF Spec

-----------------------------------------------------------------------------
(* One coordinator.  What the coordinators' lists, the lists of the others  *)
(* and the packets under way have to do with one another.                   *)

\* No list holds a peer twice (CellTreeNode::add).
DistinctInv ==
    \A p \in Peer : Distinct(sps[p]) /\ Distinct(answer[p]) /\ Distinct(reply[p])

\* c has added p and tells it to its followers.
Serves(c, p) == acceptor[c] = "tell" /\ serving[c] = p

Waiting(p) == role[p] \in {"joining", "rebinding"} /\ answer[p] = <<>>

\* Who asks, or is being announced, waits for the answer; nobody else has one.
WaitInv ==
    /\ \A p, c \in Peer : <<p, c>> \in asking =>
          client[p] = c /\ ~Serves(c, p) /\ (p \in alive => Waiting(p))
    /\ \A p, c \in Peer : Serves(c, p) => client[p] = c /\ (p \in alive => Waiting(p))
    /\ \A p \in alive : role[p] \notin {"joining", "rebinding"} => answer[p] = <<>>

\* A live peer watches those that are connected to it.
LinkInv ==
    \A c \in alive :
        /\ acceptor[c] # "idle" => client[serving[c]] = c
        /\ \A p \in group[c] : client[p] = c

\* A live follower that has yet to hear of a joiner keeps it waiting, ...
JoinInv ==
    \A c, x \in Peer : \A f \in alive :
        <<"join", x>> \in ToSet(inbox[c][f]) => Serves(c, x)

\* ... and the departures that are told are of the dead, and never of a
\* coordinator, whom nobody watches.
LeaveInv ==
    \A c, f, x \in Peer :
        <<"leave", x>> \in ToSet(inbox[c][f]) =>
            x \notin alive /\ x \notin coordinator /\ role[x] # "new"

\* A peer that has not asked is on no list, and nobody asks it.
NewInv ==
    \A x \in Peer : role[x] = "new" =>
        \A p \in Peer :
            /\ x \notin ToSet(sps[p]) /\ x \notin ToSet(answer[p])
            /\ x \notin ToSet(reply[p]) /\ <<p, x>> \notin asking

\* Every tree starts with a coordinator.
HeadInv ==
    /\ \A p \in alive : role[p] \in {"member", "orphan"} => Head(sps[p]) \in coordinator
    /\ \A p \in Peer : HasTree(p) => Head(answer[p]) \in coordinator
    /\ \A c \in Peer : acceptor[c] = "tell" =>
          reply[c] = Refused \/ Head(reply[c]) \in coordinator

Base ==
    /\ DistinctInv /\ WaitInv /\ LinkInv /\ JoinInv /\ LeaveInv /\ NewInv /\ HeadInv

\* The changes of a list other than the replacement of the tree and the removal
\* of the coordinator: a peer that follows another is added, or one that followed
\* another and is dead is removed.
Evolves(s, t) ==
    \E x \in Peer :
        /\ x \notin coordinator /\ role[x] # "new"
        /\ t = Add(s, x) \/ (x \notin alive /\ t = Erase(s, x))

\* They keep the coordinators, the living and their order.
LEMMA EvolveFacts ==
    ASSUME NEW s \in Seq(Peer), Distinct(s), NEW t, Evolves(s, t)
    PROVE  /\ t \in Seq(Peer) /\ Distinct(t)
           /\ ToSet(t) \cap coordinator = ToSet(s) \cap coordinator
           /\ \A x : role[x] = "new" /\ x \in ToSet(t) => x \in ToSet(s)
           /\ s # <<>> /\ Head(s) \in coordinator => t # <<>> /\ Head(t) = Head(s)
           /\ \A x \in ToSet(s) : x \in alive \/ x \in coordinator => x \in ToSet(t)
           /\ \A x, y : /\ Precedes(s, x, y)
                        /\ x \in alive \/ x \in coordinator
                        /\ y \in alive \/ y \in coordinator
                        => Precedes(t, x, y)
           /\ \A x, y : Precedes(t, x, y) /\ y \in ToSet(s) => Precedes(s, x, y)
  <1>1. PICK x \in Peer :
            /\ x \notin coordinator /\ role[x] # "new"
            /\ t = Add(s, x) \/ (x \notin alive /\ t = Erase(s, x))
    BY DEF Evolves
  <1>2. CASE t = s
    BY <1>2
  <1>3. CASE t = Append(s, x) /\ x \notin ToSet(s)
    <2>1. /\ ToSet(t) = ToSet(s) \cup {x} /\ t \in Seq(Peer) /\ t # <<>>
          /\ s # <<>> => Head(t) = Head(s)
      BY <1>3, AppendKeeps
    <2>2. Distinct(t)
      BY <1>3, AppendDistinct
    <2>3. ASSUME NEW a, NEW b
          PROVE  /\ Precedes(s, a, b) => Precedes(t, a, b)
                 /\ Precedes(t, a, b) /\ b # x => Precedes(s, a, b)
      BY <1>3, AppendPrecedes
    <2> QED
      BY <1>1, <1>3, <2>1, <2>2, <2>3
  <1>4. CASE x \notin alive /\ t = Erase(s, x)
    <2>1. t \in Seq(Peer) /\ Distinct(t) /\ ToSet(t) = ToSet(s) \ {x}
      BY <1>4, EraseDistinct DEF Erase
    <2>2. s # <<>> /\ Head(s) # x => t # <<>> /\ Head(t) = Head(s)
      BY <1>4, EraseFacts
    <2>3. ASSUME NEW a, NEW b
          PROVE  /\ Precedes(s, a, b) /\ a # x /\ b # x => Precedes(t, a, b)
                 /\ Precedes(t, a, b) => Precedes(s, a, b)
      BY <1>4, ErasePrecedes DEF Erase
    <2> QED
      BY <1>1, <1>4, <2>1, <2>2, <2>3
  <1> QED
    BY <1>1, <1>2, <1>3, <1>4 DEF Add

\* What is told is in the boxes of living followers, behind what was there.
LEMMA TellAdds ==
    ASSUME TypeOK, NEW c \in Peer, NEW p \in Peer, NEW kind \in {"join", "leave"},
           Tell(c, p, kind), NEW d \in Peer, NEW f \in Peer, NEW n \in ToSet(inbox'[d][f])
    PROVE  n \in ToSet(inbox[d][f]) \/ (d = c /\ n = <<kind, p>>)
  <1>1. <<kind, p>> \in Notices
    BY DEF Notices
  <1>2. inbox[d][f] \in Seq(Notices)
    BY DEF TypeOK
  <1>3. CASE d = c /\ f \in (followers[c] \cap alive) \ {p}
    <2>1. inbox'[d][f] = Append(inbox[d][f], <<kind, p>>)
      BY <1>3 DEF Tell, TypeOK
    <2>2. ToSet(Append(inbox[d][f], <<kind, p>>)) = ToSet(inbox[d][f]) \cup {<<kind, p>>}
      BY <1>1, <1>2, AppendKeeps
    <2> QED
      BY <1>3, <2>1, <2>2
  <1>4. CASE ~(d = c /\ f \in (followers[c] \cap alive) \ {p})
    <2>1. inbox'[d][f] = inbox[d][f]
      BY <1>4 DEF Tell, TypeOK
    <2> QED
      BY <2>1
  <1> QED
    BY <1>3, <1>4

\* A notice that is read was in the box, and nothing else comes in.
LEMMA NoticeRead ==
    ASSUME TypeOK, NEW c \in Peer, NEW f \in Peer, NEW kind, Notice(c, f, kind)
    PROVE  /\ <<kind, Head(inbox[c][f])[2]>> \in ToSet(inbox[c][f])
           /\ \A d, g \in Peer : ToSet(inbox'[d][g]) \subseteq ToSet(inbox[d][g])
  <1> DEFINE s == inbox[c][f]
  <1>1. s \in Seq(Notices) /\ s # <<>> /\ Head(s)[1] = kind
    BY DEF TypeOK, Notice
  <1>2. inbox' = [inbox EXCEPT ![c][f] = Tail(s)]
    BY DEF Notice
  <1> HIDE DEF s
  <1>3. Head(s) \in ToSet(s) /\ Head(s) \in Notices
    <2>1. Head(s) = s[1] /\ 1 \in 1..Len(s)
      BY <1>1
    <2> QED
      BY <1>1, <2>1 DEF ToSet
  <1>4. Head(s) = <<kind, Head(s)[2]>>
    BY <1>1, <1>3 DEF Notices
  <1>5. ToSet(Tail(s)) \subseteq ToSet(s)
    <2>1. ASSUME NEW i \in 1..Len(Tail(s))
          PROVE  Tail(s)[i] = s[i + 1] /\ i + 1 \in 1..Len(s)
      BY <1>1
    <2> QED
      BY <1>1, <2>1 DEF ToSet
  <1>6. ASSUME NEW d \in Peer, NEW g \in Peer
        PROVE  ToSet(inbox'[d][g]) \subseteq ToSet(inbox[d][g])
    <2>1. CASE d = c /\ g = f
      <3>1. inbox'[d][g] = Tail(s)
        BY <1>2, <2>1 DEF TypeOK
      <3> QED
        BY <1>5, <2>1, <3>1 DEF s
    <2>2. CASE ~(d = c /\ g = f)
      <3>1. inbox'[d][g] = inbox[d][g]
        BY <1>2, <2>2 DEF TypeOK
      <3> QED
        BY <3>1
    <2> QED
      BY <2>1, <2>2
  <1> QED
    BY <1>3, <1>4, <1>6 DEF s

\* Steps that change no list, no request and no notice, but for processes that end.
LEMMA QuietBase ==
    ASSUME IInv, Base, alive' \subseteq alive, asking' \subseteq asking,
           UNCHANGED <<role, coordinator, sps, client, answer, acceptor, serving, reply,
                       group, inbox>>
    PROVE  Base'
  <1> USE PeerAssumption
  <1>1. DistinctInv'
    BY DEF IInv, TypeOK, Base, DistinctInv
  <1>2. WaitInv'
    BY DEF IInv, TypeOK, Base, WaitInv, Waiting, Serves
  <1>3. LinkInv'
    BY DEF IInv, TypeOK, Base, LinkInv
  <1>4. JoinInv'
    BY DEF IInv, TypeOK, Base, JoinInv, Serves
  <1>5. LeaveInv'
    BY DEF IInv, TypeOK, Base, LeaveInv
  <1>6. NewInv'
    BY DEF IInv, TypeOK, Base, NewInv
  <1>7. HeadInv'
    BY DEF IInv, TypeOK, Base, HeadInv, HasTree
  <1> QED
    BY <1>1, <1>2, <1>3, <1>4, <1>5, <1>6, <1>7 DEF Base

\* A new peer asks.
LEMMA DialBase ==
    ASSUME IInv, Base, NEW p \in Peer, NEW c \in Peer, Dial(p, c)
    PROVE  Base'
  <1> USE PeerAssumption
  <1>a. Head(sps[c]) = c /\ c # p /\ role[c] = "member" /\ role[p] = "new" /\ client[p] = NoPeer
    BY DEF Dial, IInv, CoordInv, ClientInv
  <1>b. /\ role' = [role EXCEPT ![p] = "joining"]
        /\ client' = [client EXCEPT ![p] = c]
        /\ asking' = asking \cup {<<p, c>>}
        /\ UNCHANGED <<alive, coordinator, sps, answer, acceptor, serving, reply,
                       group, inbox>>
    BY <1>a DEF Dial, tellVars
  <1>c. \A d \in Peer : <<p, d>> \notin asking /\ ~Serves(d, p)
    BY <1>a DEF Base, WaitInv
  <1>d. p \in alive
    BY DEF Dial
  <1>1. DistinctInv'
    BY <1>a, <1>b DEF IInv, TypeOK, Base, DistinctInv
  <1>2. WaitInv'
    <2>1. \A q, d \in Peer : <<q, d>> \in asking' =>
              client'[q] = d /\ ~Serves(d, q)' /\ (q \in alive' => Waiting(q)')
      <3> SUFFICES ASSUME NEW q \in Peer, NEW d \in Peer, <<q, d>> \in asking'
                   PROVE  client'[q] = d /\ ~Serves(d, q)' /\ (q \in alive' => Waiting(q)')
        OBVIOUS
      <3>1. CASE q = p
        <4>1. d = c
          BY <1>b, <1>c, <3>1
        <4>2. answer[p] = <<>>
          BY <1>a, <1>d DEF Base, WaitInv
        <4> QED
          BY <1>b, <1>c, <3>1, <4>1, <4>2 DEF IInv, TypeOK, Waiting, Serves
      <3>2. CASE q # p
        <4>1. <<q, d>> \in asking
          BY <1>b, <3>2
        <4> QED
          BY <1>b, <3>2, <4>1 DEF IInv, TypeOK, Base, WaitInv, Waiting, Serves
      <3> QED
        BY <3>1, <3>2
    <2>2. \A q, d \in Peer : Serves(d, q)' => client'[q] = d /\ (q \in alive' => Waiting(q)')
      <3> SUFFICES ASSUME NEW q \in Peer, NEW d \in Peer, Serves(d, q)'
                   PROVE  client'[q] = d /\ (q \in alive' => Waiting(q)')
        OBVIOUS
      <3>1. Serves(d, q)
        BY <1>b DEF Serves
      <3>2. client[q] = d /\ (q \in alive => Waiting(q)) /\ q # p
        BY <1>c, <3>1 DEF Base, WaitInv
      <3> QED
        BY <1>b, <3>2 DEF IInv, TypeOK, Waiting
    <2>3. \A q \in alive' : role'[q] \notin {"joining", "rebinding"} => answer'[q] = <<>>
      BY <1>b DEF IInv, TypeOK, Base, WaitInv
    <2> QED
      BY <2>1, <2>2, <2>3 DEF WaitInv
  <1>3. LinkInv'
    <2> SUFFICES ASSUME NEW d \in alive
                 PROVE  /\ acceptor[d] # "idle" => client'[serving[d]] = d
                        /\ \A q \in group[d] : client'[q] = d
      BY <1>b DEF LinkInv
    <2>1. /\ acceptor[d] # "idle" => client[serving[d]] = d /\ serving[d] \in Peer
          /\ \A q \in group[d] : client[q] = d /\ q \in Peer
          /\ d \in Peer /\ d # NoPeer
      BY ZenonT(40) DEF IInv, TypeOK, ReplyInv, Base, LinkInv
    <2>2. \A q \in Peer : client[q] = d => client'[q] = d
      BY <1>a, <1>b, <2>1 DEF IInv, TypeOK
    <2> QED
      BY <2>1, <2>2
  <1>4. JoinInv'
    BY <1>a, <1>b DEF IInv, TypeOK, Base, JoinInv, Serves
  <1>5. LeaveInv'
    BY <1>a, <1>b DEF IInv, TypeOK, Base, LeaveInv
  <1>6. NewInv'
    <2> SUFFICES ASSUME NEW x \in Peer, role'[x] = "new", NEW q \in Peer
                 PROVE  /\ x \notin ToSet(sps'[q]) /\ x \notin ToSet(answer'[q])
                        /\ x \notin ToSet(reply'[q]) /\ <<q, x>> \notin asking'
      BY DEF NewInv
    <2>1. role[x] = "new" /\ x # c
      BY <1>a, <1>b DEF IInv, TypeOK
    <2> QED
      BY <1>b, <2>1 DEF Base, NewInv
  <1>7. HeadInv'
    BY <1>a, <1>b DEF IInv, TypeOK, Base, HeadInv, HasTree
  <1> QED
    BY <1>1, <1>2, <1>3, <1>4, <1>5, <1>6, <1>7 DEF Base

\* A joiner is added and announced.
LEMMA HandleJoinBase ==
    ASSUME IInv, Base, NEW c \in Peer, NEW p \in Peer, HandleJoinCell(c, p)
    PROVE  Base'
  <1> USE PeerAssumption
  <1>a. /\ c \in alive /\ <<p, c>> \in asking /\ acceptor[c] = "idle" /\ ~Locked(c)
        /\ sps' = [sps EXCEPT ![c] = Add(sps[c], p)]
        /\ serving' = [serving EXCEPT ![c] = p]
        /\ acceptor' = [acceptor EXCEPT ![c] = "tell"]
        /\ asking' = asking \ {<<p, c>>}
        /\ Tell(c, p, "join")
        /\ UNCHANGED <<alive, role, coordinator, client, answer, group>>
    BY DEF HandleJoinCell
  <1>b. reply' = [reply EXCEPT ![c] = ReplyOf(sps[c], Add(sps[c], p))]
    BY <1>a DEF HandleJoinCell, IInv, TypeOK
  <1>c. client[p] = c /\ c # NoPeer /\ role[p] # "new" /\ p \notin coordinator
    BY <1>a DEF Base, WaitInv, IInv, ClientInv, CoordInv
  <1>d. Evolves(sps[c], Add(sps[c], p)) /\ sps[c] \in Seq(Peer) /\ Distinct(sps[c])
    BY <1>c DEF Evolves, Base, DistinctInv, IInv, TypeOK
  <1>e. /\ Distinct(Add(sps[c], p))
        /\ \A x : role[x] = "new" /\ x \in ToSet(Add(sps[c], p)) => x \in ToSet(sps[c])
        /\ sps[c] # <<>> /\ Head(sps[c]) \in coordinator =>
              Add(sps[c], p) # <<>> /\ Head(Add(sps[c], p)) = Head(sps[c])
    BY <1>d, EvolveFacts
  <1>f. role[c] \in {"member", "orphan"} /\ sps[c] # <<>> /\ Head(sps[c]) \in coordinator
    <2>1. role[c] # "new"
      BY <1>a DEF Base, NewInv
    <2>2. role[c] \in {"member", "orphan"}
      BY <1>a, <2>1 DEF Locked, IInv, TypeOK, Role
    <2>3. sps[c] # <<>>
      BY <1>d, <2>2, FrontFacts DEF IInv, SelfInv
    <2> QED
      BY <1>a, <2>2, <2>3 DEF Base, HeadInv
  <1>g. \A d, f \in Peer : \A n \in ToSet(inbox'[d][f]) :
            n \in ToSet(inbox[d][f]) \/ (d = c /\ n = <<"join", p>>)
    BY <1>a, TellAdds DEF IInv
  <1>1. DistinctInv'
    <2>1. Distinct(ReplyOf(sps[c], Add(sps[c], p)))
      <3>1. Distinct(Refused)
        BY DEF Refused, Distinct
      <3> QED
        BY <1>e, <3>1 DEF ReplyOf
    <2> QED
      BY <1>a, <1>b, <1>e, <2>1 DEF IInv, TypeOK, Base, DistinctInv
  <1>2. WaitInv'
    <2>1. \A q, d \in Peer : <<q, d>> \in asking' =>
              client'[q] = d /\ ~Serves(d, q)' /\ (q \in alive' => Waiting(q)')
      <3> SUFFICES ASSUME NEW q \in Peer, NEW d \in Peer, <<q, d>> \in asking'
                   PROVE  client'[q] = d /\ ~Serves(d, q)' /\ (q \in alive' => Waiting(q)')
        OBVIOUS
      <3>1. <<q, d>> \in asking /\ ~(q = p /\ d = c)
        BY <1>a
      <3>2. client[q] = d /\ ~Serves(d, q) /\ (q \in alive => Waiting(q))
        BY <3>1 DEF Base, WaitInv
      <3> QED
        BY <1>a, <3>1, <3>2 DEF IInv, TypeOK, Waiting, Serves
    <2>2. \A q, d \in Peer : Serves(d, q)' => client'[q] = d /\ (q \in alive' => Waiting(q)')
      <3> SUFFICES ASSUME NEW q \in Peer, NEW d \in Peer, Serves(d, q)'
                   PROVE  client'[q] = d /\ (q \in alive' => Waiting(q)')
        OBVIOUS
      <3>1. Serves(d, q) \/ (d = c /\ q = p)
        BY <1>a DEF IInv, TypeOK, Serves
      <3>2. client[q] = d /\ (q \in alive => Waiting(q))
        BY <1>a, <3>1 DEF Base, WaitInv
      <3> QED
        BY <1>a, <3>2 DEF Waiting
    <2> QED
      BY <1>a, <2>1, <2>2 DEF Base, WaitInv
  <1>3. LinkInv'
    BY <1>a, <1>c DEF IInv, TypeOK, Base, LinkInv
  <1>4. JoinInv'
    <2> SUFFICES ASSUME NEW d \in Peer, NEW x \in Peer, NEW f \in alive,
                        <<"join", x>> \in ToSet(inbox'[d][f])
                 PROVE  Serves(d, x)'
      BY <1>a DEF JoinInv
    <2>1. f \in Peer
      BY DEF IInv, TypeOK
    <2>2. CASE <<"join", x>> \in ToSet(inbox[d][f])
      <3>1. Serves(d, x)
        BY <2>2 DEF Base, JoinInv
      <3> QED
        BY <1>a, <3>1 DEF IInv, TypeOK, Serves
    <2>3. CASE d = c /\ <<"join", x>> = <<"join", p>>
      BY <1>a, <2>3 DEF IInv, TypeOK, Serves
    <2> QED
      BY <1>g, <2>1, <2>2, <2>3
  <1>5. LeaveInv'
    <2> SUFFICES ASSUME NEW d \in Peer, NEW f \in Peer, NEW x \in Peer,
                        <<"leave", x>> \in ToSet(inbox'[d][f])
                 PROVE  x \notin alive /\ x \notin coordinator /\ role[x] # "new"
      BY <1>a DEF LeaveInv
    <2>1. <<"leave", x>> \in ToSet(inbox[d][f])
      BY <1>g
    <2> QED
      BY <2>1 DEF Base, LeaveInv
  <1>6. NewInv'
    <2>1. ASSUME NEW x \in Peer, role[x] = "new"
          PROVE  x \notin ToSet(ReplyOf(sps[c], Add(sps[c], p)))
      <3>1. x \notin ToSet(sps[c])
        BY <2>1 DEF Base, NewInv
      <3>2. x \notin ToSet(Add(sps[c], p))
        BY <1>e, <2>1, <3>1
      <3>3. x \notin ToSet(Refused)
        BY DEF Refused, ToSet
      <3> QED
        BY <3>2, <3>3 DEF ReplyOf
    <2> QED
      BY <1>a, <1>b, <1>e, <2>1 DEF IInv, TypeOK, Base, NewInv
  <1>7. HeadInv'
    <2>1. ReplyOf(sps[c], Add(sps[c], p)) = Refused
              \/ Head(ReplyOf(sps[c], Add(sps[c], p))) \in coordinator
      BY <1>e, <1>f DEF ReplyOf
    <2> QED
      BY <1>a, <1>b, <1>e, <1>f, <2>1 DEF IInv, TypeOK, Base, HeadInv, HasTree
  <1> QED
    BY <1>1, <1>2, <1>3, <1>4, <1>5, <1>6, <1>7 DEF Base

\* A joiner is answered.
LEMMA SendReplyBase ==
    ASSUME IInv, Base, NEW c \in Peer, SendReply(c)
    PROVE  Base'
  <1> USE PeerAssumption
  <1> DEFINE p == serving[c]
  <1>a. /\ c \in alive /\ acceptor[c] = "tell" /\ Told(c, p, "join")
        /\ answer' = [answer EXCEPT ![p] = reply[c]]
        /\ acceptor' = [acceptor EXCEPT ![c] = "connect"]
        /\ UNCHANGED <<alive, role, coordinator, sps, client, asking, serving, reply,
                       group, inbox>>
    BY DEF SendReply, peerVars, tellVars
  <1>b. p \in Peer
    BY <1>a DEF IInv, ReplyInv
  <1> HIDE DEF p
  <1>c. Serves(c, p)
    BY <1>a DEF Serves, p
  <1>1. DistinctInv'
    BY <1>a, <1>b DEF IInv, TypeOK, Base, DistinctInv
  <1>2. WaitInv'
    <2>1. client[p] = c /\ (p \in alive => Waiting(p)) /\ <<p, c>> \notin asking
      BY <1>b, <1>c DEF Base, WaitInv
    <2>2. \A q, d \in Peer : <<q, d>> \in asking' =>
              client'[q] = d /\ ~Serves(d, q)' /\ (q \in alive' => Waiting(q)')
      <3> SUFFICES ASSUME NEW q \in Peer, NEW d \in Peer, <<q, d>> \in asking'
                   PROVE  client'[q] = d /\ ~Serves(d, q)' /\ (q \in alive' => Waiting(q)')
        OBVIOUS
      <3>1. client[q] = d /\ ~Serves(d, q) /\ (q \in alive => Waiting(q))
        BY <1>a DEF Base, WaitInv
      <3>2. q # p
        BY <1>a, <2>1, <3>1
      <3> QED
        BY <1>a, <1>b, <3>1, <3>2 DEF IInv, TypeOK, Waiting, Serves
    <2>3. \A q, d \in Peer : Serves(d, q)' => client'[q] = d /\ (q \in alive' => Waiting(q)')
      <3> SUFFICES ASSUME NEW q \in Peer, NEW d \in Peer, Serves(d, q)'
                   PROVE  client'[q] = d /\ (q \in alive' => Waiting(q)')
        OBVIOUS
      <3>1. Serves(d, q) /\ d # c
        BY <1>a DEF IInv, TypeOK, Serves
      <3>2. client[q] = d /\ (q \in alive => Waiting(q)) /\ q # p
        BY <2>1, <3>1 DEF Base, WaitInv
      <3> QED
        BY <1>a, <1>b, <3>2 DEF IInv, TypeOK, Waiting
    <2>4. \A q \in alive' : role'[q] \notin {"joining", "rebinding"} => answer'[q] = <<>>
      BY <1>a, <1>b, <2>1 DEF IInv, TypeOK, Base, WaitInv, Waiting
    <2> QED
      BY <2>2, <2>3, <2>4 DEF WaitInv
  <1>3. LinkInv'
    BY <1>a DEF IInv, TypeOK, Base, LinkInv
  <1>4. JoinInv'
    <2> SUFFICES ASSUME NEW d \in Peer, NEW x \in Peer, NEW f \in alive,
                        <<"join", x>> \in ToSet(inbox[d][f])
                 PROVE  Serves(d, x)'
      BY <1>a DEF JoinInv
    <2>1. Serves(d, x)
      BY DEF Base, JoinInv
    <2>2. d # c
      BY <1>a, <2>1 DEF Told, Serves, p
    <2> QED
      BY <1>a, <2>1, <2>2 DEF IInv, TypeOK, Serves
  <1>5. LeaveInv'
    BY <1>a, <1>b DEF IInv, TypeOK, Base, LeaveInv
  <1>6. NewInv'
    BY <1>a, <1>b DEF IInv, TypeOK, Base, NewInv
  <1>7. HeadInv'
    <2>1. reply[c] = Refused \/ Head(reply[c]) \in coordinator
      BY <1>a DEF Base, HeadInv
    <2> QED
      BY <1>a, <1>b, <2>1 DEF IInv, TypeOK, Base, HeadInv, HasTree
  <1> QED
    BY <1>1, <1>2, <1>3, <1>4, <1>5, <1>6, <1>7 DEF Base

\* A joiner cannot be answered.
LEMMA ReplyFailsBase ==
    ASSUME IInv, Base, NEW c \in Peer, ReplyFails(c)
    PROVE  Base'
  <1> USE PeerAssumption
  <1>a. /\ c \in alive /\ acceptor[c] # "idle"
        /\ acceptor' = [acceptor EXCEPT ![c] = "idle"]
        /\ serving' = [serving EXCEPT ![c] = NoPeer]
        /\ reply' = [reply EXCEPT ![c] = <<>>]
        /\ UNCHANGED <<alive, role, coordinator, sps, client, asking, answer, inbox>>
    BY DEF ReplyFails, peerVars, tellVars
  <1>d. Told(c, serving[c], "join") /\ group' = group
    BY DEF ReplyFails, tellVars
  <1>b. \A d \in Peer : \A x : Serves(d, x)' => Serves(d, x)
    BY <1>a DEF IInv, TypeOK, Serves
  <1>1. DistinctInv'
    <2>1. Distinct(<<>>)
      BY DEF Distinct
    <2> QED
      BY <1>a, <2>1 DEF IInv, TypeOK, Base, DistinctInv
  <1>2. WaitInv'
    BY <1>a, <1>b DEF Base, WaitInv, Waiting
  <1>3. LinkInv'
    BY <1>a, <1>d DEF IInv, TypeOK, Base, LinkInv
  <1>4. JoinInv'
    <2> SUFFICES ASSUME NEW d \in Peer, NEW x \in Peer, NEW f \in alive,
                        <<"join", x>> \in ToSet(inbox[d][f])
                 PROVE  Serves(d, x)'
      BY <1>a DEF JoinInv
    <2>1. Serves(d, x)
      BY DEF Base, JoinInv
    <2>2. d # c
      BY <1>d, <2>1 DEF Told, Serves
    <2> QED
      BY <1>a, <2>1, <2>2 DEF IInv, TypeOK, Serves
  <1>5. LeaveInv'
    BY <1>a DEF IInv, TypeOK, Base, LeaveInv
  <1>6. NewInv'
    <2>1. \A x : x \notin ToSet(<<>>)
      BY DEF ToSet
    <2> QED
      BY <1>a, <2>1 DEF IInv, TypeOK, Base, NewInv
  <1>7. HeadInv'
    BY <1>a DEF IInv, TypeOK, Base, HeadInv, HasTree
  <1> QED
    BY <1>1, <1>2, <1>3, <1>4, <1>5, <1>6, <1>7 DEF Base

\* A joiner is a follower.
LEMMA ConnectFollowerBase ==
    ASSUME IInv, Base, NEW c \in Peer, ConnectFollower(c)
    PROVE  Base'
  <1> USE PeerAssumption
  <1>a. /\ c \in alive /\ acceptor[c] # "idle"
        /\ acceptor' = [acceptor EXCEPT ![c] = "idle"]
        /\ serving' = [serving EXCEPT ![c] = NoPeer]
        /\ reply' = [reply EXCEPT ![c] = <<>>]
        /\ UNCHANGED <<alive, role, coordinator, sps, client, asking, answer, inbox>>
    BY DEF ConnectFollower, peerVars, tellVars
  <1>d. acceptor[c] = "connect" /\ group' = [group EXCEPT ![c] = @ \cup {serving[c]}]
    BY DEF ConnectFollower
  <1>b. \A d \in Peer : \A x : Serves(d, x)' => Serves(d, x)
    BY <1>a DEF IInv, TypeOK, Serves
  <1>1. DistinctInv'
    <2>1. Distinct(<<>>)
      BY DEF Distinct
    <2> QED
      BY <1>a, <2>1 DEF IInv, TypeOK, Base, DistinctInv
  <1>2. WaitInv'
    BY <1>a, <1>b DEF Base, WaitInv, Waiting
  <1>3. LinkInv'
    BY <1>a, <1>d DEF IInv, TypeOK, Base, LinkInv
  <1>4. JoinInv'
    <2> SUFFICES ASSUME NEW d \in Peer, NEW x \in Peer, NEW f \in alive,
                        <<"join", x>> \in ToSet(inbox[d][f])
                 PROVE  Serves(d, x)'
      BY <1>a DEF JoinInv
    <2>1. Serves(d, x)
      BY DEF Base, JoinInv
    <2>2. d # c
      BY <1>d, <2>1 DEF Serves
    <2> QED
      BY <1>a, <2>1, <2>2 DEF IInv, TypeOK, Serves
  <1>5. LeaveInv'
    BY <1>a DEF IInv, TypeOK, Base, LeaveInv
  <1>6. NewInv'
    <2>1. \A x : x \notin ToSet(<<>>)
      BY DEF ToSet
    <2> QED
      BY <1>a, <2>1 DEF IInv, TypeOK, Base, NewInv
  <1>7. HeadInv'
    BY <1>a DEF IInv, TypeOK, Base, HeadInv, HasTree
  <1> QED
    BY <1>1, <1>2, <1>3, <1>4, <1>5, <1>6, <1>7 DEF Base

\* A joiner takes the tree of its answer.
LEMMA JoinedBase ==
    ASSUME IInv, Base, NEW p \in Peer, Joined(p)
    PROVE  Base'
  <1> USE PeerAssumption
  <1>a. /\ p \in alive /\ role[p] \in {"joining", "rebinding"} /\ HasTree(p)
        /\ sps' = [sps EXCEPT ![p] = answer[p]]
        /\ role' = [role EXCEPT ![p] = "member"]
        /\ answer' = [answer EXCEPT ![p] = <<>>]
        /\ UNCHANGED <<alive, coordinator, client, asking, acceptor, serving, reply,
                       group, inbox>>
    BY DEF Joined, tellVars
  <1>b. answer[p] # <<>> /\ ~Waiting(p)
    BY <1>a DEF HasTree, Waiting
  <1>c. \A d \in Peer : <<p, d>> \notin asking /\ ~Serves(d, p)
    BY <1>a, <1>b DEF Base, WaitInv
  <1>1. DistinctInv'
    <2>1. Distinct(<<>>)
      BY DEF Distinct
    <2> QED
      BY <1>a, <2>1 DEF IInv, TypeOK, Base, DistinctInv
  <1>2. WaitInv'
    <2>1. \A q \in Peer \ {p} : Waiting(q) => Waiting(q)'
      BY <1>a DEF IInv, TypeOK, Waiting
    <2>2. \A d, x : Serves(d, x)' <=> Serves(d, x)
      BY <1>a DEF Serves
    <2>3. \A q \in alive' : role'[q] \notin {"joining", "rebinding"} => answer'[q] = <<>>
      BY <1>a DEF IInv, TypeOK, Base, WaitInv
    <2> QED
      BY <1>a, <1>c, <2>1, <2>2, <2>3 DEF Base, WaitInv
  <1>3. LinkInv'
    BY <1>a DEF IInv, TypeOK, Base, LinkInv
  <1>4. JoinInv'
    BY <1>a DEF IInv, TypeOK, Base, JoinInv, Serves
  <1>5. LeaveInv'
    BY <1>a DEF IInv, TypeOK, Base, LeaveInv
  <1>6. NewInv'
    <2>1. \A x : x \notin ToSet(<<>>)
      BY DEF ToSet
    <2> QED
      BY <1>a, <2>1 DEF IInv, TypeOK, Base, NewInv
  <1>7. HeadInv'
    BY <1>a DEF IInv, TypeOK, Base, HeadInv, HasTree
  <1> QED
    BY <1>1, <1>2, <1>3, <1>4, <1>5, <1>6, <1>7 DEF Base

\* A follower is told of a joiner.
LEMMA JoinNoticeBase ==
    ASSUME IInv, Base, NEW c \in Peer, NEW f \in Peer, HandleCoordinatorJoinMesh(c, f)
    PROVE  Base'
  <1> USE PeerAssumption
  <1> DEFINE x == Head(inbox[c][f])[2]
             t == Add(sps[f], x)
  <1>a. /\ Notice(c, f, "join") /\ f \in alive
        /\ sps' = [sps EXCEPT ![f] = t]
        /\ UNCHANGED <<alive, role, coordinator, client, asking, answer, acceptor, serving,
                       reply, group>>
    BY DEF HandleCoordinatorJoinMesh, Notice, joinVars
  <1>b. /\ <<"join", x>> \in ToSet(inbox[c][f]) /\ x \in Peer
        /\ \A d, g \in Peer : ToSet(inbox'[d][g]) \subseteq ToSet(inbox[d][g])
    BY <1>a, NoticeRead, NoticeFacts DEF IInv
  <1>c. x \notin coordinator /\ role[x] # "new"
    <2>1. Serves(c, x)
      BY <1>a, <1>b DEF Base, JoinInv
    <2>2. client[x] = c /\ c # NoPeer
      BY <1>b, <2>1 DEF Base, WaitInv
    <2> QED
      BY <1>b, <2>2 DEF IInv, CoordInv, ClientInv
  <1>d. Evolves(sps[f], t) /\ sps[f] \in Seq(Peer) /\ Distinct(sps[f])
    BY <1>b, <1>c DEF Evolves, Base, DistinctInv, IInv, TypeOK
  <1> HIDE DEF x, t
  <1>e. /\ Distinct(t)
        /\ \A y : role[y] = "new" /\ y \in ToSet(t) => y \in ToSet(sps[f])
        /\ sps[f] # <<>> /\ Head(sps[f]) \in coordinator => t # <<>> /\ Head(t) = Head(sps[f])
    BY <1>d, EvolveFacts
  <1>1. DistinctInv'
    BY <1>a, <1>e DEF IInv, TypeOK, Base, DistinctInv
  <1>2. WaitInv'
    <2>1. \A q, d : Serves(d, q)' <=> Serves(d, q)
      BY <1>a DEF Serves
    <2>2. \A q : Waiting(q)' <=> Waiting(q)
      BY <1>a DEF Waiting
    <2> QED
      BY <1>a, <2>1, <2>2 DEF Base, WaitInv
  <1>3. LinkInv'
    BY <1>a DEF IInv, TypeOK, Base, LinkInv
  <1>4. JoinInv'
    <2> SUFFICES ASSUME NEW d \in Peer, NEW y \in Peer, NEW g \in alive,
                        <<"join", y>> \in ToSet(inbox'[d][g])
                 PROVE  Serves(d, y)'
      BY <1>a DEF JoinInv
    <2>1. g \in Peer
      BY DEF IInv, TypeOK
    <2>2. <<"join", y>> \in ToSet(inbox[d][g])
      BY <1>b, <2>1
    <2> QED
      BY <1>a, <2>2 DEF Base, JoinInv, Serves
  <1>5. LeaveInv'
    BY <1>a, <1>b DEF IInv, TypeOK, Base, LeaveInv
  <1>6. NewInv'
    BY <1>a, <1>e DEF IInv, TypeOK, Base, NewInv
  <1>7. HeadInv'
    <2>1. role[f] \in {"member", "orphan"} => sps[f] # <<>>
      BY <1>d, FrontFacts DEF IInv, SelfInv
    <2> QED
      BY <1>a, <1>e, <2>1 DEF IInv, TypeOK, Base, HeadInv, HasTree
  <1> QED
    BY <1>1, <1>2, <1>3, <1>4, <1>5, <1>6, <1>7 DEF Base

\* A follower is told of a departure.
LEMMA LeaveNoticeBase ==
    ASSUME IInv, Base, NEW c \in Peer, NEW f \in Peer, HandleCoordinatorLeaveMesh(c, f)
    PROVE  Base'
  <1> USE PeerAssumption
  <1> DEFINE x == Head(inbox[c][f])[2]
             t == Erase(sps[f], x)
  <1>a. /\ Notice(c, f, "leave") /\ f \in alive
        /\ sps' = [sps EXCEPT ![f] = t]
        /\ UNCHANGED <<alive, role, coordinator, client, asking, answer, acceptor, serving,
                       reply, group>>
    BY DEF HandleCoordinatorLeaveMesh, Notice, joinVars
  <1>b. /\ <<"leave", x>> \in ToSet(inbox[c][f]) /\ x \in Peer
        /\ \A d, g \in Peer : ToSet(inbox'[d][g]) \subseteq ToSet(inbox[d][g])
    BY <1>a, NoticeRead, NoticeFacts DEF IInv
  <1>c. x \notin coordinator /\ x \notin alive /\ role[x] # "new"
    BY <1>b DEF Base, LeaveInv
  <1>d. Evolves(sps[f], t) /\ sps[f] \in Seq(Peer) /\ Distinct(sps[f])
    BY <1>b, <1>c DEF Evolves, Base, DistinctInv, IInv, TypeOK
  <1> HIDE DEF x, t
  <1>e. /\ Distinct(t)
        /\ \A y : role[y] = "new" /\ y \in ToSet(t) => y \in ToSet(sps[f])
        /\ sps[f] # <<>> /\ Head(sps[f]) \in coordinator => t # <<>> /\ Head(t) = Head(sps[f])
    BY <1>d, EvolveFacts
  <1>1. DistinctInv'
    BY <1>a, <1>e DEF IInv, TypeOK, Base, DistinctInv
  <1>2. WaitInv'
    <2>1. \A q, d : Serves(d, q)' <=> Serves(d, q)
      BY <1>a DEF Serves
    <2>2. \A q : Waiting(q)' <=> Waiting(q)
      BY <1>a DEF Waiting
    <2> QED
      BY <1>a, <2>1, <2>2 DEF Base, WaitInv
  <1>3. LinkInv'
    BY <1>a DEF IInv, TypeOK, Base, LinkInv
  <1>4. JoinInv'
    <2> SUFFICES ASSUME NEW d \in Peer, NEW y \in Peer, NEW g \in alive,
                        <<"join", y>> \in ToSet(inbox'[d][g])
                 PROVE  Serves(d, y)'
      BY <1>a DEF JoinInv
    <2>1. g \in Peer
      BY DEF IInv, TypeOK
    <2>2. <<"join", y>> \in ToSet(inbox[d][g])
      BY <1>b, <2>1
    <2> QED
      BY <1>a, <2>2 DEF Base, JoinInv, Serves
  <1>5. LeaveInv'
    BY <1>a, <1>b DEF IInv, TypeOK, Base, LeaveInv
  <1>6. NewInv'
    BY <1>a, <1>e DEF IInv, TypeOK, Base, NewInv
  <1>7. HeadInv'
    <2>1. role[f] \in {"member", "orphan"} => sps[f] # <<>>
      BY <1>d, FrontFacts DEF IInv, SelfInv
    <2> QED
      BY <1>a, <1>e, <2>1 DEF IInv, TypeOK, Base, HeadInv, HasTree
  <1> QED
    BY <1>1, <1>2, <1>3, <1>4, <1>5, <1>6, <1>7 DEF Base

\* A departure is noticed and told.
LEMMA LeaveMeshBase ==
    ASSUME IInv, Base, NEW c \in Peer, NEW p \in Peer, LeaveMesh(c, p)
    PROVE  Base'
  <1> USE PeerAssumption
  <1> DEFINE t == Erase(sps[c], p)
  <1>a. /\ c \in alive /\ p \in group[c] /\ p \notin alive /\ Tell(c, p, "leave")
        /\ sps' = [sps EXCEPT ![c] = t]
        /\ group' = [group EXCEPT ![c] = @ \ {p}]
        /\ UNCHANGED <<alive, role, coordinator, client, asking, answer, acceptor, serving, reply>>
    BY DEF LeaveMesh, joinVars
  <1>b. client[p] = c /\ p \notin coordinator /\ role[p] # "new"
    BY <1>a DEF Base, LinkInv, IInv, CoordInv, ClientInv
  <1>d. Evolves(sps[c], t) /\ sps[c] \in Seq(Peer) /\ Distinct(sps[c])
    BY <1>a, <1>b DEF Evolves, Base, DistinctInv, IInv, TypeOK
  <1> HIDE DEF t
  <1>e. /\ Distinct(t)
        /\ \A y : role[y] = "new" /\ y \in ToSet(t) => y \in ToSet(sps[c])
        /\ sps[c] # <<>> /\ Head(sps[c]) \in coordinator => t # <<>> /\ Head(t) = Head(sps[c])
    BY <1>d, EvolveFacts
  <1>g. \A d, f \in Peer : \A n \in ToSet(inbox'[d][f]) :
            n \in ToSet(inbox[d][f]) \/ (d = c /\ n = <<"leave", p>>)
    BY <1>a, TellAdds DEF IInv
  <1>1. DistinctInv'
    BY <1>a, <1>e DEF IInv, TypeOK, Base, DistinctInv
  <1>2. WaitInv'
    <2>1. \A q, d : Serves(d, q)' <=> Serves(d, q)
      BY <1>a DEF Serves
    <2>2. \A q : Waiting(q)' <=> Waiting(q)
      BY <1>a DEF Waiting
    <2> QED
      BY <1>a, <2>1, <2>2 DEF Base, WaitInv
  <1>3. LinkInv'
    BY <1>a DEF IInv, TypeOK, Base, LinkInv
  <1>4. JoinInv'
    <2> SUFFICES ASSUME NEW d \in Peer, NEW x \in Peer, NEW f \in alive,
                        <<"join", x>> \in ToSet(inbox'[d][f])
                 PROVE  Serves(d, x)'
      BY <1>a DEF JoinInv
    <2>1. f \in Peer
      BY DEF IInv, TypeOK
    <2>2. <<"join", x>> \in ToSet(inbox[d][f])
      BY <1>g, <2>1
    <2> QED
      BY <1>a, <2>2 DEF Base, JoinInv, Serves
  <1>5. LeaveInv'
    <2> SUFFICES ASSUME NEW d \in Peer, NEW f \in Peer, NEW x \in Peer,
                        <<"leave", x>> \in ToSet(inbox'[d][f])
                 PROVE  x \notin alive /\ x \notin coordinator /\ role[x] # "new"
      BY <1>a DEF LeaveInv
    <2>1. <<"leave", x>> \in ToSet(inbox[d][f]) \/ x = p
      BY <1>g
    <2> QED
      BY <1>a, <1>b, <2>1 DEF Base, LeaveInv
  <1>6. NewInv'
    BY <1>a, <1>e DEF IInv, TypeOK, Base, NewInv
  <1>7. HeadInv'
    <2>1. role[c] \in {"member", "orphan"} => sps[c] # <<>>
      BY <1>d, FrontFacts DEF IInv, SelfInv
    <2> QED
      BY <1>a, <1>e, <2>1 DEF IInv, TypeOK, Base, HeadInv, HasTree
  <1> QED
    BY <1>1, <1>2, <1>3, <1>4, <1>5, <1>6, <1>7 DEF Base

\* A follower is the next coordinator.
LEMMA BecomeBase ==
    ASSUME IInv, Base, NEW p \in Peer, BecomeCoordinator(p)
    PROVE  Base'
  <1> USE PeerAssumption
  <1>a. /\ role[p] = "member" /\ p \notin coordinator
        /\ Survivors(p) \in Seq(Peer) /\ p \in ToSet(Survivors(p))
        /\ Survivors(p) # <<>> /\ Head(Survivors(p)) \in Peer
    BY GoneFacts DEF BecomeCoordinator
  <1>b. /\ p \in alive /\ client[p] \in Peer /\ client[p] \notin alive
        /\ sps[p] \in Seq(Peer) /\ Distinct(sps[p])
    BY DEF BecomeCoordinator, CoordinatorGone, Base, DistinctInv, IInv, TypeOK
  <1>c. \A d \in Peer : <<p, d>> \notin asking /\ ~Serves(d, p)
    BY <1>a, <1>b DEF Base, WaitInv, Waiting
  <1>d. Distinct(Survivors(p)) /\ ToSet(Survivors(p)) \subseteq ToSet(sps[p])
    BY <1>b, EraseDistinct DEF Survivors, Erase
  <1>e. /\ sps' = [sps EXCEPT ![p] = Survivors(p)] /\ Head(Survivors(p)) = p
        /\ coordinator' = coordinator \cup {p}
        /\ client' = [client EXCEPT ![p] = NoPeer]
        /\ UNCHANGED <<alive, role, asking, answer, acceptor, serving, reply, group, inbox>>
    BY DEF BecomeCoordinator, IsNext, joinVars, tellVars
  <1>1. DistinctInv'
    BY <1>a, <1>b, <1>d, <1>e DEF IInv, TypeOK, Base, DistinctInv
  <1>2. WaitInv'
    <2>1. \A q, d : Serves(d, q)' <=> Serves(d, q)
      BY <1>e DEF Serves
    <2>2. \A q : Waiting(q)' <=> Waiting(q)
      BY <1>e DEF Waiting
    <2>3. \A q \in Peer \ {p} : client'[q] = client[q]
      BY <1>e DEF IInv, TypeOK
    <2> QED
      BY <1>c, <1>e, <2>1, <2>2, <2>3, ZenonT(40) DEF Base, WaitInv
  <1>3. LinkInv'
    <2> SUFFICES ASSUME NEW d \in alive
                 PROVE  /\ acceptor[d] # "idle" => client'[serving[d]] = d
                        /\ \A q \in group[d] : client'[q] = d
      BY <1>e DEF LinkInv
    <2>1. /\ acceptor[d] # "idle" => client[serving[d]] = d /\ serving[d] \in Peer
          /\ \A q \in group[d] : client[q] = d /\ q \in Peer
      BY DEF IInv, TypeOK, ReplyInv, Base, LinkInv
    <2>2. \A q \in Peer : client[q] = d => client'[q] = d
      BY <1>b, <1>e DEF IInv, TypeOK
    <2> QED
      BY <2>1, <2>2
  <1>4. JoinInv'
    BY <1>a, <1>b, <1>d, <1>e DEF IInv, TypeOK, Base, JoinInv, Serves
  <1>5. LeaveInv'
    BY <1>a, <1>b, <1>d, <1>e DEF IInv, TypeOK, Base, LeaveInv
  <1>6. NewInv'
    BY <1>a, <1>b, <1>d, <1>e DEF IInv, TypeOK, Base, NewInv
  <1>7. HeadInv'
    BY <1>a, <1>b, <1>d, <1>e DEF IInv, TypeOK, Base, HeadInv, HasTree
  <1> QED
    BY <1>1, <1>2, <1>3, <1>4, <1>5, <1>6, <1>7 DEF Base

\* A follower asks the next coordinator.
LEMMA RebindBase ==
    ASSUME IInv, Base, NEW p \in Peer, RebindToNewCoordinator(p)
    PROVE  Base'
  <1> USE PeerAssumption
  <1>a. /\ role[p] = "member" /\ p \notin coordinator
        /\ Survivors(p) \in Seq(Peer) /\ p \in ToSet(Survivors(p))
        /\ Survivors(p) # <<>> /\ Head(Survivors(p)) \in Peer
    BY GoneFacts DEF RebindToNewCoordinator
  <1>b. /\ p \in alive /\ client[p] \in Peer /\ client[p] \notin alive
        /\ sps[p] \in Seq(Peer) /\ Distinct(sps[p])
    BY DEF RebindToNewCoordinator, CoordinatorGone, Base, DistinctInv, IInv, TypeOK
  <1>c. \A d \in Peer : <<p, d>> \notin asking /\ ~Serves(d, p)
    BY <1>a, <1>b DEF Base, WaitInv, Waiting
  <1>d. Distinct(Survivors(p)) /\ ToSet(Survivors(p)) \subseteq ToSet(sps[p])
    BY <1>b, EraseDistinct DEF Survivors, Erase
  <1> DEFINE n == Head(Survivors(p))
  <1>e. /\ sps' = [sps EXCEPT ![p] = Survivors(p)] /\ n # p
        /\ client' = [client EXCEPT ![p] = n]
        /\ \/ /\ role' = [role EXCEPT ![p] = "rebinding"]
              /\ asking' = asking \cup {<<p, n>>} /\ alive' = alive
           \/ role' = role /\ asking' = asking /\ alive' = alive \ {p}
        /\ UNCHANGED <<coordinator, answer, acceptor, serving, reply, group, inbox>>
    BY DEF RebindToNewCoordinator, IsNext, tellVars
  <1>f. n \in ToSet(sps[p]) /\ n \in Peer
    BY <1>a, <1>d, FrontFacts
  <1> HIDE DEF n
  <1>1. DistinctInv'
    BY <1>a, <1>b, <1>d, <1>e DEF IInv, TypeOK, Base, DistinctInv
  <1>2. WaitInv'
    <2>1. \A q, d \in Peer : <<q, d>> \in asking' =>
              client'[q] = d /\ ~Serves(d, q)' /\ (q \in alive' => Waiting(q)')
      <3> SUFFICES ASSUME NEW q \in Peer, NEW d \in Peer, <<q, d>> \in asking'
                   PROVE  client'[q] = d /\ ~Serves(d, q)' /\ (q \in alive' => Waiting(q)')
        OBVIOUS
      <3>1. CASE q = p
        <4>1. d = n /\ role' = [role EXCEPT ![p] = "rebinding"]
          BY <1>c, <1>e, <3>1
        <4>2. answer[p] = <<>>
          BY <1>a, <1>b DEF Base, WaitInv
        <4> QED
          BY <1>c, <1>e, <1>f, <3>1, <4>1, <4>2 DEF IInv, TypeOK, Waiting, Serves
      <3>2. CASE q # p
        <4>1. <<q, d>> \in asking
          BY <1>e, <3>2
        <4>2. client[q] = d /\ ~Serves(d, q) /\ (q \in alive => Waiting(q))
          BY <4>1 DEF Base, WaitInv
        <4>3. client'[q] = d /\ ~Serves(d, q)' /\ (Waiting(q) => Waiting(q)')
          BY <1>e, <3>2, <4>2 DEF IInv, TypeOK, Waiting, Serves
        <4> QED
          BY <1>e, <4>2, <4>3
      <3> QED
        BY <3>1, <3>2
    <2>2. \A q, d \in Peer : Serves(d, q)' => client'[q] = d /\ (q \in alive' => Waiting(q)')
      <3> SUFFICES ASSUME NEW q \in Peer, NEW d \in Peer, Serves(d, q)'
                   PROVE  client'[q] = d /\ (q \in alive' => Waiting(q)')
        OBVIOUS
      <3>1. Serves(d, q)
        BY <1>e DEF Serves
      <3>2. client[q] = d /\ (q \in alive => Waiting(q)) /\ q # p
        BY <1>c, <3>1 DEF Base, WaitInv
      <3> QED
        BY <1>e, <3>2 DEF IInv, TypeOK, Waiting
    <2>3. \A q \in alive' : role'[q] \notin {"joining", "rebinding"} => answer'[q] = <<>>
      BY <1>e, SMTT(30) DEF IInv, TypeOK, Base, WaitInv
    <2> QED
      BY <2>1, <2>2, <2>3 DEF WaitInv
  <1>3. LinkInv'
    <2> SUFFICES ASSUME NEW d \in alive'
                 PROVE  /\ acceptor[d] # "idle" => client'[serving[d]] = d
                        /\ \A q \in group[d] : client'[q] = d
      BY <1>e DEF LinkInv
    <2>1. d \in alive
      BY <1>e
    <2>2. /\ acceptor[d] # "idle" => client[serving[d]] = d /\ serving[d] \in Peer
          /\ \A q \in group[d] : client[q] = d /\ q \in Peer
      BY <2>1 DEF IInv, TypeOK, ReplyInv, Base, LinkInv
    <2>3. \A q \in Peer : client[q] = d => client'[q] = d
      BY <1>b, <1>e, <2>1 DEF IInv, TypeOK
    <2> QED
      BY <2>2, <2>3
  <1>4. JoinInv'
    <2>1. \A q, d : Serves(d, q)' <=> Serves(d, q)
      BY <1>e DEF Serves
    <2>2. alive' \subseteq alive /\ inbox' = inbox
      BY <1>e
    <2> QED
      BY <2>1, <2>2 DEF Base, JoinInv
  <1>5. LeaveInv'
    <2>1. \A x \in Peer : role[x] # "new" => role'[x] # "new"
      BY <1>e DEF IInv, TypeOK
    <2>2. alive' \subseteq alive /\ inbox' = inbox /\ coordinator' = coordinator
      BY <1>e
    <2> QED
      BY <2>1, <2>2 DEF Base, LeaveInv
  <1>6. NewInv'
    <2> SUFFICES ASSUME NEW x \in Peer, role'[x] = "new", NEW q \in Peer
                 PROVE  /\ x \notin ToSet(sps'[q]) /\ x \notin ToSet(answer'[q])
                        /\ x \notin ToSet(reply'[q]) /\ <<q, x>> \notin asking'
      BY DEF NewInv
    <2>1. role[x] = "new"
      BY <1>e DEF IInv, TypeOK
    <2>2. x # n
      BY <1>f, <2>1 DEF Base, NewInv
    <2> QED
      BY <1>d, <1>e, <2>1, <2>2 DEF IInv, TypeOK, Base, NewInv
  <1>7. HeadInv'
    BY <1>a, <1>b, <1>d, <1>e DEF IInv, TypeOK, Base, HeadInv, HasTree
  <1> QED
    BY <1>1, <1>2, <1>3, <1>4, <1>5, <1>6, <1>7 DEF Base

\* A follower gives up.
LEMMA WrongBase ==
    ASSUME IInv, Base, NEW p \in Peer, WrongCoordinator(p)
    PROVE  Base'
  <1> USE PeerAssumption
  <1>a. /\ role[p] = "member" /\ p \notin coordinator
        /\ Survivors(p) \in Seq(Peer) /\ p \in ToSet(Survivors(p))
        /\ Survivors(p) # <<>> /\ Head(Survivors(p)) \in Peer
    BY GoneFacts DEF WrongCoordinator
  <1>b. /\ p \in alive /\ client[p] \in Peer /\ client[p] \notin alive
        /\ sps[p] \in Seq(Peer) /\ Distinct(sps[p])
    BY DEF WrongCoordinator, CoordinatorGone, Base, DistinctInv, IInv, TypeOK
  <1>c. \A d \in Peer : <<p, d>> \notin asking /\ ~Serves(d, p)
    BY <1>a, <1>b DEF Base, WaitInv, Waiting
  <1>d. Distinct(Survivors(p)) /\ ToSet(Survivors(p)) \subseteq ToSet(sps[p])
    BY <1>b, EraseDistinct DEF Survivors, Erase
  <1>e. /\ role' = [role EXCEPT ![p] = "orphan"]
        /\ client' = [client EXCEPT ![p] = NoPeer]
        /\ UNCHANGED <<alive, coordinator, sps, asking, answer, acceptor, serving, reply,
                       group, inbox>>
    BY DEF WrongCoordinator, joinVars, tellVars
  <1>1. DistinctInv'
    BY <1>a, <1>b, <1>d, <1>e DEF IInv, TypeOK, Base, DistinctInv
  <1>2. WaitInv'
    <2>1. \A q, d : Serves(d, q)' <=> Serves(d, q)
      BY <1>e DEF Serves
    <2>2. \A q \in Peer \ {p} : Waiting(q)' <=> Waiting(q)
      BY <1>e DEF IInv, TypeOK, Waiting
    <2>3. \A q \in Peer \ {p} : client'[q] = client[q] /\ role'[q] = role[q]
      BY <1>e DEF IInv, TypeOK
    <2>4. \A q \in alive' : role'[q] \notin {"joining", "rebinding"} => answer'[q] = <<>>
      BY <1>a, <1>e, <2>3 DEF IInv, TypeOK, Base, WaitInv
    <2> QED
      BY <1>c, <1>e, <2>1, <2>2, <2>3, <2>4, ZenonT(40) DEF Base, WaitInv
  <1>3. LinkInv'
    <2> SUFFICES ASSUME NEW d \in alive
                 PROVE  /\ acceptor[d] # "idle" => client'[serving[d]] = d
                        /\ \A q \in group[d] : client'[q] = d
      BY <1>e DEF LinkInv
    <2>1. /\ acceptor[d] # "idle" => client[serving[d]] = d /\ serving[d] \in Peer
          /\ \A q \in group[d] : client[q] = d /\ q \in Peer
      BY DEF IInv, TypeOK, ReplyInv, Base, LinkInv
    <2>2. \A q \in Peer : client[q] = d => client'[q] = d
      BY <1>b, <1>e DEF IInv, TypeOK
    <2> QED
      BY <2>1, <2>2
  <1>4. JoinInv'
    BY <1>a, <1>b, <1>d, <1>e DEF IInv, TypeOK, Base, JoinInv, Serves
  <1>5. LeaveInv'
    BY <1>a, <1>b, <1>d, <1>e DEF IInv, TypeOK, Base, LeaveInv
  <1>6. NewInv'
    BY <1>a, <1>b, <1>d, <1>e DEF IInv, TypeOK, Base, NewInv
  <1>7. HeadInv'
    BY <1>a, <1>b, <1>d, <1>e DEF IInv, TypeOK, Base, HeadInv, HasTree
  <1> QED
    BY <1>1, <1>2, <1>3, <1>4, <1>5, <1>6, <1>7 DEF Base

-----------------------------------------------------------------------------
(* The coordinators, in the order in which they became one.                 *)

\* No other coordinator is on the list of k: nobody has followed it.  (The list
\* of a dead coordinator stays as it was, with its successor on it.)
Latest(k) == ToSet(sps[k]) \cap coordinator = {k}

\* A live coordinator is the last one, and there is one last.
LatestInv ==
    /\ \A k \in coordinator : k \in alive => Latest(k)
    /\ \A k, l \in coordinator : Latest(k) /\ Latest(l) => k = l

\* The trees that p has or is about to have from the peer it follows.
Views(p) ==
    {s \in {sps[p]} : role[p] = "member"} \cup {s \in {answer[p]} : s # <<>>}
        \cup {reply[c] : c \in {d \in alive : Serves(d, p)}}

\* A coordinator e other than k is before p in s, and nobody who lives before it.
Superseded(s, k, p) ==
    \E e \in coordinator \ {k} :
        Precedes(s, e, p) /\ \A x \in alive : ~Precedes(s, x, e)

\* The living before p are the same in s and in t, in the order of t.
SameBefore(s, t, p) ==
    \A x \in alive :
        /\ Precedes(s, x, p) <=> Precedes(t, x, p)
        /\ \A y \in alive : Precedes(t, x, y) /\ Precedes(t, y, p) => Precedes(s, x, y)

\* What p can tell from the tree s of its coordinator.  If that one has been
\* followed by another, there is a coordinator before p in s, so p is not next;
\* otherwise s has no other coordinator.  The living who are before p are those
\* on the list of the coordinator.
Knows(p, s) ==
    /\ client[p] \in coordinator
    /\ Latest(client[p]) => ToSet(s) \cap coordinator = {client[p]}
    /\ ~Latest(client[p]) => Superseded(s, client[p], p)
    /\ p \in ToSet(sps[client[p]]) /\ p \in ToSet(s)
    /\ SameBefore(s, sps[client[p]], p)

ViewInv ==
    \A p \in alive : p \notin coordinator =>
        \A s \in Views(p) : Head(s) = client[p] => Knows(p, s)

Order == LatestInv /\ ViewInv

\* What a view is.
LEMMA ViewCases ==
    ASSUME NEW p, NEW s
    PROVE  s \in Views(p) <=>
              \/ role[p] = "member" /\ s = sps[p]
              \/ answer[p] # <<>> /\ s = answer[p]
              \/ \E c \in alive : Serves(c, p) /\ s = reply[c]
  BY DEF Views

\* It is a list that holds nobody twice.
LEMMA ViewList ==
    ASSUME IInv, Base, NEW p \in Peer, NEW s \in Views(p)
    PROVE  s \in Seq(Peer \cup {NoPeer}) /\ Distinct(s)
  <1>1. /\ sps[p] \in Seq(Peer) /\ Distinct(sps[p])
        /\ answer[p] \in Seq(Peer \cup {NoPeer}) /\ Distinct(answer[p])
        /\ \A c \in alive : reply[c] \in Seq(Peer \cup {NoPeer}) /\ Distinct(reply[c])
    BY DEF IInv, TypeOK, Base, DistinctInv
  <1>2. sps[p] \in Seq(Peer \cup {NoPeer})
    BY <1>1
  <1> QED
    BY <1>1, <1>2, ViewCases

\* The tree of a peer is not the reply of a refused join.
LEMMA TreeNotRefused ==
    ASSUME IInv, NEW q \in Peer, role[q] = "member"
    PROVE  sps[q] # Refused
  <1>1. q \in ToSet(sps[q]) /\ sps[q] \in Seq(Peer)
    BY DEF IInv, SelfInv, TypeOK
  <1>2. Head(sps[q]) \in Peer /\ Head(Refused) = NoPeer
    BY <1>1, FrontFacts DEF Refused
  <1> QED
    BY <1>2, PeerAssumption

\* The next view of p comes from an earlier one, or is the list of a living
\* coordinator.
Follows(p, s) ==
    \/ /\ client'[p] = client[p]
       /\ \E r \in Views(p) :
             /\ Head(r) = client[p]
             /\ s = r \/ (r \in Seq(Peer) /\ Distinct(r) /\ Evolves(r, s))
    \/ /\ client'[p] \in coordinator \cap alive'
       /\ s = sps'[client'[p]] /\ p \in ToSet(s)

\* A step that makes nobody the coordinator keeps the order.
LEMMA FollowsOrder ==
    ASSUME IInv, Base, Order, coordinator' = coordinator, alive' \subseteq alive,
           \A k \in coordinator : sps'[k] = sps[k] \/ Evolves(sps[k], sps'[k]),
           \A p \in alive' : p \notin coordinator =>
               \A s \in Views(p)' : Head(s) = client'[p] => Follows(p, s)
    PROVE  Order'
  <1>1. ASSUME NEW k \in coordinator
        PROVE  /\ Latest(k)' <=> Latest(k)
               /\ \A x \in ToSet(sps[k]) : x \in alive => x \in ToSet(sps'[k])
               /\ \A x, y \in alive : Precedes(sps[k], x, y) => Precedes(sps'[k], x, y)
               /\ \A x, y : Precedes(sps'[k], x, y) /\ y \in ToSet(sps[k]) =>
                               Precedes(sps[k], x, y)
    <2>1. sps[k] \in Seq(Peer) /\ Distinct(sps[k])
      BY DEF IInv, TypeOK, Base, DistinctInv
    <2>2. CASE sps'[k] = sps[k]
      BY <2>2 DEF Latest
    <2>3. CASE Evolves(sps[k], sps'[k])
      <3>1. /\ ToSet(sps'[k]) \cap coordinator = ToSet(sps[k]) \cap coordinator
            /\ \A x \in ToSet(sps[k]) : x \in alive \/ x \in coordinator => x \in ToSet(sps'[k])
            /\ \A x, y \in alive : Precedes(sps[k], x, y) => Precedes(sps'[k], x, y)
            /\ \A x, y : Precedes(sps'[k], x, y) /\ y \in ToSet(sps[k]) =>
                            Precedes(sps[k], x, y)
        BY <2>1, <2>3, EvolveFacts
      <3> QED
        BY <3>1 DEF Latest
    <2> QED
      BY <2>2, <2>3
  <1>2. LatestInv'
    BY <1>1 DEF Order, LatestInv
  <1>3. ASSUME NEW p \in alive', p \notin coordinator, NEW s \in Views(p)', Head(s) = client'[p]
        PROVE  Knows(p, s)'
    <2>0. PICK k : k = client[p]
      OBVIOUS
    <2>1. CASE /\ client'[p] = client[p]
               /\ \E r \in Views(p) :
                     /\ Head(r) = client[p]
                     /\ s = r \/ (r \in Seq(Peer) /\ Distinct(r) /\ Evolves(r, s))
      <3>1. PICK r \in Views(p) :
                /\ Head(r) = k
                /\ s = r \/ (r \in Seq(Peer) /\ Distinct(r) /\ Evolves(r, s))
        BY <2>0, <2>1
      <3>2. Knows(p, r) /\ p \in alive
        BY <1>3, <2>0, <3>1 DEF Order, ViewInv
      <3>3. k \in coordinator
        BY <2>0, <3>2 DEF Knows
      <3>11. r \in Seq(Peer \cup {NoPeer})
        BY <3>1, <3>2, ViewList DEF IInv, TypeOK
      <3>4. /\ ToSet(s) \cap coordinator = ToSet(r) \cap coordinator
            /\ \A x \in ToSet(r) : x \in alive \/ x \in coordinator => x \in ToSet(s)
            /\ \A x, y : /\ Precedes(r, x, y)
                         /\ x \in alive \/ x \in coordinator
                         /\ y \in alive \/ y \in coordinator
                         => Precedes(s, x, y)
            /\ \A x, y : Precedes(s, x, y) /\ y \in ToSet(r) => Precedes(r, x, y)
        <4>1. CASE s = r
          BY <4>1
        <4>2. CASE r \in Seq(Peer) /\ Distinct(r) /\ Evolves(r, s)
          BY <4>2, EvolveFacts
        <4> QED
          BY <3>1, <4>1, <4>2
      <3>5. Latest(k)' => ToSet(s) \cap coordinator = {k}
        BY <1>1, <2>0, <3>2, <3>3, <3>4 DEF Knows
      <3>6. ASSUME ~Latest(k)'
            PROVE  Superseded(s, k, p)'
        <4>1. Superseded(r, k, p)
          BY <1>1, <2>0, <3>2, <3>3, <3>6 DEF Knows
        <4>2. PICK e \in coordinator \ {k} :
                  Precedes(r, e, p) /\ \A x \in alive : ~Precedes(r, x, e)
          BY <4>1 DEF Superseded
        <4>3. e \in ToSet(r)
          BY <3>11, <4>2, PrecedesIn
        <4>4. Precedes(s, e, p) /\ \A x \in alive : ~Precedes(s, x, e)
          BY <3>2, <3>4, <4>2, <4>3
        <4> QED
          BY <4>2, <4>4 DEF Superseded
      <3>7. p \in ToSet(sps'[k]) /\ p \in ToSet(s)
        BY <1>1, <2>0, <3>2, <3>3, <3>4 DEF Knows
      <3>8. SameBefore(s, sps[k], p)'
        <4>0. SameBefore(r, sps[k], p) /\ p \in ToSet(sps[k]) /\ p \in ToSet(r)
          BY <2>0, <3>2 DEF Knows
        <4>1. ASSUME NEW x \in alive', Precedes(s, x, p)
              PROVE  Precedes(sps'[k], x, p)
          <5>1. Precedes(r, x, p) /\ x \in alive
            BY <3>4, <4>0, <4>1
          <5>2. Precedes(sps[k], x, p)
            BY <4>0, <5>1 DEF SameBefore
          <5> QED
            BY <1>1, <3>2, <3>3, <5>1, <5>2
        <4>2. ASSUME NEW x \in alive', Precedes(sps'[k], x, p)
              PROVE  Precedes(s, x, p)
          <5>1. Precedes(sps[k], x, p) /\ x \in alive
            BY <1>1, <3>3, <4>0, <4>2
          <5>2. Precedes(r, x, p)
            BY <4>0, <5>1 DEF SameBefore
          <5> QED
            BY <3>2, <3>4, <5>1, <5>2
        <4>3. ASSUME NEW x \in alive', NEW y \in alive',
                     Precedes(sps'[k], x, y), Precedes(sps'[k], y, p)
              PROVE  Precedes(s, x, y)
          <5>1. Precedes(sps[k], y, p) /\ x \in alive /\ y \in alive
            BY <1>1, <3>3, <4>0, <4>3
          <5>2. y \in ToSet(sps[k])
            <6>1. sps[k] \in Seq(Peer)
              BY <3>3 DEF IInv, TypeOK
            <6> QED
              BY <5>1, <6>1, PrecedesIn
          <5>3. Precedes(sps[k], x, y)
            BY <1>1, <3>3, <4>3, <5>2
          <5>4. Precedes(r, x, y)
            BY <4>0, <5>1, <5>3 DEF SameBefore
          <5> QED
            BY <3>4, <5>1, <5>4
        <4> QED
          BY <4>1, <4>2, <4>3 DEF SameBefore
      <3>9. client'[p] = k
        BY <2>0, <2>1
      <3>10. Latest(k)' <=> Latest(client[p])'
        BY <3>9 DEF Latest
      <3> QED
        BY <3>3, <3>5, <3>6, <3>7, <3>8, <3>9, <3>10 DEF Knows
    <2>2. CASE /\ client'[p] \in coordinator \cap alive'
               /\ s = sps'[client'[p]] /\ p \in ToSet(s)
      <3>1. Latest(client[p])'
        BY <1>2, <2>2 DEF LatestInv, Latest
      <3> QED
        BY <2>2, <3>1 DEF Knows, Latest, SameBefore
    <2> QED
      BY <1>3, <2>1, <2>2 DEF Follows
  <1> QED
    BY <1>2, <1>3 DEF Order, ViewInv

\* Nobody has a new view.
QuietViews ==
    \A p \in alive' : \A s \in Views(p)' : s \in Views(p) /\ client'[p] = client[p]

\* Steps that change no coordinator's list and give nobody a new view.
LEMMA QuietOrder ==
    ASSUME IInv, Base, Order, coordinator' = coordinator, alive' \subseteq alive,
           \A k \in coordinator : sps'[k] = sps[k], QuietViews
    PROVE  Order'
  <1>1. \A p \in alive' : p \notin coordinator =>
            \A s \in Views(p)' : Head(s) = client'[p] => Follows(p, s)
    BY DEF Follows, QuietViews
  <1> QED
    BY <1>1, FollowsOrder

\* Steps that change one list and give nobody a new view but that list.
LEMMA ListOrder ==
    ASSUME IInv, Base, Order, NEW f \in Peer, NEW t, f \in alive,
           sps' = [sps EXCEPT ![f] = t], Evolves(sps[f], t),
           UNCHANGED <<alive, coordinator, role, client, answer, acceptor, serving, reply>>
    PROVE  Order'
  <1>1. \A k \in coordinator : sps'[k] = sps[k] \/ Evolves(sps[k], sps'[k])
    BY DEF IInv, TypeOK
  <1>2. ASSUME NEW p \in alive, p \notin coordinator, NEW s \in Views(p)', Head(s) = client[p]
        PROVE  Follows(p, s)
    <2>0. p \in Peer
      BY DEF IInv, TypeOK
    <2>1. CASE answer[p] # <<>> /\ s = answer[p]
      <3>1. s \in Views(p)
        BY <2>1, ViewCases
      <3> QED
        BY <1>2, <3>1 DEF Follows
    <2>2. CASE \E c \in alive : Serves(c, p) /\ s = reply[c]
      <3>1. s \in Views(p)
        BY <2>2, ViewCases
      <3> QED
        BY <1>2, <3>1 DEF Follows
    <2>3. CASE role[p] = "member" /\ s = sps'[p]
      <3>1. sps[p] \in Views(p)
        BY <2>3, ViewCases
      <3>2. CASE p # f
        <4>1. s = sps[p]
          BY <2>0, <2>3, <3>2 DEF IInv, TypeOK
        <4> QED
          BY <1>2, <3>1, <4>1 DEF Follows
      <3>3. CASE p = f
        <4>1. s = t /\ sps[p] \in Seq(Peer) /\ Distinct(sps[p])
          BY <2>0, <2>3, <3>3 DEF IInv, TypeOK, Base, DistinctInv
        <4>2. sps[p] # <<>> /\ Head(sps[p]) \in coordinator
          <5>1. p \in ToSet(sps[p])
            BY <2>0, <2>3 DEF IInv, SelfInv
          <5> QED
            BY <2>3, <4>1, <5>1, FrontFacts DEF Base, HeadInv
        <4>3. Head(t) = Head(sps[p])
          BY <3>3, <4>1, <4>2, EvolveFacts
        <4> QED
          BY <1>2, <3>1, <3>3, <4>1, <4>3 DEF Follows
      <3> QED
        BY <3>2, <3>3
    <2>4. \/ role'[p] = "member" /\ s = sps'[p]
          \/ answer'[p] # <<>> /\ s = answer'[p]
          \/ \E c \in alive' : Serves(c, p)' /\ s = reply'[c]
      BY DEF Views, Serves
    <2>5. \A c : Serves(c, p)' <=> Serves(c, p)
      BY DEF Serves
    <2> QED
      BY <2>1, <2>2, <2>3, <2>4, <2>5
  <1> QED
    BY <1>1, <1>2, FollowsOrder

\* Steps that change no view, but for processes that end.
LEMMA StillViews ==
    ASSUME alive' \subseteq alive,
           UNCHANGED <<role, sps, client, answer, acceptor, serving, reply>>
    PROVE  QuietViews
  BY DEF QuietViews, Views, Serves

LEMMA StillOrder ==
    ASSUME IInv, Base, Order, alive' \subseteq alive,
           UNCHANGED <<role, coordinator, sps, client, answer, acceptor, serving, reply>>
    PROVE  Order'
  BY StillViews, QuietOrder

\* A joiner that has not been answered has no view.
LEMMA DialViews ==
    ASSUME IInv, Base, NEW p \in Peer, NEW c \in Peer, Dial(p, c)
    PROVE  QuietViews
  <1>a. role[p] = "new" /\ client[p] = NoPeer /\ p \in alive
    BY DEF Dial, IInv, ClientInv
  <1>b. /\ role' = [role EXCEPT ![p] = "joining"]
        /\ client' = [client EXCEPT ![p] = Head(sps[c])]
        /\ UNCHANGED <<alive, coordinator, sps, answer, acceptor, serving, reply>>
    BY DEF Dial
  <1>c. answer[p] = <<>> /\ \A d \in Peer : ~Serves(d, p)
    BY <1>a, PeerAssumption DEF Base, WaitInv
  <1>1. ASSUME NEW q \in alive', NEW s \in Views(q)'
        PROVE  s \in Views(q) /\ client'[q] = client[q]
    <2>1. q \in Peer /\ alive \subseteq Peer
      BY <1>b DEF IInv, TypeOK
    <2>2. \/ role'[q] = "member" /\ s = sps[q]
          \/ answer[q] # <<>> /\ s = answer[q]
          \/ \E d \in alive : Serves(d, q) /\ s = reply[d]
      BY <1>b DEF Views, Serves
    <2>3. q # p
      BY <1>b, <1>c, <2>1, <2>2 DEF IInv, TypeOK
    <2>4. role'[q] = role[q] /\ client'[q] = client[q]
      BY <1>b, <2>1, <2>3 DEF IInv, TypeOK
    <2> QED
      BY <2>2, <2>4, ViewCases
  <1> QED
    BY <1>1 DEF QuietViews

LEMMA DialOrder ==
    ASSUME IInv, Base, Order, NEW p \in Peer, NEW c \in Peer, Dial(p, c)
    PROVE  Order'
  <1>1. coordinator' = coordinator /\ alive' = alive /\ sps' = sps
    BY DEF Dial
  <1> QED
    BY <1>1, DialViews, QuietOrder

\* The tree for the joiner is the list of the peer that added it.
LEMMA HandleJoinOrder ==
    ASSUME IInv, Base, Order, NEW c \in Peer, NEW p \in Peer, HandleJoinCell(c, p)
    PROVE  Order'
  <1> DEFINE t == Add(sps[c], p)
  <1>a. /\ c \in alive /\ <<p, c>> \in asking /\ acceptor[c] = "idle"
        /\ sps' = [sps EXCEPT ![c] = t] /\ sps'[c] = t
        /\ serving' = [serving EXCEPT ![c] = p]
        /\ acceptor' = [acceptor EXCEPT ![c] = "tell"]
        /\ UNCHANGED <<alive, role, coordinator, client, answer>>
    BY DEF HandleJoinCell, IInv, TypeOK
  <1>b. reply' = [reply EXCEPT ![c] = ReplyOf(sps[c], t)]
    BY <1>a DEF HandleJoinCell
  <1>c. client[p] = c /\ c # NoPeer /\ role[p] # "new" /\ p \notin coordinator
    BY <1>a, PeerAssumption DEF Base, WaitInv, IInv, ClientInv, CoordInv
  <1>d. Evolves(sps[c], t) /\ sps[c] \in Seq(Peer) /\ (~Full(sps[c]) => p \in ToSet(t))
    BY <1>c, AddFacts DEF Evolves, IInv, TypeOK
  <1> HIDE DEF t
  <1>e. sps[c] \in Seq(Peer) /\ Distinct(sps[c])
    BY DEF IInv, TypeOK, Base, DistinctInv
  <1>1. \A k \in coordinator : sps'[k] = sps[k] \/ Evolves(sps[k], sps'[k])
    BY <1>a, <1>d DEF IInv, TypeOK
  <1>2. ASSUME NEW q \in alive', q \notin coordinator, NEW s \in Views(q)', Head(s) = client'[q]
        PROVE  Follows(q, s)
    <2>0. q \in Peer /\ alive \subseteq Peer /\ client'[q] = client[q]
      BY <1>a DEF IInv, TypeOK
    <2>1. \/ role[q] = "member" /\ s = sps'[q]
          \/ answer[q] # <<>> /\ s = answer[q]
          \/ \E d \in alive : Serves(d, q)' /\ s = reply'[d]
      BY <1>a DEF Views, Serves
    <2>2. CASE answer[q] # <<>> /\ s = answer[q]
      <3>1. s \in Views(q)
        BY <2>2, ViewCases
      <3> QED
        BY <1>2, <2>0, <3>1 DEF Follows
    <2>3. CASE role[q] = "member" /\ s = sps'[q]
      <3>1. sps[q] \in Views(q)
        BY <2>3, ViewCases
      <3>2. CASE q # c
        <4>1. s = sps[q]
          BY <1>a, <2>0, <2>3, <3>2 DEF IInv, TypeOK
        <4> QED
          BY <1>2, <2>0, <3>1, <4>1 DEF Follows
      <3>3. CASE q = c
        <4>1. sps[c] # <<>> /\ Head(sps[c]) \in coordinator
          <5>1. c \in ToSet(sps[c])
            BY <2>3, <3>3 DEF IInv, SelfInv
          <5> QED
            BY <1>a, <1>e, <2>3, <3>3, <5>1, FrontFacts DEF Base, HeadInv
        <4>2. Head(t) = Head(sps[c])
          BY <1>d, <1>e, <4>1, EvolveFacts
        <4> QED
          BY <1>2, <1>a, <1>d, <1>e, <2>0, <2>3, <3>1, <3>3, <4>2 DEF Follows
      <3> QED
        BY <3>2, <3>3
    <2>4. ASSUME NEW d \in alive, Serves(d, q)', s = reply'[d]
          PROVE  Follows(q, s)
      <3>1. CASE d # c
        <4>1. Serves(d, q) /\ s = reply[d]
          BY <1>a, <1>b, <2>0, <2>4, <3>1 DEF IInv, TypeOK, Serves
        <4>2. s \in Views(q)
          BY <4>1, ViewCases
        <4> QED
          BY <1>2, <2>0, <4>2 DEF Follows
      <3>2. CASE d = c
        <4>1. q = p /\ s = ReplyOf(sps[c], t)
          BY <1>a, <1>b, <2>0, <2>4, <3>2 DEF IInv, TypeOK, Serves
        <4>2. ~Full(sps[c])
          <5>1. Head(Refused) = NoPeer
            BY DEF Refused
          <5> QED
            BY <1>2, <1>c, <2>0, <4>1, <5>1 DEF ReplyOf
        <4>3. s = t /\ p \in ToSet(t)
          BY <1>d, <4>1, <4>2 DEF ReplyOf
        <4>4. c \in coordinator
          <5>1. role[c] # "new"
            BY <1>a DEF Base, NewInv
          <5>2. role[c] \in {"member", "orphan"}
            BY <5>1 DEF HandleJoinCell, Locked, IInv, TypeOK, Role
          <5>3. c \in ToSet(sps[c])
            BY <5>2 DEF IInv, SelfInv
          <5>4. sps[c] # <<>> /\ Head(sps[c]) \in coordinator
            BY <1>a, <1>e, <5>2, <5>3, FrontFacts DEF Base, HeadInv
          <5>5. Head(t) = Head(sps[c])
            BY <1>d, <1>e, <5>4, EvolveFacts
          <5> QED
            BY <1>2, <1>c, <2>0, <4>1, <4>3, <5>4, <5>5
        <4> QED
          BY <1>a, <1>c, <2>0, <4>1, <4>3, <4>4 DEF Follows
      <3> QED
        BY <3>1, <3>2
    <2> QED
      BY <2>1, <2>2, <2>3, <2>4
  <1> QED
    BY <1>1, <1>2, <1>a, FollowsOrder

\* The answer is the tree that was kept for the joiner.
LEMMA SendReplyViews ==
    ASSUME IInv, Base, NEW c \in Peer, SendReply(c)
    PROVE  QuietViews
  <1>a. /\ c \in alive /\ acceptor[c] = "tell"
        /\ answer' = [answer EXCEPT ![serving[c]] = reply[c]]
        /\ acceptor' = [acceptor EXCEPT ![c] = "connect"]
        /\ UNCHANGED <<alive, role, coordinator, sps, client, serving, reply>>
    BY DEF SendReply, peerVars
  <1>1. ASSUME NEW q \in alive', NEW s \in Views(q)'
        PROVE  s \in Views(q) /\ client'[q] = client[q]
    <2>1. q \in Peer /\ alive \subseteq Peer
      BY <1>a DEF IInv, TypeOK
    <2>2. \/ role[q] = "member" /\ s = sps[q]
          \/ answer'[q] # <<>> /\ s = answer'[q]
          \/ \E d \in alive : Serves(d, q)' /\ s = reply[d]
      BY <1>a DEF Views, Serves
    <2>3. \A d \in Peer : Serves(d, q)' => Serves(d, q)
      BY <1>a DEF IInv, TypeOK, Serves
    <2>4. answer'[q] = answer[q] \/ (Serves(c, q) /\ answer'[q] = reply[c])
      BY <1>a, <2>1 DEF IInv, TypeOK, Serves
    <2> QED
      BY <1>a, <2>1, <2>2, <2>3, <2>4, ViewCases
  <1> QED
    BY <1>1 DEF QuietViews

LEMMA SendReplyOrder ==
    ASSUME IInv, Base, Order, NEW c \in Peer, SendReply(c)
    PROVE  Order'
  <1>1. coordinator' = coordinator /\ alive' = alive /\ sps' = sps
    BY DEF SendReply, peerVars
  <1> QED
    BY <1>1, SendReplyViews, QuietOrder

\* An acceptor that is done keeps no tree.
LEMMA IdleViews ==
    ASSUME IInv, Base, NEW c \in Peer, alive' = alive,
           acceptor' = [acceptor EXCEPT ![c] = "idle"],
           serving' = [serving EXCEPT ![c] = NoPeer],
           reply' = [reply EXCEPT ![c] = <<>>],
           UNCHANGED <<role, coordinator, sps, client, answer>>
    PROVE  QuietViews
  <1>1. ASSUME NEW q \in alive', NEW s \in Views(q)'
        PROVE  s \in Views(q) /\ client'[q] = client[q]
    <2>1. q \in Peer /\ alive \subseteq Peer
      BY DEF IInv, TypeOK
    <2>2. \/ role[q] = "member" /\ s = sps[q]
          \/ answer[q] # <<>> /\ s = answer[q]
          \/ \E d \in alive : Serves(d, q)' /\ s = reply'[d]
      BY DEF Views, Serves
    <2>3. \A d \in Peer : Serves(d, q)' => Serves(d, q) /\ reply'[d] = reply[d]
      BY DEF IInv, TypeOK, Serves
    <2> QED
      BY <2>1, <2>2, <2>3, ViewCases
  <1> QED
    BY <1>1 DEF QuietViews

LEMMA IdleOrder ==
    ASSUME IInv, Base, Order, NEW c \in Peer, alive' = alive,
           acceptor' = [acceptor EXCEPT ![c] = "idle"],
           serving' = [serving EXCEPT ![c] = NoPeer],
           reply' = [reply EXCEPT ![c] = <<>>],
           UNCHANGED <<role, coordinator, sps, client, answer>>
    PROVE  Order'
  BY IdleViews, QuietOrder

\* The joiner takes the tree it was sent.
LEMMA JoinedViews ==
    ASSUME IInv, Base, NEW p \in Peer, Joined(p)
    PROVE  QuietViews
  <1>a. /\ p \in alive /\ role[p] \in {"joining", "rebinding"} /\ HasTree(p)
        /\ sps' = [sps EXCEPT ![p] = answer[p]]
        /\ role' = [role EXCEPT ![p] = "member"]
        /\ answer' = [answer EXCEPT ![p] = <<>>]
        /\ UNCHANGED <<alive, coordinator, client, acceptor, serving, reply>>
    BY DEF Joined
  <1>b. p \notin coordinator /\ answer[p] # <<>>
    BY <1>a DEF IInv, CoordInv, HasTree
  <1>1. ASSUME NEW q \in alive', NEW s \in Views(q)'
        PROVE  s \in Views(q) /\ client'[q] = client[q]
    <2>1. q \in Peer
      BY <1>a DEF IInv, TypeOK
    <2>2. \/ role'[q] = "member" /\ s = sps'[q]
          \/ answer'[q] # <<>> /\ s = answer'[q]
          \/ \E d \in alive : Serves(d, q) /\ s = reply[d]
      BY <1>a DEF Views, Serves
    <2>3. CASE q = p
      <3>1. answer'[q] = <<>> /\ sps'[q] = answer[q]
        BY <1>a, <2>1, <2>3 DEF IInv, TypeOK
      <3> QED
        BY <1>a, <1>b, <2>2, <2>3, <3>1, ViewCases
    <2>4. CASE q # p
      <3>1. answer'[q] = answer[q] /\ sps'[q] = sps[q] /\ role'[q] = role[q]
        BY <1>a, <2>1, <2>4 DEF IInv, TypeOK
      <3> QED
        BY <1>a, <2>2, <3>1, ViewCases
    <2> QED
      BY <2>3, <2>4
  <1> QED
    BY <1>1 DEF QuietViews

LEMMA JoinedOrder ==
    ASSUME IInv, Base, Order, NEW p \in Peer, Joined(p)
    PROVE  Order'
  <1>1. coordinator' = coordinator /\ alive' = alive
    BY DEF Joined
  <1>2. p \notin coordinator
    BY DEF Joined, IInv, CoordInv
  <1>3. \A k \in coordinator : sps'[k] = sps[k]
    BY <1>2 DEF Joined, IInv, TypeOK
  <1> QED
    BY <1>1, <1>3, JoinedViews, QuietOrder

\* A follower is told of a joiner.
LEMMA JoinNoticeOrder ==
    ASSUME IInv, Base, Order, NEW c \in Peer, NEW f \in Peer, HandleCoordinatorJoinMesh(c, f)
    PROVE  Order'
  <1> DEFINE x == Head(inbox[c][f])[2]
  <1>a. /\ Notice(c, f, "join") /\ f \in alive
        /\ sps' = [sps EXCEPT ![f] = Add(sps[f], x)]
        /\ UNCHANGED <<alive, role, coordinator, client, answer, acceptor, serving, reply>>
    BY DEF HandleCoordinatorJoinMesh, Notice, joinVars
  <1>b. <<"join", x>> \in ToSet(inbox[c][f]) /\ x \in Peer
    BY <1>a, NoticeRead, NoticeFacts DEF IInv
  <1> HIDE DEF x
  <1>1. Serves(c, x)
    BY <1>a, <1>b DEF Base, JoinInv
  <1>2. client[x] = c /\ c # NoPeer
    BY <1>b, <1>1, PeerAssumption DEF Base, WaitInv
  <1>3. x \notin coordinator /\ role[x] # "new"
    BY <1>b, <1>2 DEF IInv, CoordInv, ClientInv
  <1>4. Evolves(sps[f], Add(sps[f], x))
    BY <1>b, <1>3 DEF Evolves
  <1> QED
    BY <1>a, <1>4, ListOrder

\* A follower is told of a departure.
LEMMA LeaveNoticeOrder ==
    ASSUME IInv, Base, Order, NEW c \in Peer, NEW f \in Peer, HandleCoordinatorLeaveMesh(c, f)
    PROVE  Order'
  <1> DEFINE x == Head(inbox[c][f])[2]
  <1>a. /\ Notice(c, f, "leave") /\ f \in alive
        /\ sps' = [sps EXCEPT ![f] = Erase(sps[f], x)]
        /\ UNCHANGED <<alive, role, coordinator, client, answer, acceptor, serving, reply>>
    BY DEF HandleCoordinatorLeaveMesh, Notice, joinVars
  <1>b. <<"leave", x>> \in ToSet(inbox[c][f]) /\ x \in Peer
    BY <1>a, NoticeRead, NoticeFacts DEF IInv
  <1> HIDE DEF x
  <1>1. Evolves(sps[f], Erase(sps[f], x))
    BY <1>b DEF Base, LeaveInv, Evolves
  <1> QED
    BY <1>a, <1>1, ListOrder

\* A coordinator notices a departure.
LEMMA LeaveMeshOrder ==
    ASSUME IInv, Base, Order, NEW c \in Peer, NEW p \in Peer, LeaveMesh(c, p)
    PROVE  Order'
  <1>a. /\ c \in alive /\ p \in group[c] /\ p \notin alive
        /\ sps' = [sps EXCEPT ![c] = Erase(sps[c], p)]
        /\ UNCHANGED <<alive, role, coordinator, client, answer, acceptor, serving, reply>>
    BY DEF LeaveMesh, joinVars
  <1>b. client[p] = c /\ c # NoPeer
    BY <1>a, PeerAssumption DEF Base, LinkInv
  <1>1. Evolves(sps[c], Erase(sps[c], p))
    BY <1>a, <1>b DEF IInv, CoordInv, ClientInv, Evolves
  <1> QED
    BY <1>a, <1>1, ListOrder

\* A peer that has not been answered yet, or has given up, has no view.
LEMMA BlankViews ==
    ASSUME IInv, Base, NEW p \in Peer, p \notin coordinator, role[p] = "member",
           p \in alive, alive' \subseteq alive,
           \/ role' \in {[role EXCEPT ![p] = "rebinding"], [role EXCEPT ![p] = "orphan"]}
           \/ role' = role /\ p \notin alive',
           \A q \in Peer \ {p} : sps'[q] = sps[q] /\ client'[q] = client[q],
           UNCHANGED <<coordinator, answer, acceptor, serving, reply>>
    PROVE  QuietViews
  <1>1. answer[p] = <<>> /\ \A d \in Peer : ~Serves(d, p)
    BY DEF Base, WaitInv, Waiting
  <1>2. ASSUME NEW q \in alive', NEW s \in Views(q)'
        PROVE  s \in Views(q) /\ client'[q] = client[q]
    <2>1. q \in Peer /\ alive \subseteq Peer
      BY DEF IInv, TypeOK
    <2>2. \/ role'[q] = "member" /\ s = sps'[q]
          \/ answer[q] # <<>> /\ s = answer[q]
          \/ \E d \in alive : Serves(d, q) /\ s = reply[d]
      BY DEF Views, Serves
    <2>3. q # p
      BY <1>1, <2>1, <2>2 DEF IInv, TypeOK
    <2>4. role'[q] = role[q] /\ sps'[q] = sps[q] /\ client'[q] = client[q]
      BY <2>1, <2>3 DEF IInv, TypeOK
    <2> QED
      BY <2>2, <2>4, ViewCases
  <1> QED
    BY <1>2 DEF QuietViews

LEMMA BlankOrder ==
    ASSUME IInv, Base, Order, NEW p \in Peer, p \notin coordinator, role[p] = "member",
           p \in alive, alive' \subseteq alive,
           \/ role' \in {[role EXCEPT ![p] = "rebinding"], [role EXCEPT ![p] = "orphan"]}
           \/ role' = role /\ p \notin alive',
           \A q \in Peer \ {p} : sps'[q] = sps[q] /\ client'[q] = client[q],
           UNCHANGED <<coordinator, answer, acceptor, serving, reply>>
    PROVE  Order'
  <1>1. \A k \in coordinator : sps'[k] = sps[k]
    BY DEF IInv, TypeOK
  <1> QED
    BY <1>1, BlankViews, QuietOrder

\* The last coordinator l is dead, and h is the first who lives on its list.
Heir(l, h) ==
    /\ Latest(l) /\ l \notin alive
    /\ h \in alive /\ h \in ToSet(sps[l])
    /\ \A x \in alive : ~Precedes(sps[l], x, h)

\* A peer that becomes the coordinator was the heir.
LEMMA BecomeHeir ==
    ASSUME IInv, Base, Order, NEW p \in Peer, BecomeCoordinator(p)
    PROVE  client[p] \in coordinator /\ Heir(client[p], p)
  <1>a. /\ role[p] = "member" /\ p \notin coordinator
        /\ Survivors(p) \in Seq(Peer) /\ p \in ToSet(Survivors(p))
    BY GoneFacts DEF BecomeCoordinator
  <1>b. PICK d \in Peer : d = client[p] /\ d \notin alive /\ p \in alive /\ Head(sps[p]) = d
    BY DEF BecomeCoordinator, CoordinatorGone, IInv, TypeOK
  <1>c. Head(Survivors(p)) = p
    BY DEF BecomeCoordinator, IsNext
  <1>d. sps[p] \in Seq(Peer) /\ Distinct(sps[p]) /\ p # d
    BY <1>b DEF IInv, TypeOK, ClientInv, Base, DistinctInv
  <1>e. Distinct(Survivors(p))
    BY <1>d, EraseDistinct DEF Survivors, Erase
  <1>f. Knows(p, sps[p])
    <2>1. sps[p] \in Views(p)
      BY <1>a, ViewCases
    <2> QED
      BY <1>a, <1>b, <2>1 DEF Order, ViewInv
  <1>1. ASSUME NEW x, x # d, Precedes(sps[p], x, p)
        PROVE  FALSE
    <2>1. Precedes(Survivors(p), x, p)
      BY <1>b, <1>d, <1>1, ErasePrecedes DEF Survivors, Erase
    <2>2. p # Head(Survivors(p))
      BY <1>a, <1>e, <2>1, PrecedesIn
    <2> QED
      BY <1>c, <2>2
  <1>2. d \in coordinator /\ Latest(d) /\ p \in ToSet(sps[d])
    BY <1>1, <1>b, <1>f DEF Knows, Superseded
  <1>3. \A x \in alive : ~Precedes(sps[d], x, p)
    BY <1>1, <1>b, <1>f DEF Knows, SameBefore
  <1> QED
    BY <1>2, <1>3, <1>b DEF Heir

\* A follower that is next follows the last coordinator, which is dead, and is
\* before every other living follower of it.
LEMMA BecomeOrder ==
    ASSUME IInv, Base, Order, NEW p \in Peer, BecomeCoordinator(p)
    PROVE  Order'
  <1>a. /\ role[p] = "member" /\ p \notin coordinator
        /\ Survivors(p) \in Seq(Peer) /\ p \in ToSet(Survivors(p))
        /\ Survivors(p) # <<>> /\ Head(Survivors(p)) \in Peer
    BY GoneFacts DEF BecomeCoordinator
  <1>b. PICK d \in Peer : d = client[p] /\ d \notin alive /\ p \in alive /\ Head(sps[p]) = d
    BY DEF BecomeCoordinator, CoordinatorGone, IInv, TypeOK
  <1>c. /\ sps' = [sps EXCEPT ![p] = Survivors(p)] /\ Head(Survivors(p)) = p
        /\ coordinator' = coordinator \cup {p}
        /\ client' = [client EXCEPT ![p] = NoPeer]
        /\ UNCHANGED <<alive, role, answer, acceptor, serving, reply>>
    BY DEF BecomeCoordinator, IsNext, joinVars
  <1>d. sps[p] \in Seq(Peer) /\ Distinct(sps[p]) /\ p # d
    BY <1>b DEF IInv, TypeOK, ClientInv, Base, DistinctInv
  <1>e. /\ Distinct(Survivors(p)) /\ ToSet(Survivors(p)) = ToSet(sps[p]) \ {d}
    BY <1>b, <1>d, EraseDistinct DEF Survivors, Erase
  <1>f. Knows(p, sps[p])
    <2>1. sps[p] \in Views(p)
      BY <1>a, ViewCases
    <2> QED
      BY <1>a, <1>b, <2>1 DEF Order, ViewInv
  <1>2. /\ d \in coordinator /\ Latest(d) /\ p \in ToSet(sps[d])
        /\ ToSet(sps[p]) \cap coordinator = {d}
        /\ \A x \in alive : ~Precedes(sps[d], x, p)
    BY <1>b, <1>f, BecomeHeir DEF Knows, Heir
  <1>3. \A k \in coordinator : sps'[k] = sps[k] /\ k # p
    BY <1>a, <1>c DEF IInv, TypeOK
  <1>4. ASSUME NEW k \in coordinator PROVE ~Latest(k)'
    <2>1. ASSUME Latest(k)' PROVE FALSE
      <3>1. ToSet(sps[k]) \cap (coordinator \cup {p}) = {k}
        BY <1>3, <1>c, <2>1 DEF Latest
      <3>2. Latest(k)
        BY <1>3, <3>1 DEF Latest
      <3>3. k = d
        BY <1>2, <3>2 DEF Order, LatestInv
      <3> QED
        BY <1>2, <1>3, <3>1, <3>3
    <2> QED
      BY <2>1
  <1>5. Latest(p)'
    <2>1. sps'[p] = Survivors(p)
      BY <1>c DEF IInv, TypeOK
    <2> QED
      BY <1>2, <1>a, <1>c, <1>e, <2>1 DEF Latest
  <1>6. LatestInv'
    <2>1. \A k \in coordinator : k \notin alive
      BY <1>2, <1>b DEF Order, LatestInv
    <2> QED
      BY <1>4, <1>5, <1>c, <2>1 DEF LatestInv, Latest
  <1>7. ASSUME NEW q \in alive', q \notin coordinator', NEW s \in Views(q)', Head(s) = client'[q]
        PROVE  Knows(q, s)'
    <2>0. q \in Peer /\ q # p /\ q \in alive /\ q \notin coordinator
      BY <1>7, <1>c DEF IInv, TypeOK
    <2>1. sps'[q] = sps[q] /\ client'[q] = client[q]
      BY <1>c, <2>0 DEF IInv, TypeOK
    <2>2. s \in Views(q)
      <3>1. \/ role[q] = "member" /\ s = sps[q]
            \/ answer[q] # <<>> /\ s = answer[q]
            \/ \E c \in alive : Serves(c, q) /\ s = reply[c]
        BY <1>c, <2>1 DEF Views, Serves
      <3> QED
        BY <3>1, ViewCases
    <2>3. Knows(q, s)
      BY <1>7, <2>0, <2>1, <2>2 DEF Order, ViewInv
    <2>4. PICK k \in coordinator : k = client[q]
      BY <2>3 DEF Knows
    <2>5. Superseded(s, k, q)'
      <3>1. CASE k = d
        <4>1. q \in ToSet(sps[d]) /\ sps[d] \in Seq(Peer)
          BY <1>b, <2>3, <2>4, <3>1 DEF Knows, IInv, TypeOK
        <4>2. Precedes(sps[d], p, q) \/ Precedes(sps[d], q, p)
          BY <1>2, <2>0, <4>1, PrecedesTotal
        <4>3. ~Precedes(sps[d], q, p)
          BY <1>2, <2>0
        <4>4. SameBefore(s, sps[d], q) /\ Precedes(sps[d], p, q)
          BY <2>3, <2>4, <3>1, <4>2, <4>3 DEF Knows
        <4>5. Precedes(s, p, q)
          BY <1>b, <4>4 DEF SameBefore
        <4>6. ASSUME NEW x \in alive, Precedes(s, x, p)
              PROVE  FALSE
          <5>1. s \in Seq(Peer \cup {NoPeer}) /\ Distinct(s)
            BY <2>0, <2>2, ViewList
          <5>2. Precedes(s, x, q) /\ x # p
            BY <4>5, <4>6, <5>1, PrecedesOrder
          <5>3. Precedes(sps[d], x, q)
            BY <4>4, <5>2 DEF SameBefore
          <5>4. x \in ToSet(sps[d])
            BY <4>1, <5>3, PrecedesIn
          <5>5. Precedes(sps[d], p, x) \/ Precedes(sps[d], x, p)
            BY <1>2, <4>1, <5>2, <5>4, PrecedesTotal
          <5>6. ~Precedes(sps[d], x, p)
            BY <1>2
          <5>7. Precedes(s, p, x)
            BY <1>b, <4>4, <5>3, <5>5, <5>6 DEF SameBefore
          <5> QED
            BY <4>6, <5>1, <5>7, PrecedesOrder
        <4> QED
          BY <1>3, <1>c, <2>4, <4>5, <4>6 DEF Superseded
      <3>2. CASE k # d
        <4>1. ~Latest(k)
          BY <1>2, <2>4, <3>2 DEF Order, LatestInv
        <4>2. Superseded(s, k, q)
          BY <2>3, <2>4, <4>1 DEF Knows
        <4> QED
          BY <1>c, <4>2 DEF Superseded
      <3> QED
        BY <3>1, <3>2
    <2>6. sps'[k] = sps[k] /\ ~Latest(k)' /\ k \in coordinator'
      BY <1>3, <1>4, <1>c
    <2>7. client'[q] = k /\ (Latest(client[q])' <=> Latest(k)')
      BY <2>1, <2>4 DEF Latest
    <2>8. q \in ToSet(sps[k]) /\ q \in ToSet(s) /\ SameBefore(s, sps[k], q)
      BY <2>3, <2>4 DEF Knows
    <2>9. SameBefore(s, sps[k], q)'
      BY <1>c, <2>6, <2>8 DEF SameBefore
    <2> QED
      BY <1>c, <2>5, <2>6, <2>7, <2>8, <2>9 DEF Knows
  <1> QED
    BY <1>6, <1>7 DEF Order, ViewInv

-----------------------------------------------------------------------------
\* No step breaks the three parts of the invariant.
LEMMA OrderInductive ==
    ASSUME IInv, Base, Order, [Next]_vars
    PROVE  Base' /\ Order'
  <1> USE DEF peerVars, joinVars, tellVars
  <1>1. CASE UNCHANGED vars
    BY <1>1, QuietBase, StillOrder DEF vars
  <1>2. ASSUME NEW p \in Peer, JoinFails(p) \/ Crash(p) \/ ConnectFollowerFails(p)
                               \/ LeaveTold(p) \/ (\E c \in Peer : NoInitPacket(c, p))
        PROVE  Base' /\ Order'
    <2>1. /\ alive' \subseteq alive /\ asking' \subseteq asking
          /\ UNCHANGED <<role, coordinator, sps, client, answer, acceptor, serving, reply,
                         group, inbox>>
      BY <1>2 DEF JoinFails, Crash, ConnectFollowerFails, LeaveTold, NoInitPacket
    <2> QED
      BY <2>1, QuietBase, StillOrder
  <1>3. ASSUME NEW p \in Peer, ReplyFails(p) \/ ConnectFollower(p)
        PROVE  Base' /\ Order'
    <2>1. /\ alive' = alive
          /\ acceptor' = [acceptor EXCEPT ![p] = "idle"]
          /\ serving' = [serving EXCEPT ![p] = NoPeer]
          /\ reply' = [reply EXCEPT ![p] = <<>>]
          /\ UNCHANGED <<role, coordinator, sps, client, answer>>
      BY <1>3 DEF ReplyFails, ConnectFollower
    <2> QED
      BY <1>3, <2>1, IdleOrder, ReplyFailsBase, ConnectFollowerBase
  <1>4. ASSUME NEW p \in Peer, RebindToNewCoordinator(p) \/ WrongCoordinator(p)
        PROVE  Base' /\ Order'
    <2>1. role[p] = "member" /\ p \notin coordinator /\ p \in alive
      BY <1>4, GoneFacts DEF RebindToNewCoordinator, WrongCoordinator, CoordinatorGone
    <2>2. /\ alive' \subseteq alive
          /\ \/ role' \in {[role EXCEPT ![p] = "rebinding"], [role EXCEPT ![p] = "orphan"]}
             \/ role' = role /\ p \notin alive'
          /\ UNCHANGED <<coordinator, answer, acceptor, serving, reply>>
      BY <1>4 DEF RebindToNewCoordinator, WrongCoordinator
    <2>3. \A q \in Peer \ {p} : sps'[q] = sps[q] /\ client'[q] = client[q]
      BY <1>4 DEF RebindToNewCoordinator, WrongCoordinator, IInv, TypeOK
    <2> QED
      BY <1>4, <2>1, <2>2, <2>3, BlankOrder, RebindBase, WrongBase
  <1>5. ASSUME NEW p \in Peer, SendReply(p) \/ Joined(p) \/ BecomeCoordinator(p)
        PROVE  Base' /\ Order'
    BY <1>5, SendReplyBase, SendReplyOrder, JoinedBase, JoinedOrder, BecomeBase, BecomeOrder
  <1>6. ASSUME NEW c \in Peer, NEW p \in Peer,
               \/ Dial(p, c) \/ HandleJoinCell(c, p) \/ LeaveMesh(c, p)
               \/ HandleCoordinatorJoinMesh(c, p) \/ HandleCoordinatorLeaveMesh(c, p)
        PROVE  Base' /\ Order'
    BY <1>6, DialBase, DialOrder, HandleJoinBase, HandleJoinOrder, LeaveMeshBase,
       LeaveMeshOrder, JoinNoticeBase, JoinNoticeOrder, LeaveNoticeBase, LeaveNoticeOrder
  <1> QED
    BY <1>1, <1>2, <1>3, <1>4, <1>5, <1>6 DEF Next

\* The founder alone.
LEMMA OrderInitially == Init => Base /\ Order
  <1> SUFFICES ASSUME Init PROVE Base /\ Order
    OBVIOUS
  <1> USE PeerAssumption DEF Init
  <1>1. /\ ToSet(<<>>) = {} /\ ToSet(<<Founder>>) = {Founder} /\ Head(<<Founder>>) = Founder
        /\ Distinct(<<>>) /\ Distinct(<<Founder>>)
    BY DEF ToSet, Distinct
  <1>2. DistinctInv /\ HeadInv
    BY <1>1 DEF DistinctInv, HeadInv, HasTree
  <1>3. WaitInv /\ LinkInv
    BY DEF WaitInv, LinkInv, Serves
  <1>4. JoinInv /\ LeaveInv /\ NewInv
    BY <1>1 DEF JoinInv, LeaveInv, NewInv
  <1>5. LatestInv
    BY <1>1 DEF LatestInv, Latest
  <1>6. ViewInv
    <2>1. \A p \in Peer : p # Founder => Views(p) = {}
      BY DEF Views, Serves
    <2> QED
      BY <2>1 DEF ViewInv
  <1> QED
    BY <1>2, <1>3, <1>4, <1>5, <1>6 DEF Base, Order

-----------------------------------------------------------------------------
(* Nobody is forgotten.  Whom a peer follows, and who knows of it.          *)

\* Whom a living peer may ask or follow.
Target(k) == k \in coordinator \/ \E l \in coordinator : Heir(l, k)

TargetInv == \A p \in alive : client[p] \in alive => Target(client[p])

\* p has a tree, or one is under way to it.
Placed(p) == \E s \in Views(p) : s # Refused

\* k sends its notices to p, or is about to do so before it serves another.
Attached(k, p) == p \in followers[k] \/ (acceptor[k] # "idle" /\ serving[k] = p)

\* k has a tree of its own, which it does not replace.
Settled(k) == role[k] \in {"member", "orphan"}

Listed(k, p) == Settled(k) /\ p \in ToSet(sps[k]) /\ Attached(k, p)

ListedInv ==
    \A p \in alive : client[p] \in alive /\ Placed(p) => Listed(client[p], p)

\* q lists p, is about to be told of it, or had no slot for somebody.
Known(p, q) ==
    \A s \in Views(q) : s # Refused =>
        p \in ToSet(s) \/ <<"join", p>> \in ToSet(inbox[client[q]][q]) \/ q \in dropped

KnownInv ==
    \A p, q \in alive :
        p # q /\ client[p] = client[q] /\ client[q] \in alive /\ Placed(p) => Known(p, q)

Company == TargetInv /\ ListedInv /\ KnownInv

-----------------------------------------------------------------------------
(* What a step has to keep.                                                 *)

\* The trees of q come from trees that it had, and hold the living they held.
KeptView(q) ==
    \A s \in Views(q)' : s # Refused /\ client'[q] \in alive' =>
        /\ client'[q] = client[q]
        /\ \E r \in Views(q) : r # Refused /\ \A x \in alive' : x \in ToSet(r) => x \in ToSet(s)

\* k keeps its tree, the living on it and those it tells.
Keeps(k) ==
    /\ Settled(k)'
    /\ \A x \in alive' : x \in ToSet(sps[k]) => x \in ToSet(sps'[k])
    /\ \A x \in alive' : Attached(k, x) => Attached(k, x)'

\* A join that q was to hear of stays in its box, or q has heard of it.
StillTold(q) ==
    \A x \in alive' : client[q] \in alive /\ <<"join", x>> \in ToSet(inbox[client[q]][q]) =>
        \/ <<"join", x>> \in ToSet(inbox'[client[q]][q])
        \/ q \in dropped'
        \/ \A s \in Views(q)' : x \in ToSet(s)

LEMMA QuietKept ==
    ASSUME QuietViews, NEW q \in alive'
    PROVE  KeptView(q)
  BY DEF QuietViews, KeptView

LEMMA KeptPlaced ==
    ASSUME NEW p, KeptView(p), client'[p] \in alive', Placed(p)'
    PROVE  Placed(p) /\ client'[p] = client[p]
  BY DEF KeptView, Placed

LEMMA KeptTarget ==
    ASSUME IInv, TargetInv, alive' \subseteq alive, coordinator' = coordinator,
           \A l \in coordinator : l \notin alive => sps'[l] = sps[l],
           \A p \in alive' : client'[p] \in alive' => client'[p] = client[p] \/ Target(client'[p])
    PROVE  TargetInv'
  <1> SUFFICES ASSUME NEW p \in alive', client'[p] \in alive'
               PROVE  Target(client[p])'
    BY DEF TargetInv
  <1>0. PICK k : k = client'[p]
    OBVIOUS
  <1>1. Target(k) /\ k \in alive'
    BY <1>0 DEF TargetInv
  <1>2. ASSUME NEW l \in coordinator, Heir(l, k)
        PROVE  Heir(l, k)'
    <2>1. sps'[l] = sps[l] /\ l \notin alive' /\ Latest(l)'
      BY <1>2 DEF Heir, Latest
    <2> QED
      BY <1>1, <1>2, <2>1 DEF Heir
  <1>3. k \in coordinator' \/ \E l \in coordinator' : Heir(l, k)'
    BY <1>1, <1>2 DEF Target
  <1> QED
    BY <1>0, <1>3 DEF Target, Heir, Latest

LEMMA KeptListed ==
    ASSUME ListedInv, alive' \subseteq alive, NEW p \in alive', KeptView(p),
           \A k \in alive' : Settled(k) /\ client[p] = k => Keeps(k),
           client'[p] \in alive', Placed(p)'
    PROVE  Listed(client[p], p)'
  <1>1. Placed(p) /\ client'[p] = client[p]
    BY KeptPlaced
  <1>2. Listed(client[p], p) /\ client[p] \in alive'
    BY <1>1 DEF ListedInv
  <1>3. Keeps(client[p])
    BY <1>2 DEF Listed
  <1>4. PICK k : k = client[p]
    OBVIOUS
  <1>5. Listed(k, p)'
    BY <1>2, <1>3, <1>4 DEF Listed, Keeps
  <1> QED
    BY <1>1, <1>4, <1>5 DEF Listed, Settled, Attached

LEMMA KeptKnown ==
    ASSUME KnownInv, alive' \subseteq alive, NEW p \in alive', NEW q \in alive', p # q,
           KeptView(p), KeptView(q), StillTold(q), dropped \subseteq dropped',
           client'[p] = client'[q], client'[q] \in alive', Placed(p)'
    PROVE  Known(p, q)'
  <1>1. Placed(p) /\ client'[p] = client[p]
    BY KeptPlaced
  <1> SUFFICES ASSUME NEW s \in Views(q)', s # Refused
               PROVE  p \in ToSet(s) \/ <<"join", p>> \in ToSet(inbox'[client'[q]][q])
                      \/ q \in dropped'
    BY DEF Known
  <1>2. PICK r \in Views(q) : r # Refused /\ \A x \in alive' : x \in ToSet(r) => x \in ToSet(s)
    BY DEF KeptView
  <1>3. client'[q] = client[q]
    BY DEF KeptView
  <1>4. Known(p, q)
    BY <1>1, <1>3 DEF KnownInv
  <1>5. p \in ToSet(r) \/ <<"join", p>> \in ToSet(inbox[client[q]][q]) \/ q \in dropped
    BY <1>2, <1>4 DEF Known
  <1> QED
    BY <1>2, <1>3, <1>5 DEF StillTold

\* Steps that keep all of it.
LEMMA KeptCompany ==
    ASSUME IInv, Company, alive' \subseteq alive, coordinator' = coordinator,
           dropped \subseteq dropped',
           \A l \in coordinator : l \notin alive => sps'[l] = sps[l],
           \A p \in alive' : client'[p] \in alive' => client'[p] = client[p] \/ Target(client'[p]),
           \A q \in alive' : KeptView(q) /\ StillTold(q),
           \A k \in alive' : \A q \in alive' : Settled(k) /\ client[q] = k => Keeps(k)
    PROVE  Company'
  <1>1. TargetInv'
    BY KeptTarget DEF Company
  <1>2. ListedInv'
    BY KeptListed DEF Company, ListedInv
  <1>3. KnownInv'
    BY KeptKnown DEF Company, KnownInv
  <1> QED
    BY <1>1, <1>2, <1>3 DEF Company

\* What is told stays in the boxes, and every living follower has it.
LEMMA TellReaches ==
    ASSUME TypeOK, NEW c \in Peer, NEW p \in Peer, NEW kind \in {"join", "leave"},
           Tell(c, p, kind), NEW d \in Peer, NEW f \in Peer
    PROVE  /\ ToSet(inbox[d][f]) \subseteq ToSet(inbox'[d][f])
           /\ d = c /\ f \in (followers[c] \cap alive) \ {p} => <<kind, p>> \in ToSet(inbox'[d][f])
  <1>0. <<kind, p>> \in Notices
    BY DEF Notices
  <1>1. inbox[d][f] \in Seq(Notices)
    BY DEF TypeOK
  <1>2. CASE d = c /\ f \in (followers[c] \cap alive) \ {p}
    <2>1. inbox'[d][f] = Append(inbox[d][f], <<kind, p>>)
      BY <1>2 DEF Tell, TypeOK
    <2>2. ToSet(Append(inbox[d][f], <<kind, p>>)) = ToSet(inbox[d][f]) \cup {<<kind, p>>}
      BY <1>0, <1>1, AppendKeeps
    <2> QED
      BY <2>1, <2>2
  <1>3. CASE ~(d = c /\ f \in (followers[c] \cap alive) \ {p})
    <2>1. inbox'[d][f] = inbox[d][f]
      BY <1>3 DEF Tell, TypeOK
    <2> QED
      BY <1>3, <2>1
  <1> QED
    BY <1>2, <1>3

\* Only the notice that is read leaves the box.
LEMMA NoticeKeeps ==
    ASSUME TypeOK, NEW c \in Peer, NEW f \in Peer, NEW kind, Notice(c, f, kind),
           NEW d \in Peer, NEW g \in Peer, NEW n \in ToSet(inbox[d][g])
    PROVE  \/ n \in ToSet(inbox'[d][g])
           \/ d = c /\ g = f /\ n = <<kind, Head(inbox[c][f])[2]>>
  <1>0. PICK s : s = inbox[c][f]
    OBVIOUS
  <1>1. s \in Seq(Notices) /\ s # <<>> /\ Head(s)[1] = kind
    BY <1>0 DEF TypeOK, Notice
  <1>2. inbox' = [inbox EXCEPT ![c][f] = Tail(s)]
    BY <1>0 DEF Notice
  <1>3. CASE d = c /\ g = f
    <2>1. inbox'[d][g] = Tail(s) /\ n \in ToSet(s)
      BY <1>0, <1>2, <1>3 DEF TypeOK
    <2>2. PICK i \in 1..Len(s) : n = s[i]
      BY <2>1 DEF ToSet
    <2>3. CASE i = 1
      <3>1. n = Head(s) /\ Head(s) \in Notices
        BY <1>1, <2>2, <2>3
      <3>2. Head(s) = <<kind, Head(s)[2]>>
        BY <1>1, <3>1 DEF Notices
      <3>3. n = <<kind, Head(s)[2]>>
        BY <3>1, <3>2
      <3> QED
        BY <1>0, <1>3, <3>3
    <2>4. CASE i # 1
      <3>1. i - 1 \in 1..Len(Tail(s)) /\ Tail(s)[i - 1] = s[i]
        BY <1>1, <2>2, <2>4
      <3>2. s[i] \in ToSet(Tail(s))
        <4>1. Tail(s) \in Seq(Notices) /\ DOMAIN Tail(s) = 1..Len(Tail(s))
          BY <1>1
        <4> QED
          BY <3>1, <4>1 DEF ToSet
      <3> QED
        BY <2>1, <2>2, <3>2
    <2> QED
      BY <2>3, <2>4
  <1>4. CASE ~(d = c /\ g = f)
    <2>1. inbox'[d][g] = inbox[d][g]
      BY <1>2, <1>4 DEF TypeOK
    <2> QED
      BY <2>1
  <1> QED
    BY <1>3, <1>4

-----------------------------------------------------------------------------
(* Who is next.                                                             *)

\* The peer that p asks is before p on its list, behind the dead coordinator only.
LEMMA NextFacts ==
    ASSUME IInv, Base, NEW p \in Peer, RebindToNewCoordinator(p), NEW n, n = Head(Survivors(p))
    PROVE  /\ n \in Peer /\ Precedes(sps[p], n, p)
           /\ \A x : Precedes(sps[p], x, n) => x = client[p]
  <1>1. /\ role[p] = "member" /\ Survivors(p) \in Seq(Peer) /\ p \in ToSet(Survivors(p))
        /\ n \in Peer /\ n # p
    BY GoneFacts DEF RebindToNewCoordinator, IsNext
  <1>2. sps[p] \in Seq(Peer) /\ Distinct(sps[p])
    BY DEF IInv, TypeOK, Base, DistinctInv
  <1>3. Distinct(Survivors(p)) /\ ToSet(Survivors(p)) = ToSet(sps[p]) \ {client[p]}
    BY <1>2, EraseDistinct DEF Survivors, Erase
  <1>4. n \in ToSet(Survivors(p)) /\ n # client[p]
    BY <1>1, <1>3, FrontFacts
  <1>5. ~\E x : Precedes(Survivors(p), x, n)
    BY <1>1, <1>3, PrecedesIn
  <1>6. Precedes(Survivors(p), n, p)
    BY <1>1, <1>4, <1>5, PrecedesTotal
  <1>7. Precedes(sps[p], n, p)
    BY <1>2, <1>6, ErasePrecedes DEF Survivors, Erase
  <1>8. ASSUME NEW x, Precedes(sps[p], x, n), x # client[p]
        PROVE  FALSE
    <2>1. Precedes(Survivors(p), x, n)
      BY <1>2, <1>4, <1>8, ErasePrecedes DEF Survivors, Erase
    <2> QED
      BY <1>5, <2>1
  <1> QED
    BY <1>1, <1>7, <1>8

\* If it is alive it is the coordinator, or the heir of the last one.
LEMMA NextTarget ==
    ASSUME IInv, Base, Order, NEW p \in Peer, RebindToNewCoordinator(p), NEW n \in alive,
           n = Head(Survivors(p))
    PROVE  /\ client[p] \in coordinator
           /\ Latest(client[p]) => Heir(client[p], n) /\ Precedes(sps[client[p]], n, p)
           /\ ~Latest(client[p]) => n \in coordinator
  <1>a. p \in alive /\ role[p] = "member" /\ p \notin coordinator
    BY GoneFacts DEF RebindToNewCoordinator, CoordinatorGone
  <1>b. PICK m \in Peer : m = client[p] /\ m \notin alive /\ Head(sps[p]) = m
    BY DEF RebindToNewCoordinator, CoordinatorGone, IInv, TypeOK
  <1>c. Knows(p, sps[p])
    <2>1. sps[p] \in Views(p)
      BY <1>a, ViewCases
    <2> QED
      BY <1>a, <1>b, <2>1 DEF Order, ViewInv
  <1>d. Precedes(sps[p], n, p) /\ \A x : Precedes(sps[p], x, n) => x = m
    BY <1>b, NextFacts
  <1>1. m \in coordinator /\ SameBefore(sps[p], sps[m], p)
    BY <1>b, <1>c DEF Knows
  <1>2. sps[p] \in Seq(Peer) /\ sps[m] \in Seq(Peer)
    BY <1>b DEF IInv, TypeOK
  <1>3. ASSUME Latest(m)
        PROVE  Heir(m, n) /\ Precedes(sps[m], n, p)
    <2>1. Precedes(sps[m], n, p)
      BY <1>1, <1>d DEF SameBefore
    <2>2. n \in ToSet(sps[m])
      BY <1>2, <2>1, PrecedesIn
    <2>3. \A x \in alive : ~Precedes(sps[m], x, n)
      BY <1>1, <1>b, <1>d, <2>1 DEF SameBefore
    <2> QED
      BY <1>3, <1>b, <2>1, <2>2, <2>3 DEF Heir
  <1>4. ASSUME ~Latest(m)
        PROVE  n \in coordinator
    <2>1. PICK e \in coordinator \ {m} :
              Precedes(sps[p], e, p) /\ \A x \in alive : ~Precedes(sps[p], x, e)
      BY <1>4, <1>b, <1>c DEF Knows, Superseded
    <2>2. e \in ToSet(sps[p]) /\ n \in ToSet(sps[p])
      BY <1>2, <1>d, <2>1, PrecedesIn
    <2>3. e = n \/ Precedes(sps[p], e, n) \/ Precedes(sps[p], n, e)
      BY <1>2, <2>2, PrecedesTotal
    <2> QED
      BY <1>d, <2>1, <2>3
  <1> QED
    BY <1>1, <1>3, <1>4, <1>b

\* A peer that others follow or ask does not rebind to a living one.
LEMMA HeirStays ==
    ASSUME IInv, Base, Order, TargetInv, NEW k \in Peer, RebindToNewCoordinator(k),
           NEW n \in alive, n = Head(Survivors(k)), NEW q \in alive, client[q] = k
    PROVE  FALSE
  <1>1. k \in alive /\ k \notin coordinator
    BY GoneFacts DEF RebindToNewCoordinator, CoordinatorGone
  <1>2. PICK l \in coordinator : Heir(l, k)
    BY <1>1 DEF TargetInv, Target
  <1>3. PICK m \in coordinator : m = client[k]
    BY NextTarget
  <1>4. CASE Latest(m)
    <2>1. m = l
      BY <1>2, <1>4 DEF Order, LatestInv, Heir
    <2>2. Precedes(sps[l], n, k)
      BY <1>3, <1>4, <2>1, NextTarget
    <2> QED
      BY <1>2, <2>2 DEF Heir
  <1>5. CASE ~Latest(m)
    <2>1. n \in coordinator /\ Latest(n)
      BY <1>3, <1>5, NextTarget DEF Order, LatestInv
    <2> QED
      BY <1>2, <2>1 DEF Order, LatestInv, Heir
  <1> QED
    BY <1>4, <1>5

-----------------------------------------------------------------------------
(* The steps.                                                               *)

\* Steps that keep the views, the followers and the boxes, but for processes
\* that end.
LEMMA StillCompany ==
    ASSUME IInv, Company, alive' \subseteq alive,
           UNCHANGED <<role, coordinator, sps, client, answer, acceptor, serving, reply,
                       followers, inbox, dropped>>
    PROVE  Company'
  <1>1. \A q \in alive' : KeptView(q) /\ StillTold(q)
    BY StillViews, QuietKept DEF StillTold
  <1>2. \A k : Settled(k) => Keeps(k)
    BY DEF Keeps, Settled, Attached
  <1> QED
    BY <1>1, <1>2, KeptCompany

\* The acceptor is done with a joiner that is dead or that it has connected to.
LEMMA IdleCompany ==
    ASSUME IInv, Base, Company, NEW c \in Peer, ReplyFails(c) \/ ConnectFollower(c)
    PROVE  Company'
  <1>1. /\ alive' = alive /\ acceptor[c] # "idle"
        /\ acceptor' = [acceptor EXCEPT ![c] = "idle"]
        /\ serving' = [serving EXCEPT ![c] = NoPeer]
        /\ reply' = [reply EXCEPT ![c] = <<>>]
        /\ UNCHANGED <<role, coordinator, sps, client, answer, inbox, dropped>>
    BY DEF ReplyFails, ConnectFollower, peerVars, tellVars
  <1>2. \A q \in alive' : KeptView(q)
    BY <1>1, IdleViews, QuietKept
  <1>3. \A q \in alive' : StillTold(q)
    BY <1>1 DEF StillTold
  <1>4. /\ \A k \in Peer : followers[k] \subseteq followers'[k]
        /\ serving[c] \in alive => serving[c] \in followers'[c]
    <2>1. CASE ReplyFails(c)
      BY <2>1 DEF ReplyFails, tellVars
    <2>2. CASE ConnectFollower(c)
      <3>1. followers' = [followers EXCEPT ![c] = followers[c] \cup {serving[c]}]
            /\ followers \in [Peer -> SUBSET Peer]
        BY <2>2 DEF ConnectFollower, IInv, TypeOK
      <3> QED
        BY <3>1
    <2> QED
      BY <2>1, <2>2
  <1>5. ASSUME NEW k \in alive', Settled(k)
        PROVE  Keeps(k)
    <2>1. k \in Peer
      BY <1>1 DEF IInv, TypeOK
    <2>2. ASSUME NEW x \in alive', Attached(k, x)
          PROVE  Attached(k, x)'
      <3>1. CASE k = c
        BY <1>1, <1>4, <2>1, <2>2, <3>1 DEF Attached
      <3>2. CASE k # c
        <4>1. acceptor'[k] = acceptor[k] /\ serving'[k] = serving[k]
          BY <1>1, <2>1, <3>2 DEF IInv, TypeOK
        <4> QED
          BY <1>4, <2>1, <2>2, <4>1 DEF Attached
      <3> QED
        BY <3>1, <3>2
    <2> QED
      BY <1>1, <1>5, <2>2 DEF Keeps, Settled
  <1> QED
    BY <1>1, <1>2, <1>3, <1>5, KeptCompany

\* The answer moves from the acceptor to the joiner.
LEMMA SendReplyCompany ==
    ASSUME IInv, Base, Company, NEW c \in Peer, SendReply(c)
    PROVE  Company'
  <1>1. /\ alive' = alive /\ acceptor[c] # "idle"
        /\ acceptor' = [acceptor EXCEPT ![c] = "connect"]
        /\ UNCHANGED <<role, coordinator, sps, client, serving, followers, inbox, dropped>>
    BY DEF SendReply, peerVars, tellVars
  <1>2. \A q \in alive' : KeptView(q) /\ StillTold(q)
    BY <1>1, SendReplyViews, QuietKept DEF StillTold
  <1>3. ASSUME NEW k \in alive', Settled(k)
        PROVE  Keeps(k)
    <2>1. acceptor[k] # "idle" => acceptor'[k] # "idle"
      BY <1>1 DEF IInv, TypeOK
    <2> QED
      BY <1>1, <1>3, <2>1 DEF Keeps, Settled, Attached
  <1> QED
    BY <1>1, <1>2, <1>3, KeptCompany

\* The joiner has no followers yet.
LEMMA JoinedCompany ==
    ASSUME IInv, Base, Company, NEW p \in Peer, Joined(p)
    PROVE  Company'
  <1>1. /\ alive' = alive /\ p \in alive /\ ~Settled(p) /\ p \notin coordinator
        /\ sps' = [sps EXCEPT ![p] = answer[p]]
        /\ role' = [role EXCEPT ![p] = "member"]
        /\ UNCHANGED <<coordinator, client, acceptor, serving, followers, inbox, dropped>>
    BY DEF Joined, Settled, tellVars, IInv, CoordInv
  <1>2. \A q \in alive' : KeptView(q) /\ StillTold(q)
    BY <1>1, JoinedViews, QuietKept DEF StillTold
  <1>3. \A k \in alive' : Settled(k) => Keeps(k)
    BY <1>1 DEF Keeps, Settled, Attached, IInv, TypeOK
  <1>4. \A l \in coordinator : sps'[l] = sps[l]
    BY <1>1 DEF IInv, TypeOK
  <1> QED
    BY <1>1, <1>2, <1>3, <1>4, KeptCompany

\* A new peer asks the coordinator.
LEMMA DialCompany ==
    ASSUME IInv, Base, Company, NEW p \in Peer, NEW c \in Peer, Dial(p, c)
    PROVE  Company'
  <1>1. /\ alive' = alive /\ ~Settled(p) /\ c \in coordinator /\ c \in alive
        /\ role' = [role EXCEPT ![p] = "joining"]
        /\ client' = [client EXCEPT ![p] = Head(sps[c])]
        /\ UNCHANGED <<coordinator, sps, acceptor, serving, followers, inbox, dropped>>
    BY DEF Dial, Settled, tellVars
  <1>2. Head(sps[c]) = c
    BY <1>1 DEF IInv, CoordInv
  <1>3. \A q \in alive' : KeptView(q) /\ StillTold(q)
    BY <1>1, DialViews, QuietKept DEF StillTold
  <1>4. \A k \in alive' : Settled(k) => Keeps(k)
    BY <1>1 DEF Keeps, Settled, Attached, IInv, TypeOK
  <1>5. \A q \in alive' : client'[q] = client[q] \/ Target(client'[q])
    BY <1>1, <1>2 DEF Target, IInv, TypeOK
  <1> QED
    BY <1>1, <1>3, <1>4, <1>5, KeptCompany

\* A follower that loses its coordinator: others follow it only if it is the heir,
\* which does not leave them.
LEMMA GoneCompany ==
    ASSUME IInv, Base, Order, Company, NEW p \in Peer,
           RebindToNewCoordinator(p) \/ WrongCoordinator(p)
    PROVE  Company'
  <1>1. role[p] = "member" /\ p \notin coordinator /\ p \in alive /\ client[p] \notin alive
    BY GoneFacts DEF RebindToNewCoordinator, WrongCoordinator, CoordinatorGone
  <1>2. /\ alive' \subseteq alive
        /\ \/ role' \in {[role EXCEPT ![p] = "rebinding"], [role EXCEPT ![p] = "orphan"]}
           \/ role' = role /\ p \notin alive'
        /\ UNCHANGED <<coordinator, answer, acceptor, serving, reply, followers, inbox, dropped>>
    BY DEF RebindToNewCoordinator, WrongCoordinator, joinVars, tellVars
  <1>3. \A q \in Peer \ {p} : sps'[q] = sps[q] /\ client'[q] = client[q]
    BY DEF RebindToNewCoordinator, WrongCoordinator, IInv, TypeOK
  <1>4. \A q \in alive' : KeptView(q) /\ StillTold(q)
    BY <1>1, <1>2, <1>3, BlankViews, QuietKept DEF StillTold
  <1>5. \A l \in coordinator : sps'[l] = sps[l]
    BY <1>1, <1>3 DEF IInv, TypeOK
  <1>6. ASSUME NEW q \in alive', client'[q] \in alive'
        PROVE  client'[q] = client[q] \/ Target(client'[q])
    <2>1. CASE q # p
      BY <1>2, <1>3, <2>1 DEF IInv, TypeOK
    <2>2. CASE q = p
      <3>1. CASE RebindToNewCoordinator(p)
        <4>1. client'[p] = Head(Survivors(p))
          BY <3>1 DEF RebindToNewCoordinator, IInv, TypeOK
        <4>2. client'[p] \in alive
          BY <1>2, <1>6, <2>2
        <4> QED
          BY <2>2, <3>1, <4>1, <4>2, NextTarget DEF Target
      <3>2. CASE WrongCoordinator(p)
        <4>1. client'[p] = NoPeer
          BY <3>2 DEF WrongCoordinator, IInv, TypeOK
        <4> QED
          BY <1>2, <1>6, <2>2, <4>1, PeerAssumption DEF IInv, TypeOK
      <3> QED
        BY <3>1, <3>2
    <2> QED
      BY <2>1, <2>2
  <1>7. ASSUME NEW k \in alive', NEW q \in alive', Settled(k), client[q] = k
        PROVE  Keeps(k)
    <2>0. k \in Peer /\ q \in alive /\ k \in alive
      BY <1>2 DEF IInv, TypeOK
    <2>1. CASE k # p
      <3>1. sps'[k] = sps[k] /\ role'[k] = role[k]
        BY <1>2, <1>3, <2>0, <2>1 DEF IInv, TypeOK
      <3> QED
        BY <1>2, <1>7, <3>1 DEF Keeps, Settled, Attached
    <2>2. CASE k = p
      <3>1. CASE RebindToNewCoordinator(p)
        <4>1. Head(Survivors(p)) \in alive
          BY <1>7, <2>2, <3>1 DEF RebindToNewCoordinator
        <4> QED
          BY <1>7, <2>0, <2>2, <3>1, <4>1, HeirStays DEF Company
      <3>2. CASE WrongCoordinator(p)
        <4>1. sps' = sps /\ role'[p] = "orphan"
          BY <3>2 DEF WrongCoordinator, IInv, TypeOK
        <4> QED
          BY <1>2, <2>2, <4>1 DEF Keeps, Settled, Attached
      <3> QED
        BY <3>1, <3>2
    <2> QED
      BY <2>1, <2>2
  <1> QED
    BY <1>2, <1>4, <1>5, <1>6, <1>7, KeptCompany

\* Steps that change one list.
LEMMA ListKept ==
    ASSUME IInv, Base, NEW f \in Peer, NEW t, f \in alive,
           sps' = [sps EXCEPT ![f] = t], Evolves(sps[f], t),
           UNCHANGED <<alive, role, client, answer, acceptor, serving, reply>>
    PROVE  /\ \A x \in alive : x \in ToSet(sps[f]) => x \in ToSet(t)
           /\ \A q \in alive' : KeptView(q)
  <1>1. sps[f] \in Seq(Peer) /\ Distinct(sps[f])
    BY DEF IInv, TypeOK, Base, DistinctInv
  <1>2. t \in Seq(Peer) /\ \A x \in alive : x \in ToSet(sps[f]) => x \in ToSet(t)
    BY <1>1, EvolveFacts
  <1>3. ASSUME NEW q \in alive, NEW s \in Views(q)', s # Refused
        PROVE  \E r \in Views(q) : r # Refused /\ \A x \in alive : x \in ToSet(r) => x \in ToSet(s)
    <2>0. q \in Peer
      BY DEF IInv, TypeOK
    <2>1. \/ role[q] = "member" /\ s = sps'[q]
          \/ answer[q] # <<>> /\ s = answer[q]
          \/ \E c \in alive : Serves(c, q) /\ s = reply[c]
      BY DEF Views, Serves
    <2>2. CASE role[q] = "member" /\ s = sps'[q] /\ q = f
      <3>1. sps[q] \in Views(q) /\ s = t
        BY <2>0, <2>2, ViewCases DEF IInv, TypeOK
      <3>2. sps[q] # Refused
        BY <2>0, <2>2, TreeNotRefused
      <3> QED
        BY <1>2, <2>2, <3>1, <3>2
    <2>3. CASE s \in Views(q)
      BY <1>3, <2>3
    <2>4. CASE role[q] = "member" /\ s = sps'[q] /\ q # f
      <3>1. s = sps[q]
        BY <2>0, <2>4 DEF IInv, TypeOK
      <3> QED
        BY <2>3, <2>4, <3>1, ViewCases
    <2> QED
      BY <2>1, <2>2, <2>3, <2>4, ViewCases
  <1> QED
    BY <1>2, <1>3 DEF KeptView

\* A peer that does not wait has no view but its tree.
LEMMA OneView ==
    ASSUME IInv, Base, NEW f \in Peer, f \in alive, ~Locked(f)
    PROVE  answer[f] = <<>> /\ \A d \in alive : ~Serves(d, f)
  <1>1. role[f] \notin {"joining", "rebinding"}
    BY DEF Locked
  <1> QED
    BY <1>1 DEF Base, WaitInv, Waiting, IInv, TypeOK

\* A follower is told of a joiner.
LEMMA JoinNoticeCompany ==
    ASSUME IInv, Base, Company, NEW c \in Peer, NEW f \in Peer,
           HandleCoordinatorJoinMesh(c, f)
    PROVE  Company'
  <1>0. PICK x : x = Head(inbox[c][f])[2]
    OBVIOUS
  <1>a. /\ Notice(c, f, "join") /\ f \in alive /\ ~Locked(f)
        /\ sps' = [sps EXCEPT ![f] = Add(sps[f], x)]
        /\ dropped' = IF x \in ToSet(sps'[f]) THEN dropped ELSE dropped \cup {f}
        /\ UNCHANGED <<alive, role, coordinator, client, answer, acceptor, serving, reply,
                       followers, leaving>>
    BY <1>0 DEF HandleCoordinatorJoinMesh, Notice, joinVars
  <1>b. <<"join", x>> \in ToSet(inbox[c][f]) /\ x \in Peer
    BY <1>0, <1>a, NoticeRead, NoticeFacts DEF IInv
  <1>1. Serves(c, x)
    BY <1>a, <1>b DEF Base, JoinInv
  <1>2. client[x] = c /\ c # NoPeer
    BY <1>b, <1>1, PeerAssumption DEF Base, WaitInv
  <1>3. x \notin coordinator /\ role[x] # "new"
    BY <1>b, <1>2 DEF IInv, CoordInv, ClientInv
  <1>4. Evolves(sps[f], Add(sps[f], x))
    BY <1>b, <1>3 DEF Evolves
  <1>5. /\ \A y \in alive : y \in ToSet(sps[f]) => y \in ToSet(Add(sps[f], x))
        /\ \A q \in alive' : KeptView(q)
    BY <1>a, <1>4, ListKept
  <1>6. \A s \in Views(f)' : s = sps'[f]
    BY <1>a, OneView DEF Views, Serves
  <1>7. ASSUME NEW q \in alive'
        PROVE  StillTold(q)
    <2> SUFFICES ASSUME NEW y \in alive', <<"join", y>> \in ToSet(inbox[client[q]][q]),
                        client[q] \in alive
                 PROVE  \/ <<"join", y>> \in ToSet(inbox'[client[q]][q])
                        \/ q \in dropped'
                        \/ \A s \in Views(q)' : y \in ToSet(s)
      BY DEF StillTold
    <2>1. q \in Peer /\ client[q] \in Peer
      BY <1>a DEF IInv, TypeOK
    <2>2. \/ <<"join", y>> \in ToSet(inbox'[client[q]][q])
          \/ client[q] = c /\ q = f /\ <<"join", y>> = <<"join", x>>
      BY <1>0, <1>a, <2>1, NoticeKeeps DEF IInv
    <2>3. CASE q = f /\ y = x
      BY <1>6, <1>a, <2>3
    <2> QED
      BY <2>2, <2>3
  <1>8. ASSUME NEW k \in alive', Settled(k)
        PROVE  Keeps(k)
    <2>1. k \in Peer /\ (sps'[k] = sps[k] \/ (k = f /\ sps'[k] = Add(sps[f], x)))
      BY <1>a DEF IInv, TypeOK
    <2> QED
      BY <1>5, <1>8, <1>a, <2>1 DEF Keeps, Settled, Attached
  <1>9. \A l \in coordinator : l \notin alive => sps'[l] = sps[l]
    BY <1>a DEF IInv, TypeOK
  <1> QED
    BY <1>5, <1>7, <1>8, <1>9, <1>a, KeptCompany

\* A follower is told of a departure.
LEMMA LeaveNoticeCompany ==
    ASSUME IInv, Base, Company, NEW c \in Peer, NEW f \in Peer,
           HandleCoordinatorLeaveMesh(c, f)
    PROVE  Company'
  <1>0. PICK x : x = Head(inbox[c][f])[2]
    OBVIOUS
  <1>a. /\ Notice(c, f, "leave") /\ f \in alive
        /\ sps' = [sps EXCEPT ![f] = Erase(sps[f], x)]
        /\ UNCHANGED <<alive, role, coordinator, client, answer, acceptor, serving, reply,
                       followers, dropped>>
    BY <1>0 DEF HandleCoordinatorLeaveMesh, Notice, joinVars
  <1>b. <<"leave", x>> \in ToSet(inbox[c][f]) /\ x \in Peer
    BY <1>0, <1>a, NoticeRead, NoticeFacts DEF IInv
  <1>1. Evolves(sps[f], Erase(sps[f], x))
    BY <1>b DEF Base, LeaveInv, Evolves
  <1>2. /\ \A y \in alive : y \in ToSet(sps[f]) => y \in ToSet(Erase(sps[f], x))
        /\ \A q \in alive' : KeptView(q)
    BY <1>a, <1>1, ListKept
  <1>3. ASSUME NEW q \in alive'
        PROVE  StillTold(q)
    <2> SUFFICES ASSUME NEW y \in alive', <<"join", y>> \in ToSet(inbox[client[q]][q]),
                        client[q] \in alive
                 PROVE  <<"join", y>> \in ToSet(inbox'[client[q]][q])
      BY DEF StillTold
    <2>1. q \in Peer /\ client[q] \in Peer
      BY <1>a DEF IInv, TypeOK
    <2>2. \/ <<"join", y>> \in ToSet(inbox'[client[q]][q])
          \/ client[q] = c /\ q = f /\ <<"join", y>> = <<"leave", x>>
      BY <1>0, <1>a, <2>1, NoticeKeeps DEF IInv
    <2> QED
      BY <2>2
  <1>4. ASSUME NEW k \in alive', Settled(k)
        PROVE  Keeps(k)
    <2>1. k \in Peer /\ (sps'[k] = sps[k] \/ (k = f /\ sps'[k] = Erase(sps[f], x)))
      BY <1>a DEF IInv, TypeOK
    <2> QED
      BY <1>2, <1>4, <1>a, <2>1 DEF Keeps, Settled, Attached
  <1>5. \A l \in coordinator : l \notin alive => sps'[l] = sps[l]
    BY <1>a DEF IInv, TypeOK
  <1> QED
    BY <1>2, <1>3, <1>4, <1>5, <1>a, KeptCompany

\* A peer notices a departure and tells it.
LEMMA LeaveMeshCompany ==
    ASSUME IInv, Base, Company, NEW c \in Peer, NEW p \in Peer, LeaveMesh(c, p)
    PROVE  Company'
  <1>a. /\ c \in alive /\ p \in group[c] /\ p \notin alive /\ Tell(c, p, "leave")
        /\ sps' = [sps EXCEPT ![c] = Erase(sps[c], p)]
        /\ followers' = [followers EXCEPT ![c] = followers[c] \ {p}]
        /\ UNCHANGED <<alive, role, coordinator, client, answer, acceptor, serving, reply,
                       dropped>>
    BY DEF LeaveMesh, joinVars
  <1>b. client[p] = c /\ c # NoPeer
    BY <1>a, PeerAssumption DEF Base, LinkInv
  <1>1. Evolves(sps[c], Erase(sps[c], p))
    BY <1>a, <1>b DEF IInv, CoordInv, ClientInv, Evolves
  <1>2. /\ \A y \in alive : y \in ToSet(sps[c]) => y \in ToSet(Erase(sps[c], p))
        /\ \A q \in alive' : KeptView(q)
    BY <1>a, <1>1, ListKept
  <1>3. ASSUME NEW q \in alive'
        PROVE  StillTold(q)
    <2>1. q \in Peer /\ (client[q] \in alive => client[q] \in Peer)
      BY <1>a DEF IInv, TypeOK
    <2> QED
      BY <1>a, <2>1, TellReaches DEF StillTold, IInv
  <1>4. ASSUME NEW k \in alive', Settled(k)
        PROVE  Keeps(k)
    <2>1. k \in Peer /\ (sps'[k] = sps[k] \/ (k = c /\ sps'[k] = Erase(sps[c], p)))
      BY <1>a DEF IInv, TypeOK
    <2>2. \A x \in alive' : x \in followers[k] => x \in followers'[k]
      BY <1>a, <2>1 DEF IInv, TypeOK
    <2> QED
      BY <1>2, <1>4, <1>a, <2>1, <2>2 DEF Keeps, Settled, Attached
  <1>5. \A l \in coordinator : l \notin alive => sps'[l] = sps[l]
    BY <1>a DEF IInv, TypeOK
  <1> QED
    BY <1>2, <1>3, <1>4, <1>5, <1>a, KeptCompany

\* The heir takes over; whoever has asked it follows the coordinator from now on.
LEMMA BecomeCompany ==
    ASSUME IInv, Base, Order, Company, NEW p \in Peer, BecomeCoordinator(p)
    PROVE  Company'
  <1>a. p \in alive /\ client[p] \notin alive
    BY DEF BecomeCoordinator, CoordinatorGone
  <1>b. /\ sps' = [sps EXCEPT ![p] = Survivors(p)]
        /\ coordinator' = coordinator \cup {p}
        /\ client' = [client EXCEPT ![p] = NoPeer]
        /\ UNCHANGED <<alive, role, answer, acceptor, serving, reply, followers, inbox, dropped>>
    BY DEF BecomeCoordinator, joinVars, tellVars
  <1>1. ASSUME NEW q \in alive', client'[q] \in alive'
        PROVE  q \in Peer /\ q # p /\ client'[q] = client[q]
    BY <1>1, <1>b, PeerAssumption DEF IInv, TypeOK
  <1>2. TargetInv'
    <2> SUFFICES ASSUME NEW q \in alive', client'[q] \in alive'
                 PROVE  client'[q] \in coordinator'
      BY DEF TargetInv, Target
    <2>1. PICK k \in alive : k = client[q] /\ k = client'[q]
      BY <1>1, <1>b
    <2>2. CASE k \in coordinator
      BY <1>b, <2>1, <2>2
    <2>3. ASSUME NEW l \in coordinator, Heir(l, k)
          PROVE  k = p
      <3>1. PICK d \in coordinator : Heir(d, p)
        BY BecomeHeir
      <3>2. d = l
        BY <2>3, <3>1 DEF Heir, Order, LatestInv
      <3>3. sps[l] \in Seq(Peer)
        BY DEF IInv, TypeOK
      <3>4. k # p => Precedes(sps[l], k, p) \/ Precedes(sps[l], p, k)
        BY <2>3, <3>1, <3>2, <3>3, PrecedesTotal DEF Heir
      <3> QED
        BY <1>a, <2>1, <2>3, <3>1, <3>2, <3>4 DEF Heir
    <2>4. Target(k)
      BY <1>b, <2>1 DEF Company, TargetInv
    <2> QED
      BY <1>b, <2>1, <2>2, <2>3, <2>4 DEF Target
  <1>3. ASSUME NEW q \in alive'
        PROVE  KeptView(q) /\ StillTold(q)
    <2>1. ASSUME NEW s \in Views(q)', client'[q] \in alive'
          PROVE  s \in Views(q)
      <3>1. sps'[q] = sps[q]
        BY <1>1, <1>b, <2>1 DEF IInv, TypeOK
      <3> QED
        BY <1>b, <2>1, <3>1 DEF Views, Serves
    <2> QED
      BY <1>1, <1>b, <2>1 DEF KeptView, StillTold
  <1>4. ASSUME NEW k \in alive', Settled(k)
        PROVE  Keeps(k)
    <2>1. k \in Peer /\ (sps'[k] = sps[k] \/ (k = p /\ sps'[k] = Survivors(p)))
      BY <1>b DEF IInv, TypeOK
    <2>2. \A x \in alive : x \in ToSet(sps[p]) => x \in ToSet(Survivors(p))
      BY <1>a, EraseFacts DEF Survivors, IInv, TypeOK
    <2> QED
      BY <1>4, <1>b, <2>1, <2>2 DEF Keeps, Settled, Attached
  <1>5. ListedInv'
    BY <1>3, <1>4, <1>b, KeptListed DEF Company, ListedInv
  <1>6. KnownInv'
    BY <1>3, <1>b, KeptKnown DEF Company, KnownInv
  <1> QED
    BY <1>2, <1>5, <1>6 DEF Company

\* The joiner gets a tree with all who follow c, and they are told of it.
LEMMA HandleJoinCompany ==
    ASSUME IInv, Base, Company, NEW c \in Peer, NEW p \in Peer, HandleJoinCell(c, p)
    PROVE  Company'
  <1>0. PICK t : t = Add(sps[c], p)
    OBVIOUS
  <1>a. /\ c \in alive /\ <<p, c>> \in asking /\ acceptor[c] = "idle" /\ ~Locked(c)
        /\ sps' = [sps EXCEPT ![c] = t] /\ sps'[c] = t
        /\ serving' = [serving EXCEPT ![c] = p]
        /\ acceptor' = [acceptor EXCEPT ![c] = "tell"]
        /\ Tell(c, p, "join")
        /\ UNCHANGED <<alive, role, coordinator, client, answer, followers, dropped>>
    BY <1>0 DEF HandleJoinCell, IInv, TypeOK
  <1>b. reply' = [reply EXCEPT ![c] = ReplyOf(sps[c], t)]
    BY <1>a DEF HandleJoinCell
  <1>c. client[p] = c /\ c # NoPeer /\ role[p] # "new" /\ p \notin coordinator
    BY <1>a, PeerAssumption DEF Base, WaitInv, IInv, ClientInv, CoordInv
  <1>d. Evolves(sps[c], t) /\ sps[c] \in Seq(Peer) /\ (~Full(sps[c]) => p \in ToSet(t))
    BY <1>0, <1>c, AddFacts DEF Evolves, IInv, TypeOK
  <1>e. Settled(c)
    BY <1>a DEF Base, NewInv, Locked, Settled, IInv, TypeOK, Role
  <1>1. \A x \in alive : x \in ToSet(sps[c]) => x \in ToSet(t)
    <2>1. Distinct(sps[c])
      BY DEF Base, DistinctInv
    <2> QED
      BY <1>d, <2>1, EvolveFacts
  <1>2. ASSUME NEW q \in alive, q # p
        PROVE  KeptView(q)
    <2> SUFFICES ASSUME NEW s \in Views(q)', s # Refused
                 PROVE  \E r \in Views(q) : r # Refused /\ \A x \in alive : x \in ToSet(r) => x \in ToSet(s)
      BY <1>a DEF KeptView
    <2>0. q \in Peer /\ alive \subseteq Peer
      BY DEF IInv, TypeOK
    <2>1. \/ role[q] = "member" /\ s = sps'[q]
          \/ answer[q] # <<>> /\ s = answer[q]
          \/ \E d \in alive : Serves(d, q)' /\ s = reply'[d]
      BY <1>a DEF Views, Serves
    <2>2. CASE role[q] = "member" /\ s = sps'[q]
      <3>1. sps[q] \in Views(q) /\ sps[q] # Refused
        BY <2>0, <2>2, ViewCases, TreeNotRefused
      <3>2. \A x \in alive : x \in ToSet(sps[q]) => x \in ToSet(s)
        BY <1>1, <1>a, <2>0, <2>2 DEF IInv, TypeOK
      <3> QED
        BY <3>1, <3>2
    <2>3. CASE answer[q] # <<>> /\ s = answer[q]
      BY <2>3, ViewCases
    <2>4. ASSUME NEW d \in alive, Serves(d, q)', s = reply'[d]
          PROVE  s \in Views(q)
      <3>1. d # c
        BY <1>2, <1>a, <2>4 DEF Serves, IInv, TypeOK
      <3>2. Serves(d, q) /\ s = reply[d]
        BY <1>a, <1>b, <2>0, <2>4, <3>1 DEF IInv, TypeOK, Serves
      <3> QED
        BY <3>2, ViewCases
    <2> QED
      BY <2>1, <2>2, <2>3, <2>4
  <1>3. ASSUME p \in alive, NEW s \in Views(p)', s # Refused
        PROVE  s = t /\ p \in ToSet(t)
    <2>1. Waiting(p) /\ ~Serves(c, p)
      BY <1>3, <1>a DEF Base, WaitInv
    <2>2. PICK d \in alive : Serves(d, p)' /\ s = reply'[d]
      BY <1>a, <2>1 DEF Views, Serves, Waiting
    <2>3. d = c
      <3>1. d # c => Serves(d, p)
        BY <1>a, <2>2 DEF Serves, IInv, TypeOK
      <3> QED
        BY <1>c, <3>1 DEF Base, WaitInv, IInv, TypeOK
    <2>4. s = ReplyOf(sps[c], t)
      BY <1>b, <2>2, <2>3 DEF IInv, TypeOK
    <2> QED
      BY <1>3, <1>d, <2>4 DEF ReplyOf
  <1>4. ASSUME NEW k \in alive, Settled(k)
        PROVE  Keeps(k)
    <2>1. k \in Peer /\ (sps'[k] = sps[k] \/ (k = c /\ sps'[k] = t))
      BY <1>a DEF IInv, TypeOK
    <2>2. acceptor[k] # "idle" => acceptor'[k] = acceptor[k] /\ serving'[k] = serving[k]
      BY <1>a, <2>1 DEF IInv, TypeOK
    <2> QED
      BY <1>1, <1>4, <1>a, <2>1, <2>2 DEF Keeps, Settled, Attached
  <1>5. ASSUME NEW q \in alive
        PROVE  StillTold(q)
    <2>1. q \in Peer /\ (client[q] \in alive => client[q] \in Peer)
      BY DEF IInv, TypeOK
    <2> QED
      BY <1>a, <2>1, TellReaches DEF StillTold, IInv
  <1>6. TargetInv'
    <2>1. \A l \in coordinator : l \notin alive => sps'[l] = sps[l]
      BY <1>a DEF IInv, TypeOK
    <2> QED
      BY <1>a, <2>1, KeptTarget DEF Company
  <1>7. ASSUME NEW q \in alive', client'[q] \in alive', Placed(q)'
        PROVE  Listed(client[q], q)'
    <2>1. CASE q # p
      BY <1>2, <1>4, <1>7, <1>a, <2>1, KeptListed DEF Company
    <2>2. CASE q = p
      <3>1. p \in ToSet(t)
        BY <1>3, <1>7, <1>a, <2>2 DEF Placed
      <3>2. acceptor'[c] # "idle" /\ serving'[c] = p
        BY <1>a DEF IInv, TypeOK
      <3>3. Listed(c, p)'
        BY <1>a, <1>e, <3>1, <3>2 DEF Listed, Settled, Attached
      <3> QED
        BY <1>a, <1>c, <2>2, <3>3 DEF Listed, Settled, Attached
    <2> QED
      BY <2>1, <2>2
  <1>8. ASSUME NEW x \in alive', NEW q \in alive', x # q, client'[x] = client'[q],
               client'[q] \in alive', Placed(x)'
        PROVE  Known(x, q)'
    <2>0. x \in alive /\ q \in alive /\ client[x] = client[q] /\ client[q] \in alive
      BY <1>8, <1>a
    <2>1. CASE x # p /\ q # p
      BY <1>2, <1>5, <1>8, <1>a, <2>1, KeptKnown DEF Company
    <2>2. CASE x = p
      <3>1. ASSUME NEW s \in Views(q)', s # Refused
            PROVE  <<"join", x>> \in ToSet(inbox'[client'[q]][q])
        <4>1. Placed(q)
          BY <1>2, <1>8, <1>a, <2>2, <3>1 DEF KeptView, Placed
        <4>2. Attached(c, q)
          BY <1>c, <2>0, <2>2, <4>1 DEF Company, ListedInv, Listed
        <4>3. q \in followers[c] /\ q \in Peer
          BY <1>a, <2>0, <4>2 DEF Attached, IInv, TypeOK
        <4>4. <<"join", p>> \in ToSet(inbox'[c][q])
          BY <1>8, <1>a, <2>0, <2>2, <4>3, TellReaches DEF IInv
        <4> QED
          BY <1>a, <1>c, <2>0, <2>2, <4>4
      <3> QED
        BY <3>1 DEF Known
    <2>3. CASE q = p
      <3>1. Placed(x) /\ client[x] = c
        BY <1>2, <1>8, <1>c, <2>0, <2>3, KeptPlaced
      <3>2. x \in ToSet(t)
        BY <1>1, <1>c, <2>0, <2>3, <3>1 DEF Company, ListedInv, Listed
      <3> QED
        BY <1>3, <2>0, <2>3, <3>2 DEF Known
    <2> QED
      BY <2>1, <2>2, <2>3
  <1> QED
    BY <1>6, <1>7, <1>8 DEF Company, ListedInv, KnownInv

-----------------------------------------------------------------------------
\* No step breaks the company.
LEMMA CompanyInductive ==
    ASSUME IInv, Base, Order, Company, [Next]_vars
    PROVE  Company'
  <1> USE DEF peerVars, joinVars, tellVars
  <1>1. CASE UNCHANGED vars
    BY <1>1, StillCompany DEF vars
  <1>2. ASSUME NEW p \in Peer, JoinFails(p) \/ Crash(p) \/ ConnectFollowerFails(p)
                               \/ LeaveTold(p) \/ (\E c \in Peer : NoInitPacket(c, p))
        PROVE  Company'
    <2>1. /\ alive' \subseteq alive
          /\ UNCHANGED <<role, coordinator, sps, client, answer, acceptor, serving, reply,
                         followers, inbox, dropped>>
      BY <1>2 DEF JoinFails, Crash, ConnectFollowerFails, LeaveTold, NoInitPacket
    <2> QED
      BY <2>1, StillCompany
  <1>3. ASSUME NEW p \in Peer,
               \/ ReplyFails(p) \/ ConnectFollower(p) \/ SendReply(p) \/ Joined(p)
               \/ BecomeCoordinator(p) \/ RebindToNewCoordinator(p) \/ WrongCoordinator(p)
        PROVE  Company'
    BY <1>3, IdleCompany, SendReplyCompany, JoinedCompany, BecomeCompany, GoneCompany
  <1>4. ASSUME NEW c \in Peer, NEW p \in Peer,
               \/ Dial(p, c) \/ HandleJoinCell(c, p) \/ LeaveMesh(c, p)
               \/ HandleCoordinatorJoinMesh(c, p) \/ HandleCoordinatorLeaveMesh(c, p)
        PROVE  Company'
    BY <1>4, DialCompany, HandleJoinCompany, LeaveMeshCompany, JoinNoticeCompany,
       LeaveNoticeCompany
  <1> QED
    BY <1>1, <1>2, <1>3, <1>4 DEF Next

\* At first nobody follows anybody.
LEMMA CompanyInitially == Init => Company
  <1> SUFFICES ASSUME Init PROVE Company
    OBVIOUS
  <1>1. \A p \in alive : client[p] \notin alive
    BY PeerAssumption DEF Init
  <1> QED
    BY <1>1 DEF Company, TargetInv, ListedInv, KnownInv

-----------------------------------------------------------------------------
(* The order of succession.  What the copies of a coordinator's list have   *)
(* to do with it, for those of whom the copies can tell.                    *)

\* c tells its followers, whom it watches, ...
FollowerInv == \A c \in Peer : followers[c] \subseteq group[c]

\* ... and a living peer is told by nobody that lives but the one it follows.
BoxInv == \A c, f \in alive : inbox[c][f] # <<>> => client[f] = c

\* x waits for a peer that died while it told its followers of x.
Late(x) == \E c \in Peer \ alive : Serves(c, x)

\* The others who live, on the list of k.
Sure(k) == {x \in alive : x \in ToSet(sps[k]) /\ ~Late(x)}

\* What f has, or is about to have, of the list of k.
Copies(k, f) == {s \in Views(f) : client[f] = k /\ Head(s) = k}

\* k tells of x, or it has refused it.
Pending(k, x) == Serves(k, x) \/ answer[x] = Refused

\* The copy s of f has the order of the list of k, it has everybody of that list
\* whom f is not about to be told of, and while k lives it has nobody else.
Agrees(k, f, s) ==
    /\ \A x, y \in Sure(k) : Precedes(s, x, y) => Precedes(sps[k], x, y)
    /\ \A x \in Sure(k) : x \in ToSet(s) \/ <<"join", x>> \in ToSet(inbox[k][f])
    /\ k \in alive =>
          \A x \in alive : x \in ToSet(s) => x \in ToSet(sps[k]) \/ Late(x) \/ Pending(k, x)

CopyInv == \A k \in coordinator : \A f \in alive : \A s \in Copies(k, f) : Agrees(k, f, s)

\* Whom a coordinator tells of is the last of its list, or everybody has it
\* already: it had followed the coordinator before.
LastInv ==
    \A k \in coordinator : k \in alive =>
        \A z \in alive : Serves(k, z) /\ z \in ToSet(sps[k]) =>
            \/ \A f \in alive : \A s \in Copies(k, f) : z \in ToSet(s)
            \/ \A x \in Sure(k) : x # z => Precedes(sps[k], x, z)

Accord == FollowerInv /\ BoxInv /\ (dropped = {} => CopyInv /\ LastInv)

-----------------------------------------------------------------------------
(* What every step keeps.                                                   *)

\* The dead do nothing, and who is told of is served, refused or listed.
LEMMA PendingKept ==
    ASSUME IInv, Base, Company, [Next]_vars
    PROVE  /\ alive' \subseteq alive /\ dropped \subseteq dropped'
           /\ \A x : Late(x) => Late(x)'
           /\ \A k, x \in alive' : Pending(k, x) => Pending(k, x)' \/ x \in ToSet(sps[k])
  <1> USE DEF peerVars, joinVars, tellVars
  <1>a. alive \subseteq Peer
    BY DEF IInv, TypeOK
  <1>b. \A c \in Peer : \A x : Serves(c, x) => x \in Peer /\ client[x] = c
    BY DEF Serves, IInv, ReplyInv, Base, WaitInv
  <1>1. ASSUME alive' \subseteq alive, dropped \subseteq dropped',
               UNCHANGED <<answer, acceptor, serving>>
        PROVE  /\ \A x : Late(x) => Late(x)'
               /\ \A k, x \in alive' : Pending(k, x) => Pending(k, x)'
    BY <1>1 DEF Late, Pending, Serves
  <1>2. CASE UNCHANGED vars
    BY <1>1, <1>2 DEF vars
  <1>3. ASSUME NEW p \in Peer, JoinFails(p) \/ Crash(p) \/ ConnectFollowerFails(p)
                               \/ LeaveTold(p) \/ BecomeCoordinator(p)
                               \/ RebindToNewCoordinator(p) \/ WrongCoordinator(p)
        PROVE  alive' \subseteq alive /\ dropped \subseteq dropped' /\ UNCHANGED <<answer, acceptor, serving>>
    BY <1>3 DEF JoinFails, Crash, ConnectFollowerFails, LeaveTold, BecomeCoordinator,
                RebindToNewCoordinator, WrongCoordinator
  <1>4. ASSUME NEW c \in Peer, NEW p \in Peer,
               \/ Dial(p, c) \/ NoInitPacket(c, p) \/ LeaveMesh(c, p)
               \/ HandleCoordinatorJoinMesh(c, p) \/ HandleCoordinatorLeaveMesh(c, p)
        PROVE  alive' \subseteq alive /\ dropped \subseteq dropped' /\ UNCHANGED <<answer, acceptor, serving>>
    BY <1>4 DEF Dial, NoInitPacket, LeaveMesh, HandleCoordinatorJoinMesh,
                HandleCoordinatorLeaveMesh, Notice
  <1>5. ASSUME NEW c \in Peer, ReplyFails(c) \/ ConnectFollower(c)
        PROVE  /\ alive' \subseteq alive /\ dropped \subseteq dropped'
               /\ \A x : Late(x) => Late(x)'
               /\ \A k, x \in alive' : Pending(k, x) => Pending(k, x)'
    <2>1. /\ c \in alive /\ alive' = alive /\ dropped' = dropped /\ answer' = answer
          /\ acceptor' = [acceptor EXCEPT ![c] = "idle"]
          /\ serving' = [serving EXCEPT ![c] = NoPeer]
          /\ acceptor[c] = "connect" \/ serving[c] \notin alive
      BY <1>5 DEF ReplyFails, ConnectFollower
    <2>2. \A d \in Peer : d # c => acceptor'[d] = acceptor[d] /\ serving'[d] = serving[d]
      BY <2>1 DEF IInv, TypeOK
    <2>3. \A x \in alive : ~Serves(c, x)
      BY <2>1 DEF Serves
    <2> QED
      BY <1>a, <2>1, <2>2, <2>3 DEF Late, Pending, Serves
  <1>6. ASSUME NEW c \in Peer, NEW p \in Peer, HandleJoinCell(c, p)
        PROVE  /\ alive' \subseteq alive /\ dropped \subseteq dropped'
               /\ \A x : Late(x) => Late(x)'
               /\ \A k, x \in alive' : Pending(k, x) => Pending(k, x)'
    <2>1. /\ c \in alive /\ alive' = alive /\ dropped' = dropped /\ answer' = answer
          /\ acceptor' = [acceptor EXCEPT ![c] = "tell"]
          /\ serving' = [serving EXCEPT ![c] = p]
          /\ acceptor[c] = "idle"
      BY <1>6 DEF HandleJoinCell
    <2>2. \A d \in Peer : d # c => acceptor'[d] = acceptor[d] /\ serving'[d] = serving[d]
      BY <2>1 DEF IInv, TypeOK
    <2>3. \A x : ~Serves(c, x)
      BY <2>1 DEF Serves
    <2> QED
      BY <1>a, <2>1, <2>2, <2>3 DEF Late, Pending, Serves
  <1>7. ASSUME NEW c \in Peer, SendReply(c)
        PROVE  /\ alive' \subseteq alive /\ dropped \subseteq dropped'
               /\ \A x : Late(x) => Late(x)'
               /\ \A k, x \in alive' : Pending(k, x) => Pending(k, x)' \/ x \in ToSet(sps[k])
    <2>1. /\ c \in alive /\ alive' = alive /\ dropped' = dropped /\ serving' = serving
          /\ acceptor' = [acceptor EXCEPT ![c] = "connect"]
          /\ answer' = [answer EXCEPT ![serving[c]] = reply[c]]
          /\ acceptor[c] = "tell" /\ Serves(c, serving[c]) /\ serving[c] \in Peer
      BY <1>7 DEF SendReply, Serves, IInv, ReplyInv
    <2>2. \A d \in Peer : d # c => acceptor'[d] = acceptor[d]
      BY <2>1 DEF IInv, TypeOK
    <2>3. \A x : Late(x) => Late(x)'
      BY <2>1, <2>2 DEF Late, Serves
    <2>4. ASSUME NEW k \in alive, NEW x \in alive, Pending(k, x)
          PROVE  Pending(k, x)' \/ x \in ToSet(sps[k])
      <3>1. CASE answer[x] = Refused
        <4>1. x # serving[c]
          BY <2>1, <3>1 DEF Base, WaitInv, Waiting, Refused
        <4>2. answer'[x] = answer[x]
          BY <1>a, <2>1, <4>1 DEF IInv, TypeOK
        <4> QED
          BY <3>1, <4>2 DEF Pending
      <3>2. CASE Serves(k, x) /\ k # c
        BY <1>a, <2>1, <2>2, <3>2 DEF Pending, Serves
      <3>3. CASE Serves(k, x) /\ k = c
        <4>1. x = serving[c] /\ answer'[x] = reply[c] /\ client[x] = c
          BY <1>a, <1>b, <2>1, <3>3 DEF IInv, TypeOK, Serves
        <4>2. CASE reply[c] = Refused
          BY <4>1, <4>2 DEF Pending
        <4>3. CASE reply[c] # Refused
          <5>1. reply[c] \in Views(x)
            BY <2>1, <3>3, ViewCases
          <5>2. Placed(x)
            BY <4>3, <5>1 DEF Placed
          <5>3. Listed(c, x)
            BY <2>1, <4>1, <5>2 DEF Company, ListedInv
          <5> QED
            BY <3>3, <5>3 DEF Listed
        <4> QED
          BY <4>2, <4>3
      <3> QED
        BY <2>4, <3>1, <3>2, <3>3 DEF Pending
    <2> QED
      BY <2>1, <2>3, <2>4
  <1>8. ASSUME NEW p \in Peer, Joined(p)
        PROVE  /\ alive' \subseteq alive /\ dropped \subseteq dropped'
               /\ \A x : Late(x) => Late(x)'
               /\ \A k, x \in alive' : Pending(k, x) => Pending(k, x)'
    <2>1. /\ alive' = alive /\ dropped' = dropped /\ UNCHANGED <<acceptor, serving>>
          /\ answer' = [answer EXCEPT ![p] = <<>>] /\ answer[p] # Refused
      BY <1>8 DEF Joined, HasTree
    <2>2. \A x \in Peer : x # p => answer'[x] = answer[x]
      BY <2>1 DEF IInv, TypeOK
    <2> QED
      BY <1>a, <2>1, <2>2 DEF Late, Pending, Serves
  <1> QED
    BY <1>1, <1>2, <1>3, <1>4, <1>5, <1>6, <1>7, <1>8 DEF Next

\* Whom a living peer tells of somebody follows it.
LEMMA TellBox ==
    ASSUME IInv, Base, FollowerInv, BoxInv, alive' = alive, client' = client,
           NEW c \in Peer, c \in alive, NEW p \in Peer, NEW kind \in {"join", "leave"},
           Tell(c, p, kind)
    PROVE  BoxInv'
  <1> SUFFICES ASSUME NEW d \in alive, NEW f \in alive, inbox'[d][f] # <<>>
               PROVE  client[f] = d
    BY DEF BoxInv
  <1>1. d \in Peer /\ f \in Peer
    BY DEF IInv, TypeOK
  <1>2. CASE d = c /\ f \in followers[c]
    BY <1>2 DEF FollowerInv, Base, LinkInv
  <1>3. CASE ~(d = c /\ f \in followers[c])
    <2>1. inbox'[d][f] = inbox[d][f]
      BY <1>1, <1>3 DEF Tell, IInv, TypeOK
    <2> QED
      BY <2>1 DEF BoxInv
  <1> QED
    BY <1>2, <1>3

\* A peer that follows nobody who lives has nothing to read from the living.
LEMMA ClientBox ==
    ASSUME IInv, BoxInv, alive' \subseteq alive, inbox' = inbox,
           NEW p \in Peer, client[p] \notin alive,
           \A q \in Peer : q # p => client'[q] = client[q]
    PROVE  BoxInv'
  <1> SUFFICES ASSUME NEW d \in alive', NEW f \in alive', inbox[d][f] # <<>>
               PROVE  client'[f] = d
    BY DEF BoxInv
  <1>1. client[f] = d /\ d \in alive /\ f \in Peer
    BY DEF BoxInv, IInv, TypeOK
  <1> QED
    BY <1>1

LEMMA BoxInductive ==
    ASSUME IInv, Base, FollowerInv, BoxInv, [Next]_vars
    PROVE  FollowerInv' /\ BoxInv'
  <1> USE DEF peerVars, joinVars, tellVars
  <1>1. ASSUME alive' \subseteq alive, UNCHANGED <<client, inbox>>
        PROVE  BoxInv'
    BY <1>1 DEF BoxInv
  <1>2. ASSUME UNCHANGED <<group, followers>>
        PROVE  FollowerInv'
    BY <1>2 DEF FollowerInv
  <1>3. CASE UNCHANGED vars
    BY <1>1, <1>2, <1>3 DEF vars
  <1>4. ASSUME NEW p \in Peer, JoinFails(p) \/ Crash(p) \/ ConnectFollowerFails(p)
                               \/ LeaveTold(p) \/ SendReply(p) \/ ReplyFails(p) \/ Joined(p)
                               \/ (\E c \in Peer : NoInitPacket(c, p))
        PROVE  alive' \subseteq alive /\ UNCHANGED <<client, inbox, group, followers>>
    BY <1>4 DEF JoinFails, Crash, ConnectFollowerFails, LeaveTold, SendReply, ReplyFails,
                Joined, NoInitPacket
  <1>5. ASSUME NEW c \in Peer, ConnectFollower(c)
        PROVE  FollowerInv' /\ BoxInv'
    <2>1. /\ UNCHANGED <<alive, client, inbox>>
          /\ group' = [group EXCEPT ![c] = group[c] \cup {serving[c]}]
          /\ followers' = [followers EXCEPT ![c] = followers[c] \cup {serving[c]}]
      BY <1>5 DEF ConnectFollower
    <2> QED
      BY <1>1, <2>1 DEF FollowerInv, IInv, TypeOK
  <1>6. ASSUME NEW p \in Peer, NEW c \in Peer, Dial(p, c)
        PROVE  FollowerInv' /\ BoxInv'
    <2>1. /\ client[p] = NoPeer /\ client' = [client EXCEPT ![p] = Head(sps[c])]
          /\ UNCHANGED <<alive, inbox, group, followers>>
      BY <1>6 DEF Dial, IInv, ClientInv
    <2>2. NoPeer \notin alive /\ \A q \in Peer : q # p => client'[q] = client[q]
      BY <2>1, PeerAssumption DEF IInv, TypeOK
    <2> QED
      BY <1>2, <2>1, <2>2, ClientBox
  <1>7. ASSUME NEW p \in Peer, \/ BecomeCoordinator(p) \/ RebindToNewCoordinator(p)
                               \/ WrongCoordinator(p)
        PROVE  FollowerInv' /\ BoxInv'
    <2>1. /\ client[p] \notin alive /\ alive' \subseteq alive
          /\ UNCHANGED <<inbox, group, followers>>
      BY <1>7 DEF BecomeCoordinator, RebindToNewCoordinator, WrongCoordinator, CoordinatorGone
    <2>2. \A q \in Peer : q # p => client'[q] = client[q]
      BY <1>7 DEF BecomeCoordinator, RebindToNewCoordinator, WrongCoordinator, IInv, TypeOK
    <2> QED
      BY <1>2, <2>1, <2>2, ClientBox
  <1>8. ASSUME NEW c \in Peer, NEW p \in Peer, HandleJoinCell(c, p)
        PROVE  FollowerInv' /\ BoxInv'
    <2>1. c \in alive /\ Tell(c, p, "join") /\ UNCHANGED <<alive, client, group, followers>>
      BY <1>8 DEF HandleJoinCell
    <2> QED
      BY <1>2, <2>1, TellBox
  <1>9. ASSUME NEW c \in Peer, NEW p \in Peer, LeaveMesh(c, p)
        PROVE  FollowerInv' /\ BoxInv'
    <2>1. /\ c \in alive /\ Tell(c, p, "leave") /\ UNCHANGED <<alive, client>>
          /\ group' = [group EXCEPT ![c] = group[c] \ {p}]
          /\ followers' = [followers EXCEPT ![c] = followers[c] \ {p}]
      BY <1>9 DEF LeaveMesh
    <2>2. FollowerInv'
      BY <2>1 DEF FollowerInv, IInv, TypeOK
    <2> QED
      BY <2>1, <2>2, TellBox
  <1>10. ASSUME NEW c \in Peer, NEW f \in Peer,
                HandleCoordinatorJoinMesh(c, f) \/ HandleCoordinatorLeaveMesh(c, f)
         PROVE  FollowerInv' /\ BoxInv'
    <2>1. /\ UNCHANGED <<alive, client, group, followers>>
          /\ inbox[c][f] # <<>> /\ inbox' = [inbox EXCEPT ![c][f] = Tail(inbox[c][f])]
      BY <1>10 DEF HandleCoordinatorJoinMesh, HandleCoordinatorLeaveMesh, Notice
    <2>2. \A d, g \in Peer : inbox'[d][g] # <<>> => inbox[d][g] # <<>>
      BY <2>1 DEF IInv, TypeOK
    <2>3. BoxInv'
      BY <2>1, <2>2 DEF BoxInv, IInv, TypeOK
    <2> QED
      BY <1>2, <2>1, <2>3
  <1> QED
    BY <1>1, <1>2, <1>3, <1>4, <1>5, <1>6, <1>7, <1>8, <1>9, <1>10 DEF Next

-----------------------------------------------------------------------------
(* What a step keeps of the copies.                                         *)

\* The living stay on the list of k in their order, and only those who are late,
\* told of or refused come to its copies.
Steady(k) ==
    /\ Sure(k)' \subseteq Sure(k)
    /\ \A x \in alive' : x \in ToSet(sps[k]) => x \in ToSet(sps'[k])
    /\ \A x, y \in alive' : Precedes(sps[k], x, y) => Precedes(sps'[k], x, y)

\* The copy s of f comes from the copy r.
Renews(k, f, r, s) ==
    /\ \A x \in alive' : x \in ToSet(r) => x \in ToSet(s)
    /\ \A x, y \in Sure(k)' : Precedes(s, x, y) => Precedes(r, x, y) \/ Precedes(sps'[k], x, y)
    /\ k \in alive' =>
          \A x \in alive' : x \in ToSet(s) => x \in ToSet(r) \/ Late(x)' \/ Pending(k, x)'
    /\ \A x \in Sure(k)' : <<"join", x>> \in ToSet(inbox[k][f]) =>
          x \in ToSet(s) \/ <<"join", x>> \in ToSet(inbox'[k][f])

LEMMA RenewsAgrees ==
    ASSUME IInv, Base, Company, [Next]_vars, NEW k \in Peer, NEW f \in alive', NEW r, NEW s,
           Steady(k), Renews(k, f, r, s), Agrees(k, f, r)
    PROVE  Agrees(k, f, s)'
  <1>1. /\ alive' \subseteq alive
        /\ \A x : Late(x) => Late(x)'
        /\ \A x \in alive' : k \in alive' /\ Pending(k, x) => Pending(k, x)' \/ x \in ToSet(sps[k])
    BY PendingKept
  <1>2. Sure(k)' \subseteq alive'
    BY DEF Sure
  <1>3. ASSUME NEW x \in Sure(k)', NEW y \in Sure(k)', Precedes(s, x, y)
        PROVE  Precedes(sps'[k], x, y)
    BY <1>2, <1>3 DEF Steady, Renews, Agrees
  <1>4. ASSUME NEW x \in Sure(k)'
        PROVE  x \in ToSet(s) \/ <<"join", x>> \in ToSet(inbox'[k][f])
    BY <1>2 DEF Steady, Renews, Agrees
  <1>5. ASSUME k \in alive', NEW x \in alive', x \in ToSet(s)
        PROVE  x \in ToSet(sps'[k]) \/ Late(x)' \/ Pending(k, x)'
    BY <1>1, <1>5 DEF Steady, Renews, Agrees
  <1> QED
    BY <1>3, <1>4, <1>5 DEF Agrees

\* A step that starts to tell of nobody.
LEMMA RenewsLast ==
    ASSUME LastInv, NEW k \in coordinator, k \in alive', alive' \subseteq alive, Steady(k),
           \A f \in alive' : \A s \in Copies(k, f)' :
              \E r \in Copies(k, f) : Renews(k, f, r, s),
           NEW z \in alive', z \in ToSet(sps[k]), Serves(k, z)
    PROVE  \/ \A f \in alive' : \A s \in Copies(k, f)' : z \in ToSet(s)
           \/ \A x \in Sure(k)' : x # z => Precedes(sps'[k], x, z)
  <1>1. CASE \A f \in alive : \A s \in Copies(k, f) : z \in ToSet(s)
    BY <1>1 DEF Renews
  <1>2. CASE \A x \in Sure(k) : x # z => Precedes(sps[k], x, z)
    <2>1. Sure(k)' \subseteq alive'
      BY DEF Sure
    <2> QED
      BY <1>2, <2>1 DEF Steady
  <1> QED
    BY <1>1, <1>2 DEF LastInv

\* Steps that make nobody the coordinator, start to tell of nobody and renew copies.
LEMMA SteadyAccord ==
    ASSUME IInv, Base, Company, [Next]_vars, CopyInv, LastInv, coordinator' = coordinator,
           \A k \in coordinator :
              /\ Steady(k)
              /\ \A f \in alive' : \A s \in Copies(k, f)' :
                    \E r \in Copies(k, f) : Renews(k, f, r, s)
              /\ \A z \in alive' : k \in alive' /\ Serves(k, z)' /\ z \in ToSet(sps'[k]) =>
                    Serves(k, z) /\ z \in ToSet(sps[k])
    PROVE  CopyInv' /\ LastInv'
  <1>0. alive' \subseteq alive /\ coordinator \subseteq Peer
    BY PendingKept DEF IInv, TypeOK
  <1>1. CopyInv'
    <2> SUFFICES ASSUME NEW k \in coordinator, NEW f \in alive', NEW s \in Copies(k, f)'
                 PROVE  Agrees(k, f, s)'
      BY DEF CopyInv
    <2>1. PICK r \in Copies(k, f) : Renews(k, f, r, s)
      OBVIOUS
    <2>2. Agrees(k, f, r)
      BY <1>0, <2>1 DEF CopyInv
    <2> QED
      BY <1>0, <2>1, <2>2, RenewsAgrees
  <1>2. LastInv'
    <2> SUFFICES ASSUME NEW k \in coordinator, k \in alive', NEW z \in alive',
                        Serves(k, z)', z \in ToSet(sps'[k])
                 PROVE  \/ \A f \in alive' : \A s \in Copies(k, f)' : z \in ToSet(s)
                        \/ \A x \in Sure(k)' : x # z => Precedes(sps'[k], x, z)
      BY DEF LastInv
    <2>1. Serves(k, z) /\ z \in ToSet(sps[k])
      OBVIOUS
    <2> QED
      BY <1>0, <2>1, RenewsLast
  <1> QED
    BY <1>1, <1>2

\* Steps that change no coordinator's list and give nobody a new view.
LEMMA QuietAccord ==
    ASSUME IInv, Base, Company, [Next]_vars, CopyInv, LastInv, coordinator' = coordinator,
           \A k \in coordinator : sps'[k] = sps[k], QuietViews, inbox' = inbox,
           \A k \in alive' : \A z : Serves(k, z)' => Serves(k, z)
    PROVE  CopyInv' /\ LastInv'
  <1>0. alive' \subseteq alive /\ \A x : Late(x) => Late(x)'
    BY PendingKept
  <1>1. ASSUME NEW k \in coordinator
        PROVE  Steady(k)
    <2>1. sps'[k] = sps[k]
      OBVIOUS
    <2>2. Sure(k)' \subseteq Sure(k)
      BY <1>0, <2>1 DEF Sure
    <2> QED
      BY <2>1, <2>2 DEF Steady
  <1>2. ASSUME NEW k \in coordinator, NEW f \in alive', NEW s \in Copies(k, f)'
        PROVE  s \in Copies(k, f) /\ Renews(k, f, s, s)
    BY DEF Copies, QuietViews, Renews
  <1> QED
    BY <1>0, <1>1, <1>2, SteadyAccord

\* A follower whose list changes by what its coordinator tells it, or what others
\* have told that are dead; a coordinator whose list loses a dead peer.
LEMMA ListAccord ==
    ASSUME IInv, Base, Company, [Next]_vars, CopyInv, LastInv,
           NEW f \in Peer, NEW t, f \in alive, ~Locked(f),
           sps' = [sps EXCEPT ![f] = t], Evolves(sps[f], t),
           UNCHANGED <<alive, coordinator, role, client, answer, acceptor, serving, reply>>,
           \A x \in alive : x \in ToSet(t) =>
              x \in ToSet(sps[f]) \/ Late(x) \/ (client[f] \in alive /\ Serves(client[f], x)),
           \A d, g \in Peer : \A x \in alive : <<"join", x>> \in ToSet(inbox[d][g]) =>
              <<"join", x>> \in ToSet(inbox'[d][g]) \/ (g = f /\ x \in ToSet(t))
    PROVE  CopyInv' /\ LastInv'
  <1>a. /\ sps[f] \in Seq(Peer) /\ Distinct(sps[f]) /\ alive \subseteq Peer
        /\ coordinator \subseteq Peer /\ sps'[f] = t
        /\ \A k \in Peer : k # f => sps'[k] = sps[k]
    BY DEF IInv, TypeOK, Base, DistinctInv
  <1>b. /\ t \in Seq(Peer) /\ Distinct(t)
        /\ sps[f] # <<>> /\ Head(sps[f]) \in coordinator => t # <<>> /\ Head(t) = Head(sps[f])
        /\ \A x \in alive : x \in ToSet(sps[f]) => x \in ToSet(t)
        /\ \A x, y \in alive : Precedes(sps[f], x, y) => Precedes(t, x, y)
        /\ \A x, y : Precedes(t, x, y) /\ y \in ToSet(sps[f]) => Precedes(sps[f], x, y)
    BY <1>a, EvolveFacts
  <1>c. \A x : /\ Late(x)' <=> Late(x)
              /\ \A k : (Serves(k, x)' <=> Serves(k, x)) /\ (Pending(k, x)' <=> Pending(k, x))
    BY DEF Late, Serves, Pending
  <1>d. f \in coordinator => client[f] \notin alive
    BY <1>a, PeerAssumption DEF IInv, CoordInv
  <1>1. ASSUME NEW k \in coordinator
        PROVE  Steady(k)
    <2>1. CASE k # f
      <3>1. sps'[k] = sps[k]
        BY <1>a, <2>1
      <3> QED
        BY <1>c, <3>1 DEF Steady, Sure
    <2>2. CASE k = f
      <3>1. Sure(k)' \subseteq Sure(k)
        BY <1>a, <1>c, <1>d, <2>2 DEF Sure
      <3> QED
        BY <1>a, <1>b, <2>2, <3>1 DEF Steady
    <2> QED
      BY <2>1, <2>2
  <1>2. ASSUME NEW k \in coordinator, NEW g \in alive, NEW s \in Copies(k, g)'
        PROVE  \E r \in Copies(k, g) : Renews(k, g, r, s)
    <2>0. g \in Peer /\ k \in Peer /\ client[g] = k /\ Head(s) = k /\ s \in Views(g)'
      BY <1>a DEF Copies
    <2>1. \/ role[g] = "member" /\ s = sps'[g]
          \/ answer[g] # <<>> /\ s = answer[g]
          \/ \E c \in alive : Serves(c, g) /\ s = reply[c]
      BY <2>0 DEF Views, Serves
    <2>2. CASE g # f
      <3>1. s \in Copies(k, g)
        <4>1. sps'[g] = sps[g]
          BY <1>a, <2>0, <2>2
        <4> QED
          BY <2>0, <2>1, <4>1, ViewCases DEF Copies
      <3>2. Renews(k, g, s, s)
        BY <2>0, <2>2 DEF Renews, Sure
      <3> QED
        BY <3>1, <3>2
    <2>3. CASE g = f
      <3>1. role[f] = "member" /\ s = t
        BY <1>a, <2>1, <2>3, OneView
      <3>2. sps[f] \in Views(f) /\ f \in ToSet(sps[f])
        BY <3>1, ViewCases DEF IInv, SelfInv
      <3>3. sps[f] # <<>> /\ Head(sps[f]) \in coordinator
        BY <1>a, <3>1, <3>2, FrontFacts DEF Base, HeadInv
      <3>4. sps[f] \in Copies(k, f)
        BY <1>b, <2>0, <2>3, <3>1, <3>2, <3>3 DEF Copies
      <3>5. k # f
        BY <2>0, <2>3 DEF IInv, ClientInv
      <3>6. sps'[k] = sps[k] /\ Sure(k)' \subseteq Sure(k) /\ Sure(k)' \subseteq alive
        BY <1>1, <1>a, <2>0, <3>5 DEF Steady, Sure
      <3>7. ASSUME NEW x \in Sure(k)', NEW y \in Sure(k)', Precedes(t, x, y)
            PROVE  Precedes(sps[f], x, y) \/ Precedes(sps'[k], x, y)
        <4>1. CASE y \in ToSet(sps[f])
          BY <1>b, <3>7, <4>1
        <4>2. CASE y \notin ToSet(sps[f])
          <5>1. y \in alive /\ y \in ToSet(sps[k]) /\ ~Late(y) /\ x \in Sure(k)
            BY <3>6 DEF Sure
          <5>2. y \in ToSet(t) /\ x # y
            BY <1>b, <3>7, PrecedesIn
          <5>3. k \in alive /\ Serves(k, y)
            BY <2>0, <2>3, <4>2, <5>1, <5>2
          <5>4. \A z \in Sure(k) : z # y => Precedes(sps[k], z, y)
            BY <3>4, <4>2, <5>1, <5>3 DEF LastInv
          <5> QED
            BY <3>6, <5>1, <5>2, <5>4
        <4> QED
          BY <4>1, <4>2
      <3>8. ASSUME NEW x \in alive, x \in ToSet(t)
            PROVE  x \in ToSet(sps[f]) \/ Late(x)' \/ Pending(k, x)'
        BY <1>c, <2>0, <2>3, <3>8 DEF Pending
      <3>9. ASSUME NEW x \in Sure(k)', <<"join", x>> \in ToSet(inbox[k][f])
            PROVE  x \in ToSet(t) \/ <<"join", x>> \in ToSet(inbox'[k][f])
        BY <2>0, <3>6, <3>9
      <3>10. Renews(k, f, sps[f], t)
        BY <1>b, <3>7, <3>8, <3>9 DEF Renews
      <3> QED
        BY <2>3, <3>1, <3>4, <3>10
    <2> QED
      BY <2>2, <2>3
  <1>3. ASSUME NEW k \in coordinator, NEW z \in alive, k \in alive, Serves(k, z),
               z \in ToSet(sps'[k])
        PROVE  z \in ToSet(sps[k])
    <2>1. ~Late(z)
      BY <1>3, <1>a DEF Late, Base, WaitInv
    <2> QED
      BY <1>3, <1>a, <1>d, <2>1
  <1> QED
    BY <1>1, <1>2, <1>3, <1>c, SteadyAccord

-----------------------------------------------------------------------------
(* The steps.                                                               *)

\* A follower is told of a joiner: by its coordinator, or by one that is dead and
\* has left the joiner waiting.
LEMMA JoinNoticeAccord ==
    ASSUME IInv, Base, Company, [Next]_vars, BoxInv, CopyInv, LastInv, dropped' = {},
           NEW c \in Peer, NEW f \in Peer, HandleCoordinatorJoinMesh(c, f)
    PROVE  CopyInv' /\ LastInv'
  <1>0. PICK x : x = Head(inbox[c][f])[2]
    OBVIOUS
  <1>a. /\ Notice(c, f, "join") /\ f \in alive /\ ~Locked(f) /\ inbox[c][f] # <<>>
        /\ sps' = [sps EXCEPT ![f] = Add(sps[f], x)]
        /\ dropped' = IF x \in ToSet(sps'[f]) THEN dropped ELSE dropped \cup {f}
        /\ UNCHANGED <<alive, role, coordinator, client, answer, acceptor, serving, reply>>
    BY <1>0 DEF HandleCoordinatorJoinMesh, Notice, joinVars
  <1>b. <<"join", x>> \in ToSet(inbox[c][f]) /\ x \in Peer
    BY <1>0, <1>a, NoticeRead, NoticeFacts DEF IInv
  <1>c. sps'[f] = Add(sps[f], x) /\ sps[f] \in Seq(Peer) /\ alive \subseteq Peer
    BY <1>a DEF IInv, TypeOK
  <1>1. Serves(c, x)
    BY <1>a, <1>b DEF Base, JoinInv
  <1>2. client[x] = c /\ c # NoPeer
    BY <1>b, <1>1, PeerAssumption DEF Base, WaitInv
  <1>3. x \notin coordinator /\ role[x] # "new"
    BY <1>b, <1>2 DEF IInv, CoordInv, ClientInv
  <1>4. Evolves(sps[f], Add(sps[f], x))
    BY <1>b, <1>3 DEF Evolves
  <1>5. x \in ToSet(Add(sps[f], x))
    BY <1>a, <1>c
  <1>6. ASSUME NEW y \in alive, y \in ToSet(Add(sps[f], x))
        PROVE  y \in ToSet(sps[f]) \/ Late(y) \/ (client[f] \in alive /\ Serves(client[f], y))
    <2>1. y \in ToSet(sps[f]) \/ y = x
      BY <1>6, <1>b, <1>c, AppendKeeps DEF Add
    <2>2. CASE c \in alive
      BY <1>1, <1>a, <2>1, <2>2 DEF BoxInv
    <2>3. CASE c \notin alive
      BY <1>1, <2>1, <2>3 DEF Late
    <2> QED
      BY <2>2, <2>3
  <1>7. ASSUME NEW d \in Peer, NEW g \in Peer, NEW y \in alive,
               <<"join", y>> \in ToSet(inbox[d][g])
        PROVE  <<"join", y>> \in ToSet(inbox'[d][g]) \/ (g = f /\ y \in ToSet(Add(sps[f], x)))
    <2>1. \/ <<"join", y>> \in ToSet(inbox'[d][g])
          \/ d = c /\ g = f /\ <<"join", y>> = <<"join", x>>
      BY <1>0, <1>7, <1>a, NoticeKeeps DEF IInv
    <2> QED
      BY <1>5, <2>1
  <1> QED
    BY <1>4, <1>6, <1>7, <1>a, ListAccord

\* A follower is told of a departure.
LEMMA LeaveNoticeAccord ==
    ASSUME IInv, Base, Company, [Next]_vars, CopyInv, LastInv,
           NEW c \in Peer, NEW f \in Peer, HandleCoordinatorLeaveMesh(c, f)
    PROVE  CopyInv' /\ LastInv'
  <1>0. PICK x : x = Head(inbox[c][f])[2]
    OBVIOUS
  <1>a. /\ Notice(c, f, "leave") /\ f \in alive /\ ~Locked(f)
        /\ sps' = [sps EXCEPT ![f] = Erase(sps[f], x)]
        /\ UNCHANGED <<alive, role, coordinator, client, answer, acceptor, serving, reply>>
    BY <1>0 DEF HandleCoordinatorLeaveMesh, Notice, joinVars
  <1>b. <<"leave", x>> \in ToSet(inbox[c][f]) /\ x \in Peer
    BY <1>0, <1>a, NoticeRead, NoticeFacts DEF IInv
  <1>1. Evolves(sps[f], Erase(sps[f], x))
    BY <1>b DEF Base, LeaveInv, Evolves
  <1>2. ToSet(Erase(sps[f], x)) \subseteq ToSet(sps[f])
    BY EraseDistinct DEF IInv, TypeOK, Base, DistinctInv, Erase
  <1>3. ASSUME NEW d \in Peer, NEW g \in Peer, NEW y \in alive,
               <<"join", y>> \in ToSet(inbox[d][g])
        PROVE  <<"join", y>> \in ToSet(inbox'[d][g])
    <2>1. \/ <<"join", y>> \in ToSet(inbox'[d][g])
          \/ d = c /\ g = f /\ <<"join", y>> = <<"leave", x>>
      BY <1>0, <1>3, <1>a, NoticeKeeps DEF IInv
    <2> QED
      BY <2>1
  <1> QED
    BY <1>1, <1>2, <1>3, <1>a, ListAccord

\* A peer notices a departure and tells it.
LEMMA LeaveMeshAccord ==
    ASSUME IInv, Base, Company, [Next]_vars, CopyInv, LastInv,
           NEW c \in Peer, NEW p \in Peer, LeaveMesh(c, p)
    PROVE  CopyInv' /\ LastInv'
  <1>a. /\ c \in alive /\ ~Locked(c) /\ p \in group[c] /\ p \notin alive /\ Tell(c, p, "leave")
        /\ sps' = [sps EXCEPT ![c] = Erase(sps[c], p)]
        /\ UNCHANGED <<alive, role, coordinator, client, answer, acceptor, serving, reply>>
    BY DEF LeaveMesh, joinVars
  <1>b. client[p] = c /\ c # NoPeer
    BY <1>a, PeerAssumption DEF Base, LinkInv
  <1>1. Evolves(sps[c], Erase(sps[c], p))
    BY <1>a, <1>b DEF IInv, CoordInv, ClientInv, Evolves
  <1>2. ToSet(Erase(sps[c], p)) \subseteq ToSet(sps[c])
    BY EraseDistinct DEF IInv, TypeOK, Base, DistinctInv, Erase
  <1>3. \A d, g \in Peer : ToSet(inbox[d][g]) \subseteq ToSet(inbox'[d][g])
    BY <1>a, TellReaches DEF IInv
  <1> QED
    BY <1>1, <1>2, <1>3, <1>a, ListAccord

\* A new coordinator has followers that asked it before, and none with its list.
LEMMA BecomeAccord ==
    ASSUME IInv, Base, Company, [Next]_vars, CopyInv, LastInv,
           NEW p \in Peer, BecomeCoordinator(p)
    PROVE  CopyInv' /\ LastInv'
  <1>a. /\ p \notin coordinator /\ p \in alive
        /\ sps' = [sps EXCEPT ![p] = Survivors(p)]
        /\ coordinator' = coordinator \cup {p}
        /\ client' = [client EXCEPT ![p] = NoPeer]
        /\ UNCHANGED <<alive, role, answer, acceptor, serving, reply, inbox>>
    BY GoneFacts DEF BecomeCoordinator, CoordinatorGone, joinVars, tellVars
  <1>b. /\ alive \subseteq Peer /\ coordinator \subseteq Peer /\ client'[p] = NoPeer
        /\ \A q \in Peer : q # p => sps'[q] = sps[q] /\ client'[q] = client[q]
    BY <1>a DEF IInv, TypeOK
  <1>1. ASSUME NEW k \in coordinator', NEW f \in alive, NEW s \in Copies(k, f)'
        PROVE  k \in coordinator /\ s \in Copies(k, f)
    <2>1. f # p
      BY <1>a, <1>b, <1>1, PeerAssumption DEF Copies
    <2>2. s \in Views(f) /\ client[f] = k /\ Head(s) = k
      BY <1>a, <1>b, <2>1 DEF Copies, Views, Serves
    <2>3. Head(s) \in coordinator \/ s = Refused
      BY <1>b, <2>2, ViewCases DEF Base, HeadInv, HasTree, Serves
    <2>4. s # Refused
      BY <1>a, <1>b, <2>2, PeerAssumption DEF Refused
    <2> QED
      BY <2>2, <2>3, <2>4 DEF Copies
  <1>2. ASSUME NEW k \in coordinator
        PROVE  sps'[k] = sps[k] /\ Sure(k)' = Sure(k)
    BY <1>a, <1>b DEF Sure, Late, Serves
  <1>3. CopyInv'
    <2> SUFFICES ASSUME NEW k \in coordinator', NEW f \in alive', NEW s \in Copies(k, f)'
                 PROVE  Agrees(k, f, s)'
      BY DEF CopyInv
    <2>1. k \in coordinator /\ Agrees(k, f, s)
      BY <1>1, <1>a DEF CopyInv
    <2> QED
      BY <1>2, <1>a, <2>1 DEF Agrees, Late, Pending, Serves
  <1>4. LastInv'
    <2> SUFFICES ASSUME NEW k \in coordinator', k \in alive', NEW z \in alive',
                        Serves(k, z)', z \in ToSet(sps'[k])
                 PROVE  \/ \A f \in alive' : \A s \in Copies(k, f)' : z \in ToSet(s)
                        \/ \A x \in Sure(k)' : x # z => Precedes(sps'[k], x, z)
      BY DEF LastInv
    <2>1. CASE k \in coordinator
      <3>1. Serves(k, z)
        BY <1>a DEF Serves
      <3> QED
        BY <1>1, <1>2, <1>a, <2>1, <3>1 DEF LastInv
    <2>2. CASE k \notin coordinator
      BY <1>1, <1>a, <2>2
    <2> QED
      BY <2>1, <2>2
  <1> QED
    BY <1>3, <1>4

\* What is appended is behind all the others.
LEMMA AppendLast ==
    ASSUME NEW S, NEW s \in Seq(S), NEW e \in S, NEW x \in ToSet(s)
    PROVE  Precedes(Append(s, e), x, e)
  <1>1. PICK i \in 1..Len(s) : s[i] = x
    BY DEF ToSet
  <1>2. /\ Len(Append(s, e)) = Len(s) + 1 /\ Append(s, e)[Len(s) + 1] = e
        /\ Append(s, e)[i] = x /\ i < Len(s) + 1
        /\ i \in 1..(Len(s) + 1) /\ Len(s) + 1 \in 1..(Len(s) + 1)
    BY <1>1
  <1> QED
    BY <1>2 DEF Precedes

\* What a step of the acceptor of c changes.
Serving(c, p, t) ==
    /\ c \in alive /\ <<p, c>> \in asking /\ acceptor[c] = "idle" /\ ~Locked(c)
    /\ t = Add(sps[c], p) /\ sps'[c] = t /\ \A q \in Peer : q # c => sps'[q] = sps[q]
    /\ \A z : (Serves(c, z)' <=> z = p) /\ ~Serves(c, z)
    /\ \A d \in Peer : d # c => \A z : Serves(d, z)' <=> Serves(d, z)
    /\ client[p] = c /\ c # p /\ p \notin coordinator
    /\ \A d, f \in Peer : ToSet(inbox[d][f]) \subseteq ToSet(inbox'[d][f])
    /\ \A f \in alive : f # p /\ f \in followers[c] => <<"join", p>> \in ToSet(inbox'[c][f])
    /\ p \in alive => Waiting(p) /\ ~Late(p) /\ ~Late(p)'
    /\ UNCHANGED <<alive, role, coordinator, client, answer>>

LEMMA ServingFacts ==
    ASSUME IInv, Base, NEW c \in Peer, NEW p \in Peer, HandleJoinCell(c, p)
    PROVE  /\ Serving(c, p, Add(sps[c], p))
           /\ \A q \in alive : q \notin {c, p} => Views(q)' \subseteq Views(q)
           /\ \A s \in Views(c)' : role[c] = "member" /\ s = Add(sps[c], p)
           /\ p \in alive => \A s \in Views(p)' : s = ReplyOf(sps[c], Add(sps[c], p))
  <1>0. PICK t : t = Add(sps[c], p)
    OBVIOUS
  <1>a. /\ c \in alive /\ <<p, c>> \in asking /\ acceptor[c] = "idle" /\ ~Locked(c)
        /\ sps' = [sps EXCEPT ![c] = t] /\ sps'[c] = t
        /\ serving' = [serving EXCEPT ![c] = p]
        /\ acceptor' = [acceptor EXCEPT ![c] = "tell"]
        /\ Tell(c, p, "join")
        /\ UNCHANGED <<alive, role, coordinator, client, answer>>
    BY <1>0 DEF HandleJoinCell, IInv, TypeOK
  <1>b. reply' = [reply EXCEPT ![c] = ReplyOf(sps[c], t)]
    BY <1>a DEF HandleJoinCell
  <1>c. client[p] = c /\ c # NoPeer /\ p \notin coordinator /\ c # p
    BY <1>a, PeerAssumption DEF Base, WaitInv, IInv, ClientInv, CoordInv
  <1>d. alive \subseteq Peer
    BY DEF IInv, TypeOK
  <1>1. \A z : (Serves(c, z)' <=> z = p) /\ ~Serves(c, z)
    BY <1>a DEF Serves, IInv, TypeOK
  <1>2. \A d \in Peer : d # c => reply'[d] = reply[d] /\ \A z : Serves(d, z)' <=> Serves(d, z)
    BY <1>a, <1>b DEF Serves, IInv, TypeOK
  <1>3. \A q \in Peer : q # c => sps'[q] = sps[q]
    BY <1>a DEF IInv, TypeOK
  <1>4. \A d, f \in Peer : ToSet(inbox[d][f]) \subseteq ToSet(inbox'[d][f])
    BY <1>a, TellReaches DEF IInv
  <1>5. \A f \in alive : f # p /\ f \in followers[c] => <<"join", p>> \in ToSet(inbox'[c][f])
    BY <1>a, <1>d, TellReaches DEF IInv
  <1>6. ASSUME p \in alive
        PROVE  Waiting(p) /\ ~Late(p) /\ ~Late(p)'
    <2>1. Waiting(p) /\ \A d \in Peer : Serves(d, p) => d = c
      BY <1>6, <1>a, <1>c DEF Base, WaitInv
    <2> QED
      BY <1>1, <1>2, <1>a, <2>1 DEF Late
  <1>7. Serving(c, p, t)
    BY <1>0, <1>1, <1>2, <1>3, <1>4, <1>5, <1>6, <1>a, <1>c DEF Serving
  <1>8. ASSUME NEW q \in alive, NEW s \in Views(q)'
        PROVE  \/ role[q] = "member" /\ s = sps'[q]
               \/ answer[q] # <<>> /\ s = answer[q]
               \/ \E d \in alive : Serves(d, q)' /\ s = reply'[d]
    BY <1>8, <1>a DEF Views, Serves
  <1>9. ASSUME NEW q \in alive, q \notin {c, p}, NEW s \in Views(q)'
        PROVE  s \in Views(q)
    <2>1. sps'[q] = sps[q]
      BY <1>3, <1>9, <1>d
    <2>2. ASSUME NEW d \in alive, Serves(d, q)', s = reply'[d]
          PROVE  Serves(d, q) /\ s = reply[d]
      BY <1>1, <1>2, <1>9, <1>d, <2>2
    <2> QED
      BY <1>8, <1>9, <2>1, <2>2, ViewCases
  <1>10. ASSUME NEW s \in Views(c)'
         PROVE  role[c] = "member" /\ s = t
    <2>1. answer[c] = <<>> /\ \A d \in alive : ~Serves(d, c)
      BY <1>a, OneView
    <2>2. \A d \in alive : ~Serves(d, c)'
      BY <1>1, <1>2, <1>c, <1>d, <2>1
    <2> QED
      BY <1>8, <1>10, <1>a, <2>1, <2>2
  <1>11. ASSUME p \in alive, NEW s \in Views(p)'
         PROVE  s = ReplyOf(sps[c], t)
    <2>1. Waiting(p) /\ \A d \in Peer : Serves(d, p) => d = c
      BY <1>11, <1>a, <1>c DEF Base, WaitInv
    <2>2. PICK d \in alive : Serves(d, p)' /\ s = reply'[d]
      BY <1>8, <1>11, <2>1 DEF Waiting
    <2>3. d = c
      BY <1>2, <1>d, <2>1, <2>2
    <2> QED
      BY <1>b, <2>2, <2>3 DEF IInv, TypeOK
  <1> QED
    BY <1>0, <1>7, <1>9, <1>10, <1>11

\* A peer that is asked before it has noticed that it is next adds whom it knows,
\* or somebody whom the coordinator it has did not know.
LEMMA HeirJoinAccord ==
    ASSUME IInv, Base, Order, Company, [Next]_vars, CopyInv, LastInv,
           NEW c \in Peer, c \notin coordinator, NEW p \in Peer, HandleJoinCell(c, p)
    PROVE  CopyInv' /\ LastInv'
  <1>0. PICK t : t = Add(sps[c], p)
    OBVIOUS
  <1>a. /\ Serving(c, p, t)
        /\ \A q \in alive : q \notin {c, p} => Views(q)' \subseteq Views(q)
        /\ \A s \in Views(c)' : role[c] = "member" /\ s = t
    BY <1>0, ServingFacts
  <1>b. /\ alive \subseteq Peer /\ coordinator \subseteq Peer
        /\ sps[c] \in Seq(Peer) /\ Distinct(sps[c])
        /\ UNCHANGED <<alive, coordinator, client>>
    BY <1>a DEF IInv, TypeOK, Base, DistinctInv, Serving
  <1>c. /\ \A x \in alive : x \in ToSet(sps[c]) => x \in ToSet(t)
        /\ \A x, y : Precedes(t, x, y) /\ y \in ToSet(sps[c]) => Precedes(sps[c], x, y)
        /\ sps[c] # <<>> /\ Head(sps[c]) \in coordinator => Head(t) = Head(sps[c])
    <2>1. Evolves(sps[c], t)
      BY <1>0, <1>a, PeerAssumption DEF Evolves, Serving, IInv, ClientInv
    <2> QED
      BY <1>b, <2>1, EvolveFacts
  <1>d. t \in Seq(Peer) /\ ToSet(t) \subseteq ToSet(sps[c]) \cup {p}
    BY <1>0, <1>b, AppendKeeps DEF Add
  <1>e. \A x : Late(x) => Late(x)'
    BY PendingKept
  <1>1. ASSUME NEW k \in coordinator
        PROVE  k # c /\ sps'[k] = sps[k] /\ Steady(k)
    <2>1. k # c /\ sps'[k] = sps[k]
      BY <1>a, <1>b DEF Serving
    <2> QED
      BY <1>b, <1>e, <2>1 DEF Steady, Sure
  <1>2. ASSUME NEW k \in coordinator, NEW f \in alive, NEW s \in Copies(k, f)'
        PROVE  \E r \in Copies(k, f) : Renews(k, f, r, s)
    <2>0. s \in Views(f)' /\ client[f] = k /\ Head(s) = k /\ f \in Peer /\ k \in Peer /\ k # c
      BY <1>1, <1>2, <1>b DEF Copies
    <2>1. CASE f # c
      <3>1. f # p
        BY <1>a, <2>0 DEF Serving
      <3>2. s \in Copies(k, f)
        BY <1>a, <2>0, <2>1, <3>1 DEF Copies
      <3>3. Renews(k, f, s, s)
        BY <1>a, <2>0 DEF Renews, Serving
      <3> QED
        BY <3>2, <3>3
    <2>2. CASE f = c
      <3>1. role[c] = "member" /\ s = t
        BY <1>a, <2>0, <2>2
      <3>2. sps[c] # <<>> /\ Head(sps[c]) \in coordinator
        BY <1>a, <1>b, <3>1, FrontFacts DEF IInv, SelfInv, Base, HeadInv, Serving
      <3>3. sps[c] \in Copies(k, c)
        BY <1>c, <2>0, <2>2, <3>1, <3>2, ViewCases DEF Copies
      <3>4. Agrees(k, c, sps[c])
        BY <2>2, <3>3 DEF CopyInv
      <3>5. Sure(k)' \subseteq Sure(k) /\ Sure(k)' \subseteq alive
        BY <1>1, <1>b DEF Steady, Sure
      <3>6. ASSUME NEW y \in Sure(k), y \in ToSet(t)
            PROVE  y \in ToSet(sps[c])
        <4>1. <<"join", y>> \in ToSet(inbox[k][c]) => Serves(k, y)
          BY <2>0, <1>a, <1>b DEF Base, JoinInv, Sure, Serving
        <4>2. Serves(k, y) => y # p
          BY <1>a, <2>0 DEF Base, WaitInv, Serving
        <4> QED
          BY <1>d, <3>4, <3>6, <4>1, <4>2 DEF Agrees
      <3>7. ASSUME NEW x \in Sure(k)', NEW y \in Sure(k)', Precedes(t, x, y)
            PROVE  Precedes(sps[c], x, y)
        <4>1. y \in ToSet(t)
          BY <1>d, <3>7, PrecedesIn
        <4> QED
          BY <1>c, <3>5, <3>6, <3>7, <4>1
      <3>8. ASSUME k \in alive, p \in alive
            PROVE  FALSE
        <4>1. Target(c)
          BY <1>a, <3>8 DEF Company, TargetInv, Serving
        <4>2. PICK l \in coordinator : Latest(l) /\ l \notin alive
          BY <4>1 DEF Target, Heir
        <4> QED
          BY <3>8, <4>2 DEF Order, LatestInv
      <3>9. Renews(k, c, sps[c], t)
        BY <1>a, <1>b, <1>c, <1>d, <2>0, <3>7, <3>8 DEF Renews, Serving
      <3> QED
        BY <2>2, <3>1, <3>3, <3>9
    <2> QED
      BY <2>1, <2>2
  <1>3. ASSUME NEW k \in coordinator, NEW z, Serves(k, z)'
        PROVE  Serves(k, z)
    BY <1>1, <1>3, <1>a, <1>b DEF Serving
  <1> QED
    BY <1>1, <1>2, <1>3, <1>b, SteadyAccord

\* The joiner of a coordinator is new to all who follow it, and the last, or all of
\* them have it already.
LEMMA CoordinatorJoinAccord ==
    ASSUME IInv, Base, Order, Company, [Next]_vars, CopyInv, LastInv,
           NEW c \in Peer, c \in coordinator, NEW p \in Peer, HandleJoinCell(c, p)
    PROVE  CopyInv' /\ LastInv'
  <1>0. PICK t : t = Add(sps[c], p)
    OBVIOUS
  <1>a. /\ Serving(c, p, t)
        /\ \A q \in alive : q \notin {c, p} => Views(q)' \subseteq Views(q)
        /\ p \in alive => \A s \in Views(p)' : s = ReplyOf(sps[c], t)
    BY <1>0, ServingFacts
  <1>b. /\ alive \subseteq Peer /\ coordinator \subseteq Peer /\ client[c] = NoPeer
        /\ sps[c] \in Seq(Peer) /\ Distinct(sps[c])
        /\ UNCHANGED <<alive, coordinator, client>>
    BY <1>a DEF IInv, TypeOK, CoordInv, Base, DistinctInv, Serving
  <1>c. \A k \in coordinator : k \in alive => k = c
    BY <1>a DEF Order, LatestInv, Serving
  <1>d. \A x : Late(x) => Late(x)'
    BY PendingKept
  <1>e. \/ t = sps[c]
        \/ t = Append(sps[c], p) /\ p \notin ToSet(sps[c]) /\ ToSet(t) = ToSet(sps[c]) \cup {p}
    BY <1>0, <1>b, AppendKeeps DEF Add
  <1>f. ASSUME NEW x, NEW y
        PROVE  Precedes(sps[c], x, y) => Precedes(t, x, y)
    <2>1. Precedes(sps[c], x, y) => Precedes(Append(sps[c], p), x, y)
      BY <1>b, AppendPrecedes
    <2> QED
      BY <1>e, <2>1
  <1>1. ASSUME NEW k \in coordinator, NEW f \in alive, NEW s \in Copies(k, f)'
        PROVE  /\ f # p => s \in Copies(k, f) /\ Agrees(k, f, s)
               /\ f = p => k = c /\ s = t /\ p \in ToSet(t)
    <2>0. s \in Views(f)' /\ client[f] = k /\ Head(s) = k /\ f \in Peer /\ k \in Peer
      BY <1>1, <1>b DEF Copies
    <2>1. f # c
      BY <1>b, <2>0, PeerAssumption
    <2>2. CASE f # p
      BY <1>a, <2>0, <2>1, <2>2 DEF Copies, CopyInv
    <2>3. CASE f = p
      <3>1. k = c /\ s = ReplyOf(sps[c], t)
        BY <1>a, <2>0, <2>3 DEF Serving
      <3>2. ~Full(sps[c]) /\ s = t
        BY <2>0, <3>1, PeerAssumption DEF ReplyOf, Refused
      <3>3. p \in ToSet(t)
        BY <1>0, <1>b, <3>2, AddFacts
      <3> QED
        BY <2>3, <3>1, <3>2, <3>3
    <2> QED
      BY <2>2, <2>3
  <1>2. ASSUME NEW f \in alive, NEW s \in Copies(c, f), p \in Sure(c)
        PROVE  p \in ToSet(s)
    <2>1. <<"join", p>> \notin ToSet(inbox[c][f])
      BY <1>a, <1>b DEF Base, JoinInv, Serving
    <2> QED
      BY <1>2, <2>1 DEF CopyInv, Agrees
  <1>3. CopyInv'
    <2> SUFFICES ASSUME NEW k \in coordinator, NEW f \in alive, NEW s \in Copies(k, f)'
                 PROVE  Agrees(k, f, s)'
      BY <1>b DEF CopyInv
    <2>1. CASE f = p
      BY <1>1, <1>a, <2>1 DEF Agrees, Sure, Serving
    <2>2. CASE f # p /\ (k # c \/ t = sps[c] \/ p \notin alive)
      <3>1. Agrees(k, f, s)
        BY <1>1, <2>2
      <3>2. /\ \A x : x \in ToSet(sps[k]) => x \in ToSet(sps'[k])
            /\ \A x \in alive : x \in ToSet(sps'[k]) => x \in ToSet(sps[k])
            /\ \A x, y : Precedes(sps[k], x, y) => Precedes(sps'[k], x, y)
        <4>1. CASE k # c
          BY <1>a, <1>b, <4>1 DEF Serving
        <4>2. CASE k = c
          BY <1>a, <1>e, <1>f, <2>2, <4>2 DEF Serving
        <4> QED
          BY <4>1, <4>2
      <3>3. Steady(k)
        BY <1>b, <1>d, <3>2 DEF Steady, Sure
      <3>4. Renews(k, f, s, s)
        BY <1>a, <1>b DEF Renews, Serving
      <3> QED
        BY <1>b, <3>1, <3>3, <3>4, RenewsAgrees
    <2>3. CASE f # p /\ k = c /\ t # sps[c] /\ p \in alive
      <3>1. s \in Copies(c, f) /\ Agrees(c, f, s)
        BY <1>1, <2>3
      <3>2. p \notin ToSet(sps[c]) /\ ToSet(t) = ToSet(sps[c]) \cup {p} /\ sps'[c] = t
        BY <1>a, <1>e, <2>3 DEF Serving
      <3>3. p \notin ToSet(s)
        <4>1. ~Pending(c, p) /\ ~Late(p) /\ c \in alive
          BY <1>a, <2>3 DEF Pending, Serving, Waiting, Refused
        <4> QED
          BY <2>3, <3>1, <3>2, <4>1 DEF Agrees
      <3>4. s \in Seq(Peer \cup {NoPeer}) /\ f \in Peer
        BY <1>b, <3>1, ViewList DEF Copies
      <3>5. \A x \in Sure(c)' : x = p \/ x \in Sure(c)
        BY <1>b, <1>d, <3>2 DEF Sure
      <3>6. ASSUME NEW x \in Sure(c)', NEW y \in Sure(c)', Precedes(s, x, y)
            PROVE  Precedes(t, x, y)
        <4>1. x # p /\ y # p
          BY <3>3, <3>4, <3>6, PrecedesIn
        <4> QED
          BY <1>f, <3>1, <3>5, <3>6, <4>1 DEF Agrees
      <3>7. <<"join", p>> \in ToSet(inbox'[c][f])
        <4>1. s # Refused
          BY <1>b, <3>1, PeerAssumption DEF Copies, Refused
        <4>2. Listed(c, f)
          BY <1>a, <3>1, <4>1 DEF Copies, Placed, Company, ListedInv, Serving
        <4> QED
          BY <1>a, <2>3, <4>2 DEF Listed, Attached, Serving
      <3>8. ASSUME NEW x \in Sure(c)'
            PROVE  x \in ToSet(s) \/ <<"join", x>> \in ToSet(inbox'[c][f])
        BY <1>a, <3>1, <3>4, <3>5, <3>7 DEF Agrees, Serving
      <3>9. ASSUME NEW x \in alive, x \in ToSet(s)
            PROVE  x \in ToSet(t) \/ Late(x)' \/ Pending(c, x)'
        <4>1. x \in ToSet(sps[c]) \/ Late(x) \/ Pending(c, x)
          BY <1>a, <3>1, <3>9 DEF Agrees, Serving
        <4>2. Pending(c, x) => Pending(c, x)'
          BY <1>a DEF Pending, Serving
        <4> QED
          BY <1>d, <3>2, <4>1, <4>2
      <3>10. Agrees(c, f, s)'
        BY <1>b, <3>2, <3>6, <3>8, <3>9 DEF Agrees
      <3> QED
        BY <2>3, <3>10
    <2> QED
      BY <2>1, <2>2, <2>3
  <1>4. LastInv'
    <2> SUFFICES ASSUME NEW k \in coordinator, k \in alive, NEW z \in alive,
                        Serves(k, z)', z \in ToSet(sps'[k])
                 PROVE  \/ \A f \in alive : \A s \in Copies(k, f)' : z \in ToSet(s)
                        \/ \A x \in Sure(k)' : x # z => Precedes(sps'[k], x, z)
      BY <1>b DEF LastInv
    <2>1. k = c /\ z = p /\ sps'[c] = t
      BY <1>a, <1>c DEF Serving
    <2>2. CASE p \in ToSet(sps[c])
      <3>1. p \in Sure(c)
        BY <1>a, <2>1, <2>2 DEF Sure, Serving
      <3>2. ASSUME NEW f \in alive, NEW s \in Copies(c, f)'
            PROVE  p \in ToSet(s)
        BY <1>1, <1>2, <3>1
      <3> QED
        BY <2>1, <3>2
    <2>3. CASE p \notin ToSet(sps[c])
      <3>1. t = Append(sps[c], p) /\ ToSet(t) = ToSet(sps[c]) \cup {p}
        BY <1>e, <2>1, <2>3
      <3>2. ASSUME NEW x \in Sure(c)', x # p
            PROVE  Precedes(t, x, p)
        <4>1. x \in ToSet(sps[c])
          BY <2>1, <3>1, <3>2 DEF Sure
        <4> QED
          BY <1>b, <3>1, <4>1, AppendLast
      <3> QED
        BY <2>1, <3>2
    <2> QED
      BY <2>2, <2>3
  <1> QED
    BY <1>3, <1>4

-----------------------------------------------------------------------------
\* No step breaks the accord.
LEMMA AccordInductive ==
    ASSUME IInv, Base, Order, Company, Accord, [Next]_vars
    PROVE  Accord'
  <1> USE DEF peerVars, joinVars, tellVars
  <1>0. FollowerInv' /\ BoxInv'
    BY BoxInductive DEF Accord
  <1> SUFFICES ASSUME dropped' = {}
               PROVE  CopyInv' /\ LastInv'
    BY <1>0 DEF Accord
  <1>a. BoxInv /\ CopyInv /\ LastInv
    <2>1. dropped = {}
      BY PendingKept
    <2> QED
      BY <2>1 DEF Accord
  <1>1. ASSUME coordinator' = coordinator, \A k \in coordinator : sps'[k] = sps[k],
               QuietViews, inbox' = inbox, UNCHANGED <<acceptor, serving>>
        PROVE  CopyInv' /\ LastInv'
    <2>1. \A k \in alive' : \A z : Serves(k, z)' => Serves(k, z)
      BY <1>1 DEF Serves
    <2> QED
      BY <1>1, <1>a, <2>1, QuietAccord
  <1>2. CASE UNCHANGED vars
    BY <1>1, <1>2, StillViews DEF vars
  <1>3. ASSUME NEW p \in Peer, JoinFails(p) \/ Crash(p) \/ ConnectFollowerFails(p)
                               \/ LeaveTold(p) \/ (\E c \in Peer : NoInitPacket(c, p))
        PROVE  CopyInv' /\ LastInv'
    <2>1. /\ alive' \subseteq alive
          /\ UNCHANGED <<role, coordinator, sps, client, answer, acceptor, serving, reply, inbox>>
      BY <1>3 DEF JoinFails, Crash, ConnectFollowerFails, LeaveTold, NoInitPacket
    <2> QED
      BY <1>1, <2>1, StillViews
  <1>4. ASSUME NEW c \in Peer, ReplyFails(c) \/ ConnectFollower(c) \/ SendReply(c)
        PROVE  CopyInv' /\ LastInv'
    <2>1. UNCHANGED <<coordinator, sps, inbox>>
      BY <1>4 DEF ReplyFails, ConnectFollower, SendReply
    <2>2. CASE SendReply(c)
      <3>1. serving' = serving /\ acceptor' = [acceptor EXCEPT ![c] = "connect"]
        BY <2>2 DEF SendReply
      <3>2. \A k \in alive' : \A z : Serves(k, z)' => Serves(k, z)
        BY <3>1, PendingKept DEF Serves, IInv, TypeOK
      <3> QED
        BY <1>a, <2>1, <2>2, <3>2, SendReplyViews, QuietAccord
    <2>3. CASE ReplyFails(c) \/ ConnectFollower(c)
      <3>1. /\ alive' = alive
            /\ acceptor' = [acceptor EXCEPT ![c] = "idle"]
            /\ serving' = [serving EXCEPT ![c] = NoPeer]
            /\ reply' = [reply EXCEPT ![c] = <<>>]
            /\ UNCHANGED <<role, coordinator, sps, client, answer>>
        BY <2>3 DEF ReplyFails, ConnectFollower
      <3>2. \A k \in alive' : \A z : Serves(k, z)' => Serves(k, z)
        BY <3>1 DEF Serves, IInv, TypeOK
      <3>3. QuietViews
        BY <3>1, IdleViews
      <3> QED
        BY <1>a, <2>1, <3>2, <3>3, QuietAccord
    <2> QED
      BY <1>4, <2>2, <2>3
  <1>5. ASSUME NEW p \in Peer, Joined(p)
        PROVE  CopyInv' /\ LastInv'
    <2>1. /\ coordinator' = coordinator /\ inbox' = inbox /\ UNCHANGED <<acceptor, serving>>
          /\ sps' = [sps EXCEPT ![p] = answer[p]] /\ p \notin coordinator
      BY <1>5 DEF Joined, IInv, CoordInv
    <2>2. \A k \in coordinator : sps'[k] = sps[k]
      BY <2>1 DEF IInv, TypeOK
    <2> QED
      BY <1>1, <1>5, <2>1, <2>2, JoinedViews
  <1>6. ASSUME NEW p \in Peer, RebindToNewCoordinator(p) \/ WrongCoordinator(p)
        PROVE  CopyInv' /\ LastInv'
    <2>1. role[p] = "member" /\ p \notin coordinator /\ p \in alive
      BY <1>6, GoneFacts DEF RebindToNewCoordinator, WrongCoordinator, CoordinatorGone
    <2>2. /\ alive' \subseteq alive
          /\ \/ role' \in {[role EXCEPT ![p] = "rebinding"], [role EXCEPT ![p] = "orphan"]}
             \/ role' = role /\ p \notin alive'
          /\ UNCHANGED <<coordinator, answer, acceptor, serving, reply, inbox>>
      BY <1>6 DEF RebindToNewCoordinator, WrongCoordinator
    <2>3. \A q \in Peer \ {p} : sps'[q] = sps[q] /\ client'[q] = client[q]
      BY <1>6 DEF RebindToNewCoordinator, WrongCoordinator, IInv, TypeOK
    <2>4. \A k \in coordinator : sps'[k] = sps[k]
      BY <2>1, <2>3 DEF IInv, TypeOK
    <2>5. QuietViews
      BY <2>1, <2>2, <2>3, BlankViews
    <2> QED
      BY <1>1, <2>2, <2>4, <2>5
  <1>7. ASSUME NEW p \in Peer, NEW c \in Peer, Dial(p, c)
        PROVE  CopyInv' /\ LastInv'
    <2>1. UNCHANGED <<coordinator, sps, inbox, acceptor, serving>>
      BY <1>7 DEF Dial
    <2> QED
      BY <1>1, <1>7, <2>1, DialViews
  <1>8. ASSUME NEW p \in Peer, BecomeCoordinator(p)
        PROVE  CopyInv' /\ LastInv'
    BY <1>8, <1>a, BecomeAccord
  <1>9. ASSUME NEW c \in Peer, NEW p \in Peer, HandleJoinCell(c, p)
        PROVE  CopyInv' /\ LastInv'
    BY <1>9, <1>a, HeirJoinAccord, CoordinatorJoinAccord
  <1>10. ASSUME NEW c \in Peer, NEW p \in Peer,
                \/ HandleCoordinatorJoinMesh(c, p) \/ HandleCoordinatorLeaveMesh(c, p)
                \/ LeaveMesh(c, p)
         PROVE  CopyInv' /\ LastInv'
    BY <1>10, <1>a, JoinNoticeAccord, LeaveNoticeAccord, LeaveMeshAccord
  <1> QED
    BY <1>2, <1>3, <1>4, <1>5, <1>6, <1>7, <1>8, <1>9, <1>10 DEF Next

\* At first there is no copy and nothing to read.
LEMMA AccordInitially == Init => Accord
  <1> SUFFICES ASSUME Init PROVE Accord
    OBVIOUS
  <1> USE PeerAssumption DEF Init
  <1>1. FollowerInv /\ BoxInv
    BY DEF FollowerInv, BoxInv
  <1>2. CopyInv
    BY DEF CopyInv, Copies
  <1>3. LastInv
    BY DEF LastInv, Serves
  <1> QED
    BY <1>1, <1>2, <1>3 DEF Accord

-----------------------------------------------------------------------------
(* The theorems.                                                           *)

\* Every state of a cell has the types of the code: lists hold peers and never
\* the null pointer of a refused reply, whatever fails.
THEOREM TypeCorrect == Spec => []TypeOK
  <1>1. IInv => TypeOK
    BY DEF IInv
  <1> QED
    BY <1>1, Invariant, PTL

\* Cell::handleCoordinatorFailure never runs out of successors: the front that it
\* uses unchecked after removing the dead coordinator exists.
THEOREM NeverNullSuccessor == Spec => []SuccessorFound
  <1>1. IInv => SuccessorFound
    BY DEF IInv, TypeOK, SelfInv, ClientInv, SuccessorFound, Member
  <1> QED
    BY <1>1, Invariant, PTL

\* At most one coordinator is alive, whatever number of peers, slots and deaths,
\* and it is the first of its own list: handleCoordinatorFailure, in which each
\* follower elects from its own copy of the list, never elects two, although
\* copies may be stale, full or ahead of one another.
THEOREM NeverTwoCoordinators == Spec => []OneCoordinator
  <1>1. Init => IInv /\ Base /\ Order
    BY Initially, OrderInitially
  <1>2. IInv /\ Base /\ Order /\ [Next]_vars => (IInv /\ Base /\ Order)'
    BY Inductive, OrderInductive
  <1>3. IInv /\ Base /\ Order => OneCoordinator
    BY DEF OneCoordinator, Order, LatestInv, IInv, CoordInv
  <1> QED
    BY <1>1, <1>2, <1>3, PTL DEF Spec

\* A member that is in touch with its coordinator is on its list, and two members
\* that follow one peer know one another or are about to be told, unless a list
\* that was full has dropped a newcomer: the replies and the notices of the
\* acceptor complete one another in any order of joins, deaths and rebinds.
THEOREM NobodyForgotten == Spec => []NotForgotten
  <1>1. Init => IInv /\ Base /\ Order /\ Company
    BY Initially, OrderInitially, CompanyInitially
  <1>2. IInv /\ Base /\ Order /\ Company /\ [Next]_vars => (IInv /\ Base /\ Order /\ Company)'
    BY Inductive, OrderInductive, CompanyInductive
  <1>3. ASSUME IInv, Company PROVE NotForgotten
    <2>1. ASSUME NEW p \in Peer, Member(p)
          PROVE  sps[p] \in Views(p) /\ sps[p] # Refused /\ Placed(p) /\ p \in alive
      BY <1>3, <2>1, ViewCases, TreeNotRefused DEF Member, Placed
    <2>2. \A p \in Peer : Member(p) /\ client[p] \in alive => p \in ToSet(sps[client[p]])
      BY <1>3, <2>1 DEF Company, ListedInv, Listed
    <2>3. ASSUME NEW c \in alive, NEW p \in followers[c], NEW q \in followers[c],
                 Member(p), Member(q), client[p] = c, client[q] = c
          PROVE  p \in ToSet(sps[q]) \/ <<"join", p>> \in ToSet(inbox[c][q]) \/ q \in dropped
      <3>1. p \in Peer /\ q \in Peer
        BY <1>3, <2>3 DEF Member, IInv, TypeOK
      <3>2. CASE p = q
        BY <1>3, <2>3, <3>1, <3>2 DEF IInv, SelfInv, Member
      <3>3. CASE p # q
        <4>1. Known(p, q)
          BY <1>3, <2>1, <2>3, <3>1, <3>3 DEF Company, KnownInv
        <4> QED
          BY <2>1, <2>3, <3>1, <4>1 DEF Known
      <3> QED
        BY <3>2, <3>3
    <2> QED
      BY <2>2, <2>3 DEF NotForgotten, Acquainted
  <1> QED
    BY <1>1, <1>2, <1>3, PTL DEF Spec

\* The members of one cell have one order of succession for any two peers that their
\* coordinator lists: the trees of handleJoinCell, the notices in any order and the
\* late notices of dead coordinators, also while a peer is asked that has not noticed
\* yet that it is next, build the coordinator's order in every copy.
THEOREM OneSuccession == Spec => []SuccessionAgreed
  <1>1. Init => IInv /\ Base /\ Order /\ Company /\ Accord
    BY Initially, OrderInitially, CompanyInitially, AccordInitially
  <1>2. IInv /\ Base /\ Order /\ Company /\ Accord /\ [Next]_vars
        => (IInv /\ Base /\ Order /\ Company /\ Accord)'
    BY Inductive, OrderInductive, CompanyInductive, AccordInductive
  <1>3. ASSUME IInv, Base, Accord PROVE SuccessionAgreed
    <2> SUFFICES ASSUME dropped = {}, NEW k \in coordinator, NEW r \in CellOf(k),
                        NEW s \in CellOf(k), NEW p, NEW q,
                        p \in {m \in alive \cap ToSet(sps[k]) : ~Stranded(m)},
                        q \in {m \in alive \cap ToSet(sps[k]) : ~Stranded(m)},
                        Before(r, p, q), Before(s, q, p)
                 PROVE  FALSE
      BY DEF SuccessionAgreed
    <2>1. ASSUME NEW x \in alive, x \in ToSet(sps[k]), ~Stranded(x)
          PROVE  x \in Sure(k)
      <3>1. ~Late(x)
        BY <1>3, <2>1 DEF Late, Stranded, Base, WaitInv, Waiting, IInv, TypeOK
      <3> QED
        BY <2>1, <3>1 DEF Sure
    <2>2. ASSUME NEW m \in CellOf(k), NEW x \in Sure(k), NEW y \in Sure(k), Before(m, x, y)
          PROVE  Precedes(sps[k], x, y)
      <3>1. Precedes(sps[m], x, y) /\ m \in alive
        BY <2>2 DEF Precedes, Before, CellOf
      <3>2. CASE m = k
        BY <3>1, <3>2
      <3>3. CASE m # k
        <4>1. sps[m] \in Copies(k, m)
          BY <3>3, ViewCases DEF CellOf, Copies
        <4> QED
          BY <1>3, <3>1, <4>1 DEF Accord, CopyInv, Agrees
      <3> QED
        BY <3>2, <3>3
    <2>3. Precedes(sps[k], p, q) /\ Precedes(sps[k], q, p)
      BY <2>1, <2>2
    <2>4. sps[k] \in Seq(Peer) /\ Distinct(sps[k])
      BY <1>3 DEF IInv, TypeOK, Base, DistinctInv
    <2> QED
      BY <2>3, <2>4, PrecedesOrder
  <1> QED
    BY <1>1, <1>2, <1>3, PTL DEF Spec
=============================================================================
