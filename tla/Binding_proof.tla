--------------------------- MODULE Binding_proof ---------------------------
(* Proofs about MCBinding: the election of the root, and the leaf.          *)
EXTENDS MCBinding, FiniteSetTheorems, SequenceTheorems, TLAPS

-----------------------------------------------------------------------------
(* The root.  What is in a peer's socket.                                   *)

\* A request of p waits in box b; an answer waits in b.
From(b, p) == \E i \in DOMAIN b : b[i].type = "request" /\ b[i].src = p
Answered(b) == \E i \in DOMAIN b : b[i].type = "reply"

\* What is read is gone from the box, the rest stays.
LEMMA TailBox ==
    ASSUME NEW b \in Seq(Root!Datagram), b # <<>>
    PROVE  /\ Tail(b) \in Seq(Root!Datagram) /\ Head(b) \in Root!Datagram
           /\ Answered(b) => Answered(Tail(b)) \/ Head(b).type = "reply"
           /\ \A p : From(b, p) =>
                 From(Tail(b), p) \/ (Head(b).type = "request" /\ Head(b).src = p)
  <1>0. Tail(b) \in Seq(Root!Datagram) /\ Head(b) \in Root!Datagram
    OBVIOUS
  <1>1. \A i \in DOMAIN b : i = 1 \/ (i - 1 \in DOMAIN Tail(b) /\ Tail(b)[i - 1] = b[i])
    OBVIOUS
  <1>2. Head(b) = b[1]
    OBVIOUS
  <1> QED
    BY <1>0, <1>1, <1>2, Zenon DEF From, Answered

\* What arrives is added to the box.
LEMMA AppendBox ==
    ASSUME NEW b \in Seq(Root!Datagram), NEW m \in Root!Datagram
    PROVE  /\ Append(b, m) \in Seq(Root!Datagram)
           /\ Answered(b) \/ m.type = "reply" => Answered(Append(b, m))
           /\ \A p : From(b, p) \/ (m.type = "request" /\ m.src = p) => From(Append(b, m), p)
  <1>0. Append(b, m) \in Seq(Root!Datagram)
    OBVIOUS
  <1>1. \A i \in DOMAIN b : i \in DOMAIN Append(b, m) /\ Append(b, m)[i] = b[i]
    OBVIOUS
  <1>2. Len(b) + 1 \in DOMAIN Append(b, m) /\ Append(b, m)[Len(b) + 1] = m
    OBVIOUS
  <1> QED
    BY <1>0, <1>1, <1>2, Zenon DEF From, Answered

\* A datagram reaches all who listen, and nothing else is touched.
LEMMA MulticastBox ==
    ASSUME NEW box \in [Peers -> Seq(Root!Datagram)], NEW m \in Root!Datagram
    PROVE  /\ Root!Multicast(box, m) \in [Peers -> Seq(Root!Datagram)]
           /\ \A q \in Peers :
                 /\ Answered(box[q]) => Answered(Root!Multicast(box, m)[q])
                 /\ \A p : From(box[q], p) => From(Root!Multicast(box, m)[q], p)
                 /\ q # m.src /\ mode[q] \in Root!Listening =>
                       /\ m.type = "reply" => Answered(Root!Multicast(box, m)[q])
                       /\ m.type = "request" => From(Root!Multicast(box, m)[q], m.src)
  <1> SUFFICES ASSUME NEW q \in Peers
               PROVE  /\ Root!Multicast(box, m)[q] \in Seq(Root!Datagram)
                      /\ Answered(box[q]) => Answered(Root!Multicast(box, m)[q])
                      /\ \A p : From(box[q], p) => From(Root!Multicast(box, m)[q], p)
                      /\ q # m.src /\ mode[q] \in Root!Listening =>
                            /\ m.type = "reply" => Answered(Root!Multicast(box, m)[q])
                            /\ m.type = "request" => From(Root!Multicast(box, m)[q], m.src)
    BY DEF Root!Multicast
  <1>1. Root!Multicast(box, m)[q] = IF q # m.src /\ mode[q] \in Root!Listening
                                    THEN Append(box[q], m) ELSE box[q]
    BY DEF Root!Multicast
  <1>2. box[q] \in Seq(Root!Datagram)
    OBVIOUS
  <1> QED
    BY <1>1, <1>2, AppendBox, Zenon

-----------------------------------------------------------------------------
(* The invariant of the election.                                           *)

Asking == {p \in Peers : mode[p] = "asking"}

RootTypes ==
    /\ Root!TypeOK
    /\ inbox \in [Peers -> Seq(Root!Datagram)]
    /\ lost \in Nat /\ crashes \in Nat
    /\ \A p \in Asking : left[p] <= ReplyTimeout

\* Of two that ask one has just begun; so has whoever asks while there is a root.
FreshInv ==
    /\ \A p, q \in Asking : p # q => left[p] = ReplyTimeout \/ left[q] = ReplyTimeout
    /\ \A p \in Asking, r \in Root!Roots : left[p] = ReplyTimeout

\* The request of p waits at everyone who would yield to it, or has made it
\* sleep for longer than p will ask.
HeardInv ==
    \A p \in Asking, q \in Peers : p < q =>
        /\ mode[q] \in {"open", "asking"} => From(inbox[q], p)
        /\ mode[q] = "sleeping" => From(inbox[q], p) \/ left[q] > left[p]

\* Who asks while there is a root is about to be answered or to yield.
FoundInv ==
    \A p \in Asking, r \in Root!Roots :
        From(inbox[r], p) \/ Answered(inbox[p]) \/ (r < p /\ From(inbox[p], r))

SingleInv == \A r, s \in Root!Roots : r = s

\* No datagram was lost, and nobody began to listen while another asked.
Calm == lost = 0 /\ ~raced

Election == FreshInv /\ HeardInv /\ FoundInv /\ SingleInv

RootInv == RootTypes /\ (Calm => Election)

LEMMA RootInitially == Root!Init => RootInv
  <1> SUFFICES ASSUME Root!Init PROVE RootInv
    OBVIOUS
  <1>1. Asking = {} /\ Root!Roots = {}
    BY DEF Root!Init, Asking, Root!Roots
  <1>2. RootTypes
    <2>1. <<>> \in Seq(Root!Datagram) /\ DOMAIN <<>> = {}
      OBVIOUS
    <2>2. Root!TypeOK
      <3>1. \A p \in Peers : inbox[p] = <<>>
        BY DEF Root!Init
      <3>2. \A p \in Peers : \A i \in DOMAIN inbox[p] : inbox[p][i] \in Root!Datagram
        BY <2>1, <3>1
      <3>3. 0 \in 0 .. MaxWait
        BY TimeAssumption
      <3> QED
        BY <3>2, <3>3 DEF Root!Init, Root!TypeOK
    <2> QED
      BY <1>1, <2>1, <2>2 DEF Root!Init, RootTypes
  <1> QED
    BY <1>1, <1>2 DEF RootInv, Election, FreshInv, HeardInv, FoundInv, SingleInv

\* Every step keeps a fault on record.
LEMMA CalmBefore ==
    ASSUME RootInv, lost' = lost \/ lost' = lost + 1, raced => raced'
    PROVE  Calm' => Calm /\ lost' = lost /\ Election
  BY DEF Calm, RootInv, RootTypes

\* What p has left in its box when it has read on: all from those it yields to.
Left(p, box) ==
    /\ box \in [Peers -> Seq(Root!Datagram)]
    /\ \A q \in Peers \ {p} : box[q] = inbox[q]
    /\ \A s \in Peers : s < p /\ From(inbox[p], s) => From(box[p], s)

\* The types of boxes and of datagrams agree.
LEMMA BoxTypes ==
    ASSUME NEW box \in [Peers -> Seq(Root!Datagram)]
    PROVE  \A p \in Peers : \A i \in DOMAIN box[p] : box[p][i] \in Root!Datagram
  OBVIOUS

\* p asks, for the first time or again.
LEMMA AskKeeps ==
    ASSUME RootInv, NEW p \in Peers, NEW box, Left(p, box), Root!Request(p, box),
           mode[p] \in {"open", "asking"} \/ (mode[p] = "sleeping" /\ left[p] = 0),
           over' = over \/ over' = [over EXCEPT ![p] = MaxWait],
           UNCHANGED <<lost, crashes, raced>>
    PROVE  RootInv'
  <1>0. Peers \subseteq Int /\ ReplyTimeout \in Nat \ {0} /\ MaxWait \in Nat /\ ReplyTimeout < MaxWait
    BY TimeAssumption
  <1> DEFINE m == [type |-> "request", src |-> p, dst |-> -1]
  <1>1. m \in Root!Datagram /\ m.type = "request" /\ m.src = p
    BY DEF Root!Datagram
  <1>2. /\ inbox' \in [Peers -> Seq(Root!Datagram)]
        /\ \A q \in Peers : Answered(box[q]) => Answered(inbox'[q])
        /\ \A q \in Peers : \A s : From(box[q], s) => From(inbox'[q], s)
        /\ \A q \in Peers : q # p /\ mode[q] \in Root!Listening => From(inbox'[q], p)
    <2> HIDE DEF m
    <2>1. inbox' = Root!Multicast(box, m)
      BY DEF Root!Request, m
    <2> QED
      BY <1>1, <2>1, MulticastBox, Zenon DEF Left
  <1>3. /\ mode' = [mode EXCEPT ![p] = "asking"] /\ left' = [left EXCEPT ![p] = ReplyTimeout]
        /\ mode \in [Peers -> {"off", "open", "asking", "sleeping", "root", "bound", "down"}]
        /\ left \in [Peers -> 0 .. MaxWait] /\ over \in [Peers -> 0 .. MaxWait]
    BY DEF Root!Request, RootInv, RootTypes, Root!TypeOK
  <1>4. Asking' = Asking \cup {p} /\ Root!Roots' = Root!Roots /\ p \notin Root!Roots
    BY <1>3 DEF Asking, Root!Roots
  <1>5. RootTypes'
    <2>1. left' \in [Peers -> 0 .. MaxWait] /\ over' \in [Peers -> 0 .. MaxWait]
      BY <1>0, <1>3
    <2>2. mode' \in [Peers -> {"off", "open", "asking", "sleeping", "root", "bound", "down"}]
      BY <1>3
    <2>3. Root!TypeOK'
      BY <1>2, <2>1, <2>2, BoxTypes DEF RootInv, RootTypes, Root!TypeOK
    <2>4. \A q \in Asking' : left'[q] <= ReplyTimeout
      BY <1>0, <1>3, <1>4 DEF RootInv, RootTypes, Asking
    <2> QED
      BY <1>2, <2>3, <2>4 DEF RootInv, RootTypes
  <1>6. ASSUME Calm' PROVE Election'
    <2>1. FreshInv /\ HeardInv /\ FoundInv /\ SingleInv
      BY <1>6 DEF Calm, RootInv, Election
    <2>2. FreshInv'
      BY <1>3, <1>4, <2>1 DEF FreshInv, Asking
    <2>3. ASSUME NEW s \in Asking', NEW q \in Peers, s < q
          PROVE  /\ mode'[q] \in {"open", "asking"} => From(inbox'[q], s)
                 /\ mode'[q] = "sleeping" => From(inbox'[q], s) \/ left'[q] > left'[s]
      <3>1. CASE s = p
        <4>1. q # p /\ mode'[q] = mode[q]
          BY <1>0, <1>3, <2>3, <3>1
        <4> QED
          BY <1>2, <3>1, <4>1 DEF Root!Listening
      <3>2. CASE s # p /\ q = p
        <4>1. s \in Asking /\ left[s] \in Nat /\ From(inbox[p], s)
          BY <1>0, <1>3, <1>4, <2>1, <2>3, <3>2 DEF HeardInv, Asking
        <4> QED
          BY <1>2, <2>3, <3>2, <4>1 DEF Left, Asking
      <3>3. CASE s # p /\ q # p
        <4>1. s \in Asking /\ mode'[q] = mode[q] /\ left'[q] = left[q] /\ left'[s] = left[s]
          BY <1>3, <1>4, <3>3 DEF Asking
        <4>2. box[q] = inbox[q]
          BY <3>3 DEF Left
        <4> QED
          BY <1>2, <2>1, <2>3, <4>1, <4>2 DEF HeardInv
      <3> QED
        BY <3>1, <3>2, <3>3
    <2>4. ASSUME NEW s \in Asking', NEW r \in Root!Roots'
          PROVE  From(inbox'[r], s) \/ Answered(inbox'[s]) \/ (r < s /\ From(inbox'[s], r))
      <3>1. r \in Root!Roots /\ r # p /\ r \in Peers /\ mode[r] = "root" /\ s \in Peers
        BY <1>4, <2>4 DEF Root!Roots, Asking
      <3>2. CASE s = p
        BY <1>2, <3>1, <3>2 DEF Root!Listening
      <3>3. CASE s # p
        <4>1. s \in Asking /\ box[s] = inbox[s] /\ box[r] = inbox[r]
          BY <1>4, <3>1, <3>3, <2>4 DEF Left
        <4>2. From(box[r], s) \/ Answered(box[s]) \/ (r < s /\ From(box[s], r))
          BY <2>1, <3>1, <4>1 DEF FoundInv
        <4> QED
          BY <1>2, <3>1, <4>2
      <3> QED
        BY <3>2, <3>3
    <2>5. SingleInv'
      BY <1>4, <2>1 DEF SingleInv
    <2> QED
      BY <2>2, <2>3, <2>4, <2>5 DEF Election, HeardInv, FoundInv
  <1> QED
    BY <1>5, <1>6 DEF RootInv

\* p stops asking, for whatever reason, and what is in the others' boxes stays.
LEMMA StopKeeps ==
    ASSUME RootInv, NEW p \in Peers, mode[p] = "asking", NEW place,
           mode' = [mode EXCEPT ![p] = place], place \in {"root", "bound", "sleeping"},
           left' \in [Peers -> 0 .. MaxWait], over' \in [Peers -> 0 .. MaxWait],
           \A q \in Peers \ {p} : left'[q] = left[q] /\ inbox'[q] = inbox[q],
           inbox' \in [Peers -> Seq(Root!Datagram)],
           UNCHANGED <<lost, crashes, raced>>,
           place = "sleeping" => left'[p] = MaxWait,
           place = "root" => left[p] = 0 /\ Left(p, inbox')
    PROVE  RootInv'
  <1>0. Peers \subseteq Int /\ ReplyTimeout \in Nat \ {0} /\ MaxWait \in Nat /\ ReplyTimeout < MaxWait
    BY TimeAssumption
  <1>1. /\ mode \in [Peers -> {"off", "open", "asking", "sleeping", "root", "bound", "down"}]
        /\ left \in [Peers -> 0 .. MaxWait]
        /\ \A q \in Asking : left[q] <= ReplyTimeout
    BY DEF RootInv, RootTypes, Root!TypeOK
  <1>2. /\ Asking' = Asking \ {p} /\ p \notin Asking'
        /\ Root!Roots' = IF place = "root" THEN Root!Roots \cup {p} ELSE Root!Roots
        /\ p \in Asking /\ p \notin Root!Roots
    BY <1>1 DEF Asking, Root!Roots
  <1>3. RootTypes'
    <2>1. mode' \in [Peers -> {"off", "open", "asking", "sleeping", "root", "bound", "down"}]
      BY <1>1
    <2>2. Root!TypeOK'
      BY <2>1, BoxTypes DEF RootInv, RootTypes, Root!TypeOK
    <2>3. \A q \in Asking' : left'[q] <= ReplyTimeout
      BY <1>1, <1>2 DEF Asking
    <2> QED
      BY <2>2, <2>3 DEF RootInv, RootTypes
  <1>4. ASSUME Calm' PROVE Election'
    <2>1. FreshInv /\ HeardInv /\ FoundInv /\ SingleInv
      BY <1>4 DEF Calm, RootInv, Election
    <2>2. place = "root" => Root!Roots = {} /\ \A q \in Asking' : left[q] = ReplyTimeout
      BY <1>0, <1>2, <2>1 DEF FreshInv
    <2>3. \A q \in Asking' : q \in Peers /\ q # p /\ q \in Asking
      BY <1>2 DEF Asking
    <2>4. FreshInv'
      <3>1. \A q \in Asking' : left'[q] = left[q]
        BY <2>3
      <3>2. \A q, s \in Asking' : q # s => left'[q] = ReplyTimeout \/ left'[s] = ReplyTimeout
        BY <2>1, <2>3, <3>1 DEF FreshInv
      <3>3. \A q \in Asking', r \in Root!Roots' : left'[q] = ReplyTimeout
        BY <1>2, <2>1, <2>2, <2>3, <3>1 DEF FreshInv
      <3> QED
        BY <3>2, <3>3 DEF FreshInv
    <2>5. ASSUME NEW s \in Asking', NEW q \in Peers, s < q
          PROVE  /\ mode'[q] \in {"open", "asking"} => From(inbox'[q], s)
                 /\ mode'[q] = "sleeping" => From(inbox'[q], s) \/ left'[q] > left'[s]
      <3>1. CASE q = p
        <4>1. mode'[p] = place /\ left'[s] <= ReplyTimeout /\ left'[s] \in Nat
          BY <1>1, <2>3, <2>5
        <4> QED
          BY <1>0, <3>1, <4>1
      <3>2. CASE q # p
        BY <1>1, <2>1, <2>3, <2>5, <3>2 DEF HeardInv
      <3> QED
        BY <3>1, <3>2
    <2>6. ASSUME NEW s \in Asking', NEW r \in Root!Roots'
          PROVE  From(inbox'[r], s) \/ Answered(inbox'[s]) \/ (r < s /\ From(inbox'[s], r))
      <3>1. s \in Peers /\ s # p /\ s \in Asking /\ inbox'[s] = inbox[s]
        BY <2>3, <2>6
      <3>2. CASE place = "root"
        <4>1. r = p
          BY <1>2, <2>2, <2>6, <3>2
        <4>2. CASE s < p
          <5>1. From(inbox[p], s)
            BY <2>1, <3>1, <4>2 DEF HeardInv, Asking
          <5> QED
            BY <3>1, <3>2, <4>1, <4>2, <5>1 DEF Left
        <4>3. CASE p < s
          <5>1. From(inbox[s], p)
            BY <1>2, <2>1, <3>1, <4>3 DEF HeardInv, Asking
          <5> QED
            BY <3>1, <4>1, <4>3, <5>1
        <4> QED
          BY <1>0, <3>1, <4>2, <4>3
      <3>3. CASE place # "root"
        <4>1. r \in Root!Roots /\ r \in Peers /\ r # p
          BY <1>2, <2>6, <3>3 DEF Root!Roots
        <4> QED
          BY <2>1, <3>1, <4>1 DEF FoundInv
      <3> QED
        BY <3>2, <3>3
    <2>7. SingleInv'
      BY <1>2, <2>1, <2>2 DEF SingleInv
    <2> QED
      BY <2>4, <2>5, <2>6, <2>7 DEF Election, HeardInv, FoundInv
  <1> QED
    BY <1>3, <1>4 DEF RootInv

\* Only the boxes change: the requests of those one yields to, and the answers, stay.
LEMMA BoxesKeep ==
    ASSUME RootInv, UNCHANGED <<mode, left, over, crashes, raced, lost>>,
           inbox' \in [Peers -> Seq(Root!Datagram)],
           \A q \in Peers, s \in Asking :
                /\ mode[q] # "root" /\ s < q /\ From(inbox[q], s) => From(inbox'[q], s)
                /\ mode[q] = "root" /\ From(inbox[q], s) => From(inbox'[q], s) \/ Answered(inbox'[s]),
           \A s \in Asking :
                /\ Answered(inbox[s]) => Answered(inbox'[s])
                /\ \A r \in Root!Roots : r < s /\ From(inbox[s], r) => From(inbox'[s], r)
    PROVE  RootInv'
  <1>1. Asking' = Asking /\ Root!Roots' = Root!Roots
    BY DEF Asking, Root!Roots
  <1>2. RootTypes'
    BY <1>1, BoxTypes DEF RootInv, RootTypes, Root!TypeOK
  <1>3. ASSUME Calm' PROVE Election'
    <2>1. FreshInv /\ HeardInv /\ FoundInv /\ SingleInv
      BY <1>3 DEF Calm, RootInv, Election
    <2>2. FreshInv' /\ SingleInv'
      BY <1>1, <2>1 DEF FreshInv, SingleInv
    <2>3. HeardInv'
      BY <1>1, <2>1 DEF HeardInv
    <2>4. FoundInv'
      <3> SUFFICES ASSUME NEW s \in Asking, NEW r \in Root!Roots
                   PROVE  From(inbox'[r], s) \/ Answered(inbox'[s]) \/ (r < s /\ From(inbox'[s], r))
        BY <1>1 DEF FoundInv
      <3>1. From(inbox[r], s) \/ Answered(inbox[s]) \/ (r < s /\ From(inbox[s], r))
        BY <2>1 DEF FoundInv
      <3>2. r \in Peers /\ mode[r] = "root"
        BY DEF Root!Roots
      <3> QED
        BY <3>1, <3>2
    <2> QED
      BY <2>2, <2>3, <2>4 DEF Election
  <1> QED
    BY <1>2, <1>3 DEF RootInv

\* p reads the request m, which does not make it yield.
LEMMA ReadLeft ==
    ASSUME RootInv, NEW p \in Peers, inbox[p] # <<>>
    PROVE  LET box == [inbox EXCEPT ![p] = Tail(@)]
           IN  /\ box \in [Peers -> Seq(Root!Datagram)]
               /\ box[p] = Tail(inbox[p]) /\ \A q \in Peers \ {p} : box[q] = inbox[q]
               /\ Head(inbox[p]).src >= p \/ Head(inbox[p]).type = "reply" => Left(p, box)
  <1> DEFINE box == [inbox EXCEPT ![p] = Tail(@)]
  <1>1. inbox \in [Peers -> Seq(Root!Datagram)]
    BY DEF RootInv, RootTypes
  <1>2. inbox[p] \in Seq(Root!Datagram)
    BY <1>1
  <1>3. /\ box \in [Peers -> Seq(Root!Datagram)]
        /\ box[p] = Tail(inbox[p]) /\ \A q \in Peers \ {p} : box[q] = inbox[q]
    BY <1>1, <1>2
  <1>4. \A s \in Peers : From(inbox[p], s) =>
            From(box[p], s) \/ (Head(inbox[p]).type = "request" /\ Head(inbox[p]).src = s)
    BY <1>2, <1>3, TailBox, Zenon
  <1> HIDE DEF box
  <1>5. \A s \in Peers : s < p => ~(Head(inbox[p]).src >= p /\ Head(inbox[p]).src = s)
    BY TimeAssumption
  <1>6. Head(inbox[p]).src >= p \/ Head(inbox[p]).type = "reply" => Left(p, box)
    BY <1>3, <1>4, <1>5 DEF Left
  <1> QED
    BY <1>3, <1>6 DEF box

LEMMA ReceiveKeeps ==
    ASSUME RootInv, NEW p \in Peers, Root!Receive(p)
    PROVE  RootInv'
  <1>0. Peers \subseteq Int /\ ReplyTimeout \in Nat \ {0} /\ MaxWait \in Nat /\ ReplyTimeout < MaxWait
    BY TimeAssumption
  <1> DEFINE m == Head(inbox[p])
             box == [inbox EXCEPT ![p] = Tail(@)]
  <1>1. /\ mode[p] = "asking" /\ inbox[p] # <<>> /\ UNCHANGED <<lost, crashes, raced>>
        /\ (m.type = "reply" /\ Root!TakeReply(p)) \/ (m.type = "request" /\ Root!TakeRequest(p, m.src, box))
    BY DEF Root!Receive
  <1>2. /\ inbox \in [Peers -> Seq(Root!Datagram)] /\ inbox[p] \in Seq(Root!Datagram)
        /\ left \in [Peers -> 0 .. MaxWait] /\ over \in [Peers -> 0 .. MaxWait]
    BY DEF RootInv, RootTypes, Root!TypeOK
  <1>3. /\ box \in [Peers -> Seq(Root!Datagram)]
        /\ box[p] = Tail(inbox[p]) /\ \A q \in Peers \ {p} : box[q] = inbox[q]
        /\ m.src >= p \/ m.type = "reply" => Left(p, box)
    BY <1>1, ReadLeft
  <1>4. m \in Root!Datagram /\ m.src \in Int
    BY <1>0, <1>1, <1>2, TailBox, Zenon DEF Root!Datagram
  <1>5. m.type = "request" /\ Answered(inbox[p]) => Answered(box[p])
    <2>1. Answered(inbox[p]) => Answered(Tail(inbox[p])) \/ m.type = "reply"
      BY <1>1, <1>2, TailBox, Zenon
    <2> QED
      BY <1>3, <2>1
  <1> HIDE DEF m, box
  <1>6. CASE Root!TakeReply(p)
    <2>1. /\ mode' = [mode EXCEPT ![p] = "bound"] /\ left' = [left EXCEPT ![p] = 0]
          /\ over' = [over EXCEPT ![p] = 0] /\ inbox' = [inbox EXCEPT ![p] = <<>>]
      BY <1>6 DEF Root!TakeReply
    <2>2. left' \in [Peers -> 0 .. MaxWait] /\ over' \in [Peers -> 0 .. MaxWait]
      BY <1>0, <1>2, <2>1
    <2>3. /\ inbox' \in [Peers -> Seq(Root!Datagram)]
          /\ \A q \in Peers \ {p} : left'[q] = left[q] /\ inbox'[q] = inbox[q]
      BY <1>2, <2>1
    <2> QED
      BY <1>1, <2>1, <2>2, <2>3, StopKeeps
  <1>7. CASE m.type = "request" /\ m.src < p /\ Root!Sleep(p, box)
    <2>1. /\ mode' = [mode EXCEPT ![p] = "sleeping"] /\ left' = [left EXCEPT ![p] = MaxWait]
          /\ over' = over /\ inbox' = box
      BY <1>7 DEF Root!Sleep
    <2>2. left' \in [Peers -> 0 .. MaxWait] /\ left'[p] = MaxWait
      BY <1>0, <1>2, <2>1
    <2>3. \A q \in Peers \ {p} : left'[q] = left[q] /\ inbox'[q] = inbox[q]
      BY <1>2, <1>3, <2>1
    <2> QED
      BY <1>1, <1>2, <1>3, <2>1, <2>2, <2>3, StopKeeps
  <1>8. CASE m.type = "request" /\ ~(m.src < p) /\ Root!NextReceive(p, box)
    <2>0. Left(p, box) /\ left[p] \in Nat /\ over[p] \in Nat
      BY <1>0, <1>2, <1>3, <1>4, <1>8
    <2>1. CASE left[p] > 0 /\ inbox' = box /\ UNCHANGED <<mode, left, over>>
      <3>1. \A q \in Peers, s \in Asking :
                /\ mode[q] # "root" /\ s < q /\ From(inbox[q], s) => From(inbox'[q], s)
                /\ mode[q] = "root" /\ From(inbox[q], s) => From(inbox'[q], s) \/ Answered(inbox'[s])
        BY <1>1, <2>0, <2>1 DEF Left, Asking
      <3>2. \A s \in Asking :
                /\ Answered(inbox[s]) => Answered(inbox'[s])
                /\ \A r \in Root!Roots : r < s /\ From(inbox[s], r) => From(inbox'[s], r)
        BY <1>3, <1>5, <1>8, <2>0, <2>1 DEF Left, Asking, Root!Roots
      <3> QED
        BY <1>1, <1>3, <2>1, <3>1, <3>2, BoxesKeep
    <2>2. CASE left[p] = 0 /\ Root!Request(p, box) /\ UNCHANGED over
      BY <1>1, <2>0, <2>2, AskKeeps
    <2>3. CASE left[p] = 0 /\ Root!BecomeRoot(p, box)
      <3>1. /\ mode' = [mode EXCEPT ![p] = "root"] /\ left' = [left EXCEPT ![p] = 0]
            /\ over' = [over EXCEPT ![p] = 0] /\ inbox' = box
        BY <2>3 DEF Root!BecomeRoot
      <3>2. left' \in [Peers -> 0 .. MaxWait] /\ over' \in [Peers -> 0 .. MaxWait]
        BY <1>0, <1>2, <3>1
      <3>3. /\ inbox' \in [Peers -> Seq(Root!Datagram)] /\ Left(p, inbox')
            /\ \A q \in Peers \ {p} : left'[q] = left[q] /\ inbox'[q] = inbox[q]
        BY <1>2, <1>3, <2>0, <3>1
      <3> QED
        BY <1>1, <2>3, <3>1, <3>2, <3>3, StopKeeps
    <2> QED
      BY <1>8, <2>0, <2>1, <2>2, <2>3 DEF Root!NextReceive
  <1> QED
    BY <1>1, <1>6, <1>7, <1>8 DEF Root!TakeRequest

LEMMA AskingKeeps ==
    ASSUME RootInv, NEW p \in Peers, Root!Start(p) \/ Root!Wake(p)
    PROVE  RootInv'
  <1>1. Left(p, inbox)
    BY DEF Left, RootInv, RootTypes
  <1> QED
    BY <1>1, AskKeeps DEF Root!Start, Root!Wake

LEMMA GiveUpKeeps ==
    ASSUME RootInv, NEW p \in Peers, Root!GiveUp(p)
    PROVE  RootInv'
  <1>0. MaxWait \in Nat
    BY TimeAssumption
  <1>1. /\ mode[p] = "asking" /\ left[p] = 0 /\ UNCHANGED <<lost, crashes, raced>>
        /\ mode' = [mode EXCEPT ![p] = "root"] /\ left' = [left EXCEPT ![p] = 0]
        /\ over' = [over EXCEPT ![p] = 0] /\ inbox' = inbox
    BY DEF Root!GiveUp, Root!BecomeRoot
  <1>2. /\ left \in [Peers -> 0 .. MaxWait] /\ over \in [Peers -> 0 .. MaxWait]
        /\ inbox' \in [Peers -> Seq(Root!Datagram)]
    BY <1>1 DEF RootInv, RootTypes, Root!TypeOK
  <1>3. /\ left' \in [Peers -> 0 .. MaxWait] /\ over' \in [Peers -> 0 .. MaxWait]
        /\ \A q \in Peers \ {p} : left'[q] = left[q] /\ inbox'[q] = inbox[q]
    BY <1>0, <1>1, <1>2
  <1>4. Left(p, inbox')
    BY <1>1, <1>2 DEF Left
  <1> QED
    BY <1>1, <1>2, <1>3, <1>4, StopKeeps

\* The root answers, to all who listen.
LEMMA ServeKeeps ==
    ASSUME RootInv, NEW p \in Peers, Root!Serve(p)
    PROVE  RootInv'
  <1> DEFINE m == Head(inbox[p])
             box == [inbox EXCEPT ![p] = Tail(@)]
             a == [type |-> "reply", src |-> p, dst |-> m.src]
  <1>1. /\ mode[p] = "root" /\ inbox[p] # <<>>
        /\ inbox' = IF m.type = "request" THEN Root!Multicast(box, a) ELSE box
        /\ UNCHANGED <<mode, left, over, lost, crashes, raced>>
    BY DEF Root!Serve
  <1>2. inbox \in [Peers -> Seq(Root!Datagram)] /\ inbox[p] \in Seq(Root!Datagram)
    BY DEF RootInv, RootTypes
  <1>3. /\ box \in [Peers -> Seq(Root!Datagram)]
        /\ box[p] = Tail(inbox[p]) /\ \A q \in Peers \ {p} : box[q] = inbox[q]
    BY <1>1, ReadLeft
  <1>4. m \in Root!Datagram
    BY <1>1, <1>2, TailBox, Zenon
  <1>5. a \in Root!Datagram /\ a.type = "reply" /\ a.src = p
    BY <1>4 DEF Root!Datagram
  <1>6. \A s : From(inbox[p], s) => From(box[p], s) \/ m.type = "request"
    BY <1>1, <1>2, <1>3, TailBox, Zenon
  <1> HIDE DEF m, box, a
  <1>7. /\ inbox' \in [Peers -> Seq(Root!Datagram)]
        /\ \A q \in Peers : Answered(box[q]) => Answered(inbox'[q])
        /\ \A q \in Peers : \A s : From(box[q], s) => From(inbox'[q], s)
        /\ m.type = "request" => \A q \in Asking : Answered(inbox'[q])
    <2>1. CASE m.type = "request"
      <3>1. inbox' = Root!Multicast(box, a)
        BY <1>1, <2>1
      <3>2. \A q \in Asking : q \in Peers /\ q # p /\ mode[q] \in Root!Listening
        BY <1>1 DEF Asking, Root!Listening
      <3> QED
        BY <1>3, <1>5, <3>1, <3>2, MulticastBox, Zenon
    <2>2. CASE m.type # "request"
      BY <1>1, <1>3, <2>2
    <2> QED
      BY <2>1, <2>2
  <1>8. \A q \in Peers, s \in Asking :
            /\ mode[q] # "root" /\ s < q /\ From(inbox[q], s) => From(inbox'[q], s)
            /\ mode[q] = "root" /\ From(inbox[q], s) => From(inbox'[q], s) \/ Answered(inbox'[s])
    BY <1>1, <1>3, <1>6, <1>7
  <1>9. \A s \in Asking :
            /\ Answered(inbox[s]) => Answered(inbox'[s])
            /\ \A r \in Root!Roots : r < s /\ From(inbox[s], r) => From(inbox'[s], r)
    BY <1>1, <1>3, <1>7 DEF Asking
  <1> QED
    BY <1>1, <1>7, <1>8, <1>9, BoxesKeep

\* A peer that begins to listen while another asks is a race.
LEMMA OpenKeeps ==
    ASSUME RootInv, NEW p \in Peers, Root!Open(p)
    PROVE  RootInv'
  <1>1. /\ mode[p] \in {"off", "bound"} /\ mode' = [mode EXCEPT ![p] = "open"]
        /\ raced' = (raced \/ \E q \in Peers : mode[q] = "asking")
        /\ inbox' = [inbox EXCEPT ![p] = <<>>] /\ UNCHANGED <<left, over, lost, crashes>>
    BY DEF Root!Open
  <1>2. /\ mode \in [Peers -> {"off", "open", "asking", "sleeping", "root", "bound", "down"}]
        /\ inbox \in [Peers -> Seq(Root!Datagram)]
    BY DEF RootInv, RootTypes, Root!TypeOK
  <1>3. Asking' = Asking /\ Root!Roots' = Root!Roots
    BY <1>1, <1>2 DEF Asking, Root!Roots
  <1>4. /\ mode' \in [Peers -> {"off", "open", "asking", "sleeping", "root", "bound", "down"}]
        /\ inbox' \in [Peers -> Seq(Root!Datagram)] /\ raced' \in BOOLEAN
    BY <1>1, <1>2 DEF RootInv, RootTypes, Root!TypeOK
  <1>5. RootTypes'
    BY <1>1, <1>3, <1>4, BoxTypes DEF RootInv, RootTypes, Root!TypeOK
  <1>6. ASSUME Calm' PROVE Election'
    <2>1. Asking = {} /\ SingleInv
      BY <1>1, <1>6 DEF Calm, RootInv, Election, Asking
    <2> QED
      BY <1>3, <2>1 DEF Election, FreshInv, HeardInv, FoundInv, SingleInv
  <1> QED
    BY <1>5, <1>6 DEF RootInv

LEMMA LoseKeeps ==
    ASSUME RootInv, NEW p \in Peers, Root!Lose(p)
    PROVE  RootInv'
  <1>1. /\ inbox[p] # <<>> /\ lost' = lost + 1 /\ inbox' = [inbox EXCEPT ![p] = Tail(@)]
        /\ UNCHANGED <<mode, left, over, crashes, raced>>
    BY DEF Root!Lose
  <1>2. inbox' \in [Peers -> Seq(Root!Datagram)]
    BY <1>1, ReadLeft
  <1>3. Asking' = Asking /\ lost' \in Nat /\ lost' # 0
    BY <1>1 DEF Asking, RootInv, RootTypes
  <1>4. RootTypes'
    BY <1>1, <1>2, <1>3, BoxTypes DEF RootInv, RootTypes, Root!TypeOK
  <1> QED
    BY <1>3, <1>4 DEF RootInv, Calm

LEMMA CrashKeeps ==
    ASSUME RootInv, NEW p \in Peers, Root!Crash(p)
    PROVE  RootInv'
  <1>1. /\ mode[p] = "root" /\ mode' = [mode EXCEPT ![p] = "down"]
        /\ inbox' = [inbox EXCEPT ![p] = <<>>] /\ crashes' = crashes + 1
        /\ UNCHANGED <<left, over, lost, raced>>
    BY DEF Root!Crash
  <1>2. /\ mode \in [Peers -> {"off", "open", "asking", "sleeping", "root", "bound", "down"}]
        /\ inbox \in [Peers -> Seq(Root!Datagram)]
    BY DEF RootInv, RootTypes, Root!TypeOK
  <1>3. Asking' = Asking /\ Root!Roots' = Root!Roots \ {p} /\ p \notin Asking
    BY <1>1, <1>2 DEF Asking, Root!Roots
  <1>4. /\ mode' \in [Peers -> {"off", "open", "asking", "sleeping", "root", "bound", "down"}]
        /\ inbox' \in [Peers -> Seq(Root!Datagram)]
    BY <1>1, <1>2
  <1>5. RootTypes'
    BY <1>1, <1>3, <1>4, BoxTypes DEF RootInv, RootTypes, Root!TypeOK
  <1>6. ASSUME Calm' PROVE Election'
    <2>1. FreshInv /\ HeardInv /\ FoundInv /\ SingleInv
      BY <1>1, <1>6 DEF Calm, RootInv, Election
    <2>2. \A q \in Peers \ {p} : mode'[q] = mode[q] /\ inbox'[q] = inbox[q]
      BY <1>1, <1>2
    <2>3. mode'[p] = "down"
      BY <1>1, <1>2
    <2>4. FreshInv' /\ SingleInv'
      BY <1>1, <1>3, <2>1 DEF FreshInv, SingleInv
    <2>5. HeardInv'
      BY <1>1, <1>3, <2>1, <2>2, <2>3 DEF HeardInv
    <2>6. FoundInv'
      BY <1>3, <2>1, <2>2 DEF FoundInv, Asking, Root!Roots
    <2> QED
      BY <2>4, <2>5, <2>6 DEF Election
  <1> QED
    BY <1>5, <1>6 DEF RootInv

\* Time goes on only when all has been read: at most one peer is asking then, and
\* only without a root.
LEMMA TickKeeps ==
    ASSUME RootInv, Root!Tick
    PROVE  RootInv'
  <1>0. Peers \subseteq Int /\ ReplyTimeout \in Nat \ {0} /\ MaxWait \in Nat /\ ReplyTimeout < MaxWait
    BY TimeAssumption
  <1>1. /\ \A p \in Root!Waiting : left[p] > 0
        /\ \A p \in Peers : mode[p] \in {"asking", "root"} => inbox[p] = <<>>
        /\ left' = [p \in Peers |-> IF p \in Root!Waiting THEN left[p] - 1 ELSE left[p]]
        /\ over' = [p \in Peers |-> IF mode[p] = "asking" /\ over[p] > 0
                                    THEN over[p] - 1 ELSE over[p]]
        /\ UNCHANGED <<mode, inbox, lost, crashes, raced>>
    BY DEF Root!Tick
  <1>2. left \in [Peers -> 0 .. MaxWait] /\ over \in [Peers -> 0 .. MaxWait]
    BY DEF RootInv, RootTypes, Root!TypeOK
  <1>3. Asking' = Asking /\ Root!Roots' = Root!Roots
    BY <1>1 DEF Asking, Root!Roots
  <1>4. left' \in [Peers -> 0 .. MaxWait] /\ over' \in [Peers -> 0 .. MaxWait]
    BY <1>0, <1>1, <1>2
  <1>5. \A p \in Asking : left'[p] = left[p] - 1 /\ p \in Peers
    BY <1>1 DEF Asking, Root!Waiting
  <1>6. RootTypes'
    <2>1. \A p \in Asking' : left'[p] <= ReplyTimeout
      BY <1>0, <1>2, <1>3, <1>5 DEF RootInv, RootTypes
    <2> QED
      BY <1>1, <1>4, <2>1, BoxTypes DEF RootInv, RootTypes, Root!TypeOK
  <1>7. ASSUME Calm' PROVE Election'
    <2>1. FreshInv /\ HeardInv /\ FoundInv /\ SingleInv
      BY <1>1, <1>7 DEF Calm, RootInv, Election
    <2>2. \A p : ~From(<<>>, p) /\ ~Answered(<<>>)
      BY DEF From, Answered
    <2>3. \A p, q \in Asking : p = q
      <3> SUFFICES ASSUME NEW p \in Asking, NEW q \in Asking, p < q PROVE FALSE
        BY <1>0 DEF Asking
      <3> QED
        BY <1>1, <2>1, <2>2 DEF HeardInv, Asking
    <2>4. \A p \in Asking, r \in Root!Roots : FALSE
      BY <1>1, <2>1, <2>2 DEF FoundInv, Asking, Root!Roots
    <2>5. HeardInv'
      <3> SUFFICES ASSUME NEW s \in Asking, NEW q \in Peers, s < q
                   PROVE  /\ mode[q] \in {"open", "asking"} => From(inbox[q], s)
                          /\ mode[q] = "sleeping" => From(inbox[q], s) \/ left'[q] > left'[s]
        BY <1>1, <1>3 DEF HeardInv
      <3>1. /\ mode[q] \in {"open", "asking"} => From(inbox[q], s)
            /\ mode[q] = "sleeping" => From(inbox[q], s) \/ left[q] > left[s]
        BY <2>1 DEF HeardInv
      <3>2. mode[q] = "sleeping" => left'[q] = left[q] - 1
        BY <1>1 DEF Root!Waiting
      <3>3. s \in Peers /\ left'[s] = left[s] - 1
        BY <1>5
      <3>4. left[q] \in Int /\ left[s] \in Int
        BY <1>0, <1>2, <3>3
      <3> QED
        BY <3>1, <3>2, <3>3, <3>4
    <2>6. FreshInv' /\ FoundInv' /\ SingleInv'
      BY <1>3, <2>1, <2>3, <2>4 DEF FreshInv, FoundInv, SingleInv
    <2> QED
      BY <2>5, <2>6 DEF Election
  <1> QED
    BY <1>6, <1>7 DEF RootInv

LEMMA RootInductive == RootInv /\ [Root!Next]_rootVars => RootInv'
  <1> SUFFICES ASSUME RootInv, [Root!Next]_rootVars PROVE RootInv'
    OBVIOUS
  <1>1. CASE UNCHANGED rootVars
    BY <1>1 DEF rootVars, RootInv, RootTypes, Root!TypeOK, Calm, Election, FreshInv, HeardInv,
                FoundInv, SingleInv, Asking, Root!Roots
  <1>2. CASE Root!Tick
    BY <1>2, TickKeeps
  <1>3. ASSUME NEW p \in Peers,
               \/ Root!Open(p) \/ Root!Start(p) \/ Root!Wake(p) \/ Root!GiveUp(p)
               \/ Root!Receive(p) \/ Root!Serve(p) \/ Root!Lose(p) \/ Root!Crash(p)
        PROVE  RootInv'
    BY <1>3, OpenKeeps, AskingKeeps, GiveUpKeeps, ReceiveKeeps, ServeKeeps, LoseKeeps, CrashKeeps
  <1> QED
    BY <1>1, <1>2, <1>3 DEF Root!Next

\* For any set of UUIDs and any timeouts with the order of the code's, the mesh has
\* one root as long as no datagram is lost and nobody starts to listen while
\* another asks (CellDiscovery::requestCell).
THEOREM RootIsUnique == MCSpec => []OneRoot
  <1>1. MCInit => RootInv
    BY RootInitially DEF MCInit
  <1>2. RootInv /\ [MCNext]_<<part, vars, rootVars>> => RootInv'
    <2>1. [MCNext]_<<part, vars, rootVars>> => [Root!Next]_rootVars
      BY DEF MCNext
    <2> QED
      BY <2>1, RootInductive
  <1>3. RootInv => OneRoot
    BY DEF OneRoot, Root!OneRoot, RootInv, RootTypes, Calm, Election, SingleInv
  <1> QED
    BY <1>1, <1>2, <1>3, PTL DEF MCSpec

-----------------------------------------------------------------------------
(* The leaf.                                                                *)

\* The threads are numbers, and nobody is none of them.
LEMMA Numbers ==
    /\ MaxCrashes \in Nat /\ Main = 0
    /\ Channels = 1 .. MaxCrashes + 1 /\ Threads = 0 .. MaxCrashes + 1
    /\ None = MaxCrashes + 2 /\ None \notin Threads
    /\ Channels \subseteq Threads /\ Main \in Threads /\ Main \notin Channels
  <1>1. MaxCrashes \in Nat /\ Main = 0 /\ Channels = 1 .. MaxCrashes + 1
    BY CoordinatorAssumption DEF Main, Channels
  <1>2. Threads = 0 .. MaxCrashes + 1
    BY <1>1 DEF Threads
  <1>3. None = MaxCrashes + 2
    <2>1. Cardinality(0 .. MaxCrashes + 1) = MaxCrashes + 1 - 0 + 1
      BY <1>1, FS_Interval
    <2> QED
      BY <1>1, <1>2, <2>1 DEF None
  <1> QED
    BY <1>1, <1>2, <1>3

Channel == [coord : Coordinators, lock : Threads \cup {None}, pending : BOOLEAN,
            answer : {"none", "came", "gone"}, wire : {"none", "join", "update", "reply"},
            closed : BOOLEAN, listener : BOOLEAN, place : {"unknown", "listed", "refused"}]

Made == 1 .. made

LeafTypes ==
    /\ TypeOK
    /\ todo \in Seq({"audio", "actuator"})
    /\ Cardinality(Coordinators \ up) <= MaxCrashes

\* Who binds has the mesh's lock; the threads of channels to come are idle.
LockInv ==
    /\ \A t \in Threads : pc[t] \in Binding <=> mesh = t
    /\ \A i \in Channels : i > made => pc[i] = "idle"

\* The client is the last channel made, and all before it are closed.
LastInv ==
    /\ client \in {0, made}
    /\ ~broken => \A i \in Made : i # client => chan[i].closed

\* What a thread that binds has got, and what the mesh has when nobody does.
StageInv ==
    /\ \A t \in Threads : /\ pc[t] \in {"ask", "connect"} => client = 0
                          /\ pc[t] \in {"join", "await", "listen", "attach"} => client # 0
    /\ mesh = None => client # 0 /\ chan[client].listener

\* A channel is closed, and its requests cancelled, only when its coordinator is gone.
ClosedInv ==
    \A i \in Channels : /\ chan[i].closed \/ chan[i].answer = "gone" => Dead(i)
                        /\ pc[i] \in Closing => Dead(i)

\* No two channels were made to one coordinator.
OwnInv == \A i, j \in Made : i # j => chan[i].coord # chan[j].coord

DeadInv == ClosedInv /\ OwnInv

\* Who has answered has listed the leaf or refused it.
Known(i) == chan[i].place # "unknown" \/ Dead(i)

ListedInv ==
    /\ \A i \in Channels :
          chan[i].wire \in {"reply", "update"} \/ chan[i].answer = "came" \/ chan[i].listener => Known(i)
    /\ \A t \in Threads : pc[t] \in {"listen", "attach"} => Known(client)
    /\ pc[Main] = "send" => handler \in Channels /\ Known(handler)

\* Main and the readers know channels that were made; the mesh is told of closed ones.
HandlerInv ==
    /\ pc[Main] \in {"send", "awaitUpdate"} => handler \in Made
    /\ \A t \in Threads : pc[t] = "told" => Told(t) \in Made /\ chan[Told(t)].closed
    /\ \A i \in Channels : pc[i] = "fire" => chan[i].closed

\* The client has its listener, or the thread that gives it has seen it open.
Settling == mesh = None \/ \E t \in Threads : pc[t] = "attach"

\* From that moment on its closure has been heard, is about to be, or was missed.
AwareInv ==
    ~broken /\ Settling /\ client # 0 /\ chan[client].closed
      => Missed \/ pc[client] = "fire" \/ \E t \in Threads : pc[t] = "told" /\ Told(t) = client

LeafInv ==
    /\ LeafTypes /\ LockInv /\ LastInv /\ StageInv /\ DeadInv /\ ListedInv /\ HandlerInv
    /\ AwareInv

\* What TypeOK says of the variables, in the form that the steps use.
Typed ==
    /\ up \subseteq Coordinators /\ listed \subseteq Coordinators
    /\ target \in Coordinators
    /\ client \in Threads /\ handler \in Threads /\ made \in Threads
    /\ mesh \in Threads \cup {None}
    /\ chan \in [Channels -> Channel] /\ pc \in [Threads -> Where]
    /\ broken \in BOOLEAN
    /\ Made \subseteq Channels
    /\ client = 0 \/ (client = made /\ client \in Channels /\ client \in Made)

LEMMA TypeFacts == LeafInv => Typed
  <1> SUFFICES ASSUME LeafInv PROVE Typed
    OBVIOUS
  <1>1. /\ up \subseteq Coordinators /\ listed \subseteq Coordinators
        /\ target \in Coordinators
        /\ client \in Threads /\ handler \in Threads /\ made \in Threads
        /\ mesh \in Threads \cup {None}
        /\ chan \in [Channels -> Channel] /\ pc \in [Threads -> Where]
        /\ broken \in BOOLEAN
    BY DEF LeafInv, LeafTypes, TypeOK, Channel
  <1>2. Made \subseteq Channels /\ (client = 0 \/ client = made)
    BY <1>1, Numbers DEF LeafInv, LastInv, Made
  <1>3. client # 0 => client \in Channels /\ client \in Made
    BY <1>1, <1>2, Numbers DEF Made
  <1> QED
    BY <1>1, <1>2, <1>3 DEF Typed

\* A step that keeps the client and takes no leaf off a list.
LEMMA ListedKeeps ==
    ASSUME LeafInv, client' = client,
           \A j \in Channels : Known(j) => Known(j)',
           \A j \in Channels :
                chan'[j].wire \in {"reply", "update"} \/ chan'[j].answer = "came" \/ chan'[j].listener =>
                    \/ chan[j].wire \in {"reply", "update"} \/ chan[j].answer = "came"
                    \/ chan[j].listener \/ Known(j),
           \A t \in Threads : pc'[t] \in {"listen", "attach"} =>
                client \in Channels /\ (pc[t] \in {"listen", "attach"} \/ Known(client)),
           pc'[Main] = "send" => pc[Main] = "send" /\ handler' = handler
    PROVE  ListedInv'
  <1>1. \A j \in Channels :
            chan'[j].wire \in {"reply", "update"} \/ chan'[j].answer = "came" \/ chan'[j].listener => Known(j)'
    BY DEF LeafInv, ListedInv
  <1>2. ASSUME NEW t \in Threads, pc'[t] \in {"listen", "attach"}
        PROVE  Known(client)'
    <2>1. PICK k \in Channels : k = client /\ Known(k)
      BY <1>2 DEF LeafInv, ListedInv
    <2>2. Known(k)'
      BY <2>1
    <2> QED
      BY <2>1, <2>2 DEF Known, Dead
  <1>3. (pc[Main] = "send" => handler \in Channels /\ Known(handler))'
    <2>1. SUFFICES ASSUME pc'[Main] = "send" PROVE (handler \in Channels /\ Known(handler))'
      OBVIOUS
    <2>2. PICK k \in Channels : k = handler /\ Known(k)
      BY <2>1 DEF LeafInv, ListedInv
    <2>3. Known(k)'
      BY <2>2
    <2> QED
      BY <2>1, <2>2, <2>3 DEF Known, Dead
  <1> QED
    BY <1>1, <1>2, <1>3 DEF ListedInv, Known, Dead

LEMMA RequestCoordinatorLeaf ==
    ASSUME LeafInv, ~broken, NEW t \in Threads, RequestCoordinator(t)
    PROVE  LeafInv'
  <1>0. Typed
    BY TypeFacts
  <1>1. /\ pc[t] = "ask" /\ target' \in listed
        /\ pc' = [pc EXCEPT ![t] = "connect"]
        /\ UNCHANGED <<up, listed, client, mesh, chan, made, handler, todo, broken>>
    BY DEF RequestCoordinator, GoTo, Answers
  <1>2. LeafTypes'
    BY <1>0, <1>1, Numbers DEF Typed, LeafInv, LeafTypes, TypeOK, Where, Binding, Closing, Channel
  <1>3. LockInv'
    BY <1>0, <1>1, Numbers DEF Typed, LeafInv, LockInv, Binding
  <1>4. LastInv'
    BY <1>0, <1>1, Numbers DEF Typed, LeafInv, LastInv, Made
  <1>5. StageInv'
    BY <1>0, <1>1, Numbers DEF Typed, LeafInv, StageInv
  <1>6. DeadInv'
    BY <1>0, <1>1, Numbers DEF Typed, LeafInv, DeadInv, ClosedInv, Closing, OwnInv, Dead, Made
  <1>7. ListedInv'
    BY <1>0, <1>1, Numbers DEF Typed, LeafInv, ListedInv, Known, Dead
  <1>8. HandlerInv'
    BY <1>0, <1>1, Numbers DEF Typed, LeafInv, HandlerInv, Told, Made
  <1>9. AwareInv'
    BY <1>0, <1>1, Numbers DEF Typed, LeafInv, AwareInv, Settling, Missed, Told
  <1> QED
    BY <1>2, <1>3, <1>4, <1>5, <1>6, <1>7, <1>8, <1>9 DEF LeafInv

LEMMA ConnectFailedLeaf ==
    ASSUME LeafInv, ~broken, NEW t \in Threads, ConnectFailed(t)
    PROVE  LeafInv'
  <1>0. Typed
    BY TypeFacts
  <1>1. /\ pc[t] = "connect"
        /\ pc' = [pc EXCEPT ![t] = "ask"]
        /\ UNCHANGED <<up, listed, target, client, mesh, chan, made, handler, todo, broken>>
    BY DEF ConnectFailed, GoTo
  <1>2. LeafTypes'
    BY <1>0, <1>1, Numbers DEF Typed, LeafInv, LeafTypes, TypeOK, Where, Binding, Closing, Channel
  <1>3. LockInv'
    BY <1>0, <1>1, Numbers DEF Typed, LeafInv, LockInv, Binding
  <1>4. LastInv'
    BY <1>0, <1>1, Numbers DEF Typed, LeafInv, LastInv, Made
  <1>5. StageInv'
    BY <1>0, <1>1, Numbers DEF Typed, LeafInv, StageInv
  <1>6. DeadInv'
    BY <1>0, <1>1, Numbers DEF Typed, LeafInv, DeadInv, ClosedInv, Closing, OwnInv, Dead, Made
  <1>7. ListedInv'
    BY <1>0, <1>1, Numbers DEF Typed, LeafInv, ListedInv, Known, Dead
  <1>8. HandlerInv'
    BY <1>0, <1>1, Numbers DEF Typed, LeafInv, HandlerInv, Told, Made
  <1>9. AwareInv'
    BY <1>0, <1>1, Numbers DEF Typed, LeafInv, AwareInv, Settling, Missed, Told
  <1> QED
    BY <1>2, <1>3, <1>4, <1>5, <1>6, <1>7, <1>8, <1>9 DEF LeafInv

LEMMA JoinAnsweredLeaf ==
    ASSUME LeafInv, ~broken, NEW t \in Threads, JoinAnswered(t)
    PROVE  LeafInv'
  <1>0. Typed
    BY TypeFacts
  <1>1. /\ pc[t] = "await" /\ chan[client].answer # "none"
        /\ pc' = [pc EXCEPT ![t] = "listen"]
        /\ UNCHANGED <<up, listed, target, client, mesh, chan, made, handler, todo, broken>>
    BY DEF JoinAnswered, GoTo
  <1>a. Known(client)
    <2>1. client \in Channels /\ chan[client].answer \in {"came", "gone"}
      BY <1>0, <1>1 DEF Typed, Channel, LeafInv, StageInv
    <2> QED
      BY <2>1 DEF LeafInv, ListedInv, DeadInv, ClosedInv, OwnInv, Known
  <1>2. LeafTypes'
    BY <1>0, <1>1, <1>a, Numbers DEF Typed, LeafInv, LeafTypes, TypeOK, Where, Binding, Closing, Channel
  <1>3. LockInv'
    BY <1>0, <1>1, <1>a, Numbers DEF Typed, LeafInv, LockInv, Binding
  <1>4. LastInv'
    BY <1>0, <1>1, <1>a, Numbers DEF Typed, LeafInv, LastInv, Made
  <1>5. StageInv'
    BY <1>0, <1>1, <1>a, Numbers DEF Typed, LeafInv, StageInv
  <1>6. DeadInv'
    BY <1>0, <1>1, <1>a, Numbers DEF Typed, LeafInv, DeadInv, ClosedInv, Closing, OwnInv, Dead, Made
  <1>7. ListedInv'
    BY <1>0, <1>1, <1>a, Numbers DEF Typed, LeafInv, ListedInv, Known, Dead
  <1>8. HandlerInv'
    BY <1>0, <1>1, <1>a, Numbers DEF Typed, LeafInv, HandlerInv, Told, Made
  <1>9. AwareInv'
    BY <1>0, <1>1, <1>a, Numbers DEF Typed, LeafInv, AwareInv, Settling, Missed, Told
  <1> QED
    BY <1>2, <1>3, <1>4, <1>5, <1>6, <1>7, <1>8, <1>9 DEF LeafInv

LEMMA HandlePacketLeaf ==
    ASSUME LeafInv, ~broken, NEW i \in Channels, HandlePacket(i)
    PROVE  LeafInv'
  <1>0. Typed
    BY TypeFacts
  <1>1. /\ pc[i] = "reading" /\ chan[i].wire = "reply"
        /\ chan' = [chan EXCEPT ![i].wire = "none", ![i].pending = FALSE, ![i].answer = "came"]
        /\ UNCHANGED <<up, listed, target, client, mesh, made, handler, todo, broken>> /\ pc' = pc
    BY DEF HandlePacket
  <1>a. chan' \in [Channels -> Channel]
    <2>1. [chan[i] EXCEPT !.wire = "none", !.pending = FALSE, !.answer = "came"] \in Channel
      BY <1>0 DEF Typed, Channel
    <2> QED
      BY <1>0, <1>1, <2>1 DEF Typed
  <1>b. \A j \in Channels :
            /\ chan'[j].coord = chan[j].coord /\ chan'[j].place = chan[j].place
            /\ chan'[j].closed = chan[j].closed
            /\ chan'[j].listener = chan[j].listener
            /\ j # i => chan'[j] = chan[j]
    BY <1>0, <1>1 DEF Typed, Channel
  <1>c. chan'[i].wire = "none" /\ chan'[i].answer = "came"
    BY <1>0, <1>1 DEF Typed, Channel
  <1>d. \A j \in Channels : Known(j) => Known(j)'
    <2>1. up' = up
      BY <1>1
    <2> QED
      BY <1>b, <2>1 DEF Known, Dead
  <1>e. Known(i)
    BY <1>1 DEF LeafInv, ListedInv
  <1>2. LeafTypes'
    BY <1>0, <1>1, <1>a, <1>b, <1>c, <1>d, <1>e, Numbers DEF Typed, LeafInv, LeafTypes, TypeOK, Where, Binding, Closing, Channel
  <1>3. LockInv'
    BY <1>0, <1>1, <1>a, <1>b, <1>c, <1>d, <1>e, Numbers DEF Typed, LeafInv, LockInv, Binding
  <1>4. LastInv'
    BY <1>0, <1>1, <1>a, <1>b, <1>c, <1>d, <1>e, Numbers DEF Typed, LeafInv, LastInv, Made
  <1>5. StageInv'
    BY <1>0, <1>1, <1>a, <1>b, <1>c, <1>d, <1>e, Numbers DEF Typed, LeafInv, StageInv
  <1>6. DeadInv'
    BY <1>0, <1>1, <1>a, <1>b, <1>c, <1>d, <1>e, Numbers DEF Typed, LeafInv, DeadInv, ClosedInv, Closing, OwnInv, Dead, Made
  <1>7. ListedInv'
    <2>1. \A s \in Threads : pc[s] \in {"listen", "attach"} => client \in Channels
      BY <1>0 DEF Typed, LeafInv, StageInv
    <2> QED
      BY <1>1, <1>b, <1>c, <1>d, <1>e, <2>1, ListedKeeps
  <1>8. HandlerInv'
    BY <1>0, <1>1, <1>a, <1>b, <1>c, <1>d, <1>e, Numbers DEF Typed, LeafInv, HandlerInv, Told, Made
  <1>9. AwareInv'
    BY <1>0, <1>1, <1>a, <1>b, <1>c, <1>d, <1>e, Numbers DEF Typed, LeafInv, AwareInv, Settling, Missed, Told
  <1> QED
    BY <1>2, <1>3, <1>4, <1>5, <1>6, <1>7, <1>8, <1>9 DEF LeafInv

LEMMA ClearAllLeaf ==
    ASSUME LeafInv, ~broken, NEW i \in Channels, ClearAll(i)
    PROVE  LeafInv'
  <1>0. Typed
    BY TypeFacts
  <1>1. /\ pc[i] = "close"
        /\ pc' = [pc EXCEPT ![i] = "check"]
        /\ chan' = [chan EXCEPT ![i] = IF @.closed \/ ~@.pending THEN @
                                     ELSE [@ EXCEPT !.pending = FALSE, !.answer = "gone"]]
        /\ UNCHANGED <<up, listed, target, client, mesh, made, handler, todo, broken>>
    BY DEF ClearAll, GoTo
  <1>a. chan' \in [Channels -> Channel]
    <2>1. [chan[i] EXCEPT !.pending = FALSE, !.answer = "gone"] \in Channel
      BY <1>0 DEF Typed, Channel
    <2> QED
      BY <1>0, <1>1, <2>1 DEF Typed
  <1>b. \A j \in Channels :
            /\ chan'[j].coord = chan[j].coord /\ chan'[j].place = chan[j].place
            /\ chan'[j].closed = chan[j].closed
            /\ chan'[j].listener = chan[j].listener /\ chan'[j].wire = chan[j].wire
            /\ chan'[j].answer = chan[j].answer \/ (j = i /\ chan'[j].answer = "gone")
    BY <1>0, <1>1 DEF Typed, Channel
  <1>2. LeafTypes'
    BY <1>0, <1>1, <1>a, <1>b, Numbers DEF Typed, LeafInv, LeafTypes, TypeOK, Where, Binding, Closing, Channel
  <1>3. LockInv'
    BY <1>0, <1>1, <1>a, <1>b, Numbers DEF Typed, LeafInv, LockInv, Binding
  <1>4. LastInv'
    BY <1>0, <1>1, <1>a, <1>b, Numbers DEF Typed, LeafInv, LastInv, Made
  <1>5. StageInv'
    BY <1>0, <1>1, <1>a, <1>b, Numbers DEF Typed, LeafInv, StageInv
  <1>6. DeadInv'
    BY <1>0, <1>1, <1>a, <1>b, Numbers DEF Typed, LeafInv, DeadInv, ClosedInv, Closing, OwnInv, Dead, Made
  <1>7. ListedInv'
    BY <1>0, <1>1, <1>a, <1>b, Numbers DEF Typed, LeafInv, ListedInv, Known, Dead
  <1>8. HandlerInv'
    BY <1>0, <1>1, <1>a, <1>b, Numbers DEF Typed, LeafInv, HandlerInv, Told, Made
  <1>9. AwareInv'
    BY <1>0, <1>1, <1>a, <1>b, Numbers DEF Typed, LeafInv, AwareInv, Settling, Missed, Told
  <1> QED
    BY <1>2, <1>3, <1>4, <1>5, <1>6, <1>7, <1>8, <1>9 DEF LeafInv

LEMMA SetClosedLeaf ==
    ASSUME LeafInv, ~broken, NEW i \in Channels, SetClosed(i)
    PROVE  LeafInv'
  <1>0. Typed
    BY TypeFacts
  <1>1. /\ pc[i] = "mark"
        /\ pc' = [pc EXCEPT ![i] = "fire"]
        /\ chan' = [chan EXCEPT ![i].closed = TRUE]
        /\ UNCHANGED <<up, listed, target, client, mesh, made, handler, todo, broken>>
    BY DEF SetClosed, GoTo
  <1>a. chan' \in [Channels -> Channel]
    <2>1. [chan[i] EXCEPT !.closed = TRUE] \in Channel
      BY <1>0 DEF Typed, Channel
    <2> QED
      BY <1>0, <1>1, <2>1 DEF Typed
  <1>b. \A j \in Channels :
            /\ chan'[j].coord = chan[j].coord /\ chan'[j].place = chan[j].place
            /\ chan'[j].closed = (chan[j].closed \/ j = i)
            /\ chan'[j].listener = chan[j].listener /\ chan'[j].wire = chan[j].wire
            /\ chan'[j].answer = chan[j].answer
    BY <1>0, <1>1 DEF Typed, Channel
  <1>c. i # Main /\ i \in Threads /\ pc'[i] = "fire" /\ \A s \in Threads : s # i => pc'[s] = pc[s]
    BY <1>0, <1>1, Numbers DEF Typed
  <1>2. LeafTypes'
    BY <1>0, <1>1, <1>a, <1>b, <1>c, Numbers DEF Typed, LeafInv, LeafTypes, TypeOK, Where, Binding, Closing, Channel
  <1>3. LockInv'
    BY <1>0, <1>1, <1>a, <1>b, <1>c, Numbers DEF Typed, LeafInv, LockInv, Binding
  <1>4. LastInv'
    BY <1>0, <1>1, <1>a, <1>b, <1>c, Numbers DEF Typed, LeafInv, LastInv, Made
  <1>5. StageInv'
    BY <1>0, <1>1, <1>a, <1>b, <1>c, Numbers DEF Typed, LeafInv, StageInv
  <1>6. DeadInv'
    BY <1>0, <1>1, <1>a, <1>b, <1>c, Numbers DEF Typed, LeafInv, DeadInv, ClosedInv, Closing, OwnInv, Dead, Made
  <1>7. ListedInv'
    BY <1>0, <1>1, <1>a, <1>b, <1>c, Numbers DEF Typed, LeafInv, ListedInv, Known, Dead
  <1>8. HandlerInv'
    BY <1>0, <1>1, <1>a, <1>b, <1>c, Numbers DEF Typed, LeafInv, HandlerInv, Told, Made
  <1>9. AwareInv'
    BY <1>0, <1>1, <1>a, <1>b, <1>c, Numbers DEF Typed, LeafInv, AwareInv, Settling, Missed, Told
  <1> QED
    BY <1>2, <1>3, <1>4, <1>5, <1>6, <1>7, <1>8, <1>9 DEF LeafInv

\* A closure that finds no listener is the client's only while its listener is being set.
LEMMA FireOnCloseLeaf ==
    ASSUME LeafInv, ~broken, NEW i \in Channels, FireOnClose(i)
    PROVE  LeafInv'
  <1>0. Typed
    BY TypeFacts
  <1>1. /\ pc[i] = "fire"
        /\ pc' = [pc EXCEPT ![i] = IF chan[i].listener THEN "told"
                                   ELSE IF Attaching(i) THEN "missed" ELSE "done"]
        /\ UNCHANGED <<up, listed, target, client, mesh, chan, made, handler, todo, broken>>
    BY DEF FireOnClose, GoTo
  <1>a. i # Main /\ i \in Threads /\ i \in Made /\ chan[i].closed
    <2>1. ~(i > made)
      BY <1>1 DEF LeafInv, LockInv
    <2>2. chan[i].closed
      BY <1>1 DEF LeafInv, HandlerInv
    <2> QED
      BY <1>0, <2>1, <2>2, Numbers DEF Typed, Made
  <1>b. /\ pc'[i] \in {"told", "missed", "done"} /\ \A s \in Threads : s # i => pc'[s] = pc[s]
        /\ pc' \in [Threads -> Where]
    BY <1>0, <1>1, <1>a DEF Typed, Where
  <1>c. client = i /\ Settling => pc'[i] \in {"told", "missed"}
    <2>1. mesh = None /\ client = i => chan[i].listener
      BY DEF LeafInv, StageInv
    <2>2. (\E s \in Threads : pc[s] = "attach") /\ client = i => Attaching(i)
      BY DEF Attaching
    <2> QED
      BY <1>0, <1>1, <1>a, <2>1, <2>2 DEF Typed, Settling
  <1>2. LeafTypes'
    BY <1>0, <1>1, <1>a, <1>b, Numbers DEF Typed, LeafInv, LeafTypes, TypeOK, Where, Binding, Closing, Channel
  <1>3. LockInv'
    BY <1>0, <1>1, <1>a, <1>b, Numbers DEF Typed, LeafInv, LockInv, Binding
  <1>4. LastInv'
    BY <1>0, <1>1, <1>a, <1>b, Numbers DEF Typed, LeafInv, LastInv, Made
  <1>5. StageInv'
    BY <1>0, <1>1, <1>a, <1>b, Numbers DEF Typed, LeafInv, StageInv
  <1>6. DeadInv'
    BY <1>0, <1>1, <1>a, <1>b, Numbers DEF Typed, LeafInv, DeadInv, ClosedInv, Closing, OwnInv, Dead, Made
  <1>7. ListedInv'
    BY <1>0, <1>1, <1>a, <1>b, Numbers DEF Typed, LeafInv, ListedInv, Known, Dead
  <1>8. HandlerInv'
    BY <1>0, <1>1, <1>a, <1>b, Numbers DEF Typed, LeafInv, HandlerInv, Told, Made
  <1>9. AwareInv'
    <2>1. SUFFICES ASSUME Settling', client # 0, chan[client].closed
                   PROVE  (Missed \/ pc[client] = "fire" \/ \E s \in Threads : pc[s] = "told" /\ Told(s) = client)'
      BY <1>1 DEF AwareInv
    <2>2. Settling
      BY <1>1, <1>b, <2>1 DEF Settling
    <2>3. CASE client = i
      BY <1>1, <1>a, <1>c, <2>1, <2>2, <2>3 DEF Missed, Told
    <2>4. CASE client # i
      <3>1. client \in Threads
        BY <1>0 DEF Typed
      <3>2. Missed \/ pc[client] = "fire" \/ \E s \in Threads : pc[s] = "told" /\ Told(s) = client
        BY <1>1, <2>1, <2>2 DEF LeafInv, AwareInv
      <3>3. ASSUME NEW s \in Threads, pc[s] = "told", Told(s) = client
            PROVE  pc'[s] = "told" /\ Told(s)' = client
        BY <1>1, <1>b, <3>3 DEF Told
      <3> QED
        BY <1>1, <1>b, <2>1, <2>4, <3>1, <3>2, <3>3 DEF Missed
    <2> QED
      BY <2>3, <2>4
  <1> QED
    BY <1>2, <1>3, <1>4, <1>5, <1>6, <1>7, <1>8, <1>9 DEF LeafInv

LEMMA OnCloseLeaf ==
    ASSUME LeafInv, ~broken, NEW t \in Threads, OnClose(t)
    PROVE  LeafInv'
  <1>0. Typed
    BY TypeFacts
  <1>1. /\ pc[t] = "told" /\ mesh = None
        /\ pc' = [pc EXCEPT ![t] = "ask"]
        /\ broken' = (client # Told(t)) /\ mesh' = t /\ client' = 0
        /\ UNCHANGED <<up, listed, target, chan, made, handler, todo>>
    BY DEF OnClose, GoTo
  <1>a. \A s \in Threads : pc[s] \notin Binding /\ s # None
    BY <1>1, Numbers DEF LeafInv, LockInv
  <1>b. chan[Told(t)].closed
    BY <1>1 DEF LeafInv, HandlerInv
  <1>2. LeafTypes'
    BY <1>0, <1>1, <1>a, <1>b, Numbers DEF Typed, LeafInv, LeafTypes, TypeOK, Where, Binding, Closing, Channel
  <1>3. LockInv'
    BY <1>0, <1>1, <1>a, <1>b, Numbers DEF Typed, LeafInv, LockInv, Binding
  <1>4. LastInv'
    BY <1>0, <1>1, <1>a, <1>b, Numbers DEF Typed, LeafInv, LastInv, Made
  <1>5. StageInv'
    BY <1>0, <1>1, <1>a, Numbers DEF Typed, StageInv, Binding
  <1>6. DeadInv'
    BY <1>0, <1>1, <1>a, <1>b, Numbers DEF Typed, LeafInv, DeadInv, ClosedInv, Closing, OwnInv, Dead, Made
  <1>7. ListedInv'
    BY <1>0, <1>1, <1>a, Numbers DEF Typed, LeafInv, ListedInv, Known, Dead, Binding
  <1>8. HandlerInv'
    BY <1>0, <1>1, <1>a, <1>b, Numbers DEF Typed, LeafInv, HandlerInv, Told, Made
  <1>9. AwareInv'
    BY <1>0, <1>1, <1>a, <1>b, Numbers DEF Typed, LeafInv, AwareInv, Settling, Missed, Told
  <1> QED
    BY <1>2, <1>3, <1>4, <1>5, <1>6, <1>7, <1>8, <1>9 DEF LeafInv

LEMMA HandleJoinMeshLeaf ==
    ASSUME LeafInv, ~broken, NEW i \in Channels, HandleJoinMesh(i)
    PROVE  LeafInv'
  <1>0. Typed
    BY TypeFacts
  <1>1. PICK place \in {"listed", "refused"} :
        /\ chan[i].wire = "join" /\ ~Dead(i)
        /\ chan' = [chan EXCEPT ![i].wire = "reply", ![i].place = place]
        /\ UNCHANGED <<up, listed, target, client, mesh, made, handler, todo, broken>> /\ pc' = pc
    BY DEF HandleJoinMesh
  <1>a. chan' \in [Channels -> Channel]
    <2>1. [chan[i] EXCEPT !.wire = "reply", !.place = place] \in Channel
      BY <1>0 DEF Typed, Channel
    <2> QED
      BY <1>0, <1>1, <2>1 DEF Typed
  <1>b. \A j \in Channels :
            /\ chan'[j].coord = chan[j].coord /\ chan'[j].closed = chan[j].closed
            /\ chan'[j].listener = chan[j].listener /\ chan'[j].answer = chan[j].answer
            /\ j # i => chan'[j] = chan[j]
            /\ chan[j].place # "unknown" => chan'[j].place # "unknown"
    BY <1>0, <1>1 DEF Typed, Channel
  <1>c. Known(i)'
    BY <1>0, <1>1 DEF Typed, Channel, Known
  <1>d. \A j \in Channels : Known(j) => Known(j)'
    <2>1. up' = up
      BY <1>1
    <2> QED
      BY <1>b, <2>1 DEF Known, Dead
  <1>2. LeafTypes'
    BY <1>0, <1>1, <1>a, <1>b, <1>c, <1>d, Numbers DEF Typed, LeafInv, LeafTypes, TypeOK, Where, Binding, Closing, Channel
  <1>3. LockInv'
    BY <1>0, <1>1, <1>a, <1>b, <1>c, <1>d, Numbers DEF Typed, LeafInv, LockInv, Binding
  <1>4. LastInv'
    BY <1>0, <1>1, <1>a, <1>b, <1>c, <1>d, Numbers DEF Typed, LeafInv, LastInv, Made
  <1>5. StageInv'
    BY <1>0, <1>1, <1>a, <1>b, <1>c, <1>d, Numbers DEF Typed, LeafInv, StageInv
  <1>6. DeadInv'
    BY <1>0, <1>1, <1>a, <1>b, <1>c, <1>d, Numbers DEF Typed, LeafInv, DeadInv, ClosedInv, Closing, OwnInv, Dead, Made
  <1>7. ListedInv'
    <2>1. \A s \in Threads : pc[s] \in {"listen", "attach"} => client \in Channels
      BY <1>0 DEF Typed, LeafInv, StageInv
    <2>2. \A j \in Channels :
             chan'[j].wire \in {"reply", "update"} \/ chan'[j].answer = "came" \/ chan'[j].listener => Known(j)'
      BY <1>b, <1>c, <1>d DEF LeafInv, ListedInv
    <2>3. \A s \in Threads : pc'[s] \in {"listen", "attach"} => Known(client)'
      <3>1. SUFFICES ASSUME NEW s \in Threads, pc[s] \in {"listen", "attach"} PROVE Known(client)'
        BY <1>1
      <3>2. PICK k \in Channels : k = client /\ Known(k)
        BY <2>1, <3>1 DEF LeafInv, ListedInv
      <3>3. Known(k)'
        BY <1>d, <3>2
      <3> QED
        BY <1>1, <3>2, <3>3 DEF Known, Dead
    <2>4. pc'[Main] = "send" => (handler \in Channels /\ Known(handler))'
      BY <1>1, <1>d DEF LeafInv, ListedInv, Known, Dead
    <2> QED
      BY <2>2, <2>3, <2>4 DEF ListedInv
  <1>8. HandlerInv'
    BY <1>0, <1>1, <1>a, <1>b, <1>c, <1>d, Numbers DEF Typed, LeafInv, HandlerInv, Told, Made
  <1>9. AwareInv'
    BY <1>0, <1>1, <1>a, <1>b, <1>c, <1>d, Numbers DEF Typed, LeafInv, AwareInv, Settling, Missed, Told
  <1> QED
    BY <1>2, <1>3, <1>4, <1>5, <1>6, <1>7, <1>8, <1>9 DEF LeafInv

\* An update is sent to a channel whose join was answered.
LEMMA HandleUpdateInfoLeaf ==
    ASSUME LeafInv, ~broken, NEW i \in Channels, HandleUpdateInfo(i)
    PROVE  LeafInv'
  <1>0. Typed
    BY TypeFacts
  <1>1. /\ chan[i].wire = "update" /\ ~Dead(i)
        /\ chan' = [chan EXCEPT ![i].wire = "reply"]
        /\ UNCHANGED <<up, listed, target, client, mesh, made, handler, todo, broken>> /\ pc' = pc
    BY DEF HandleUpdateInfo
  <1>a. chan' \in [Channels -> Channel]
    <2>1. [chan[i] EXCEPT !.wire = "reply"] \in Channel
      BY <1>0 DEF Typed, Channel
    <2> QED
      BY <1>0, <1>1, <2>1 DEF Typed
  <1>b. \A j \in Channels :
            /\ chan'[j].coord = chan[j].coord /\ chan'[j].closed = chan[j].closed
            /\ chan'[j].listener = chan[j].listener /\ chan'[j].answer = chan[j].answer
            /\ j # i => chan'[j] = chan[j]
            /\ chan[j].place # "unknown" => chan'[j].place # "unknown"
    BY <1>0, <1>1 DEF Typed, Channel
  <1>c. Known(i)'
    BY <1>0, <1>1 DEF Typed, Channel, LeafInv, ListedInv, Known, Dead
  <1>d. \A j \in Channels : Known(j) => Known(j)'
    BY <1>1, <1>b DEF Known, Dead
  <1>2. LeafTypes'
    BY <1>0, <1>1, <1>a, <1>b, <1>c, <1>d, Numbers DEF Typed, LeafInv, LeafTypes, TypeOK, Where, Binding, Closing, Channel
  <1>3. LockInv'
    BY <1>0, <1>1, <1>a, <1>b, <1>c, <1>d, Numbers DEF Typed, LeafInv, LockInv, Binding
  <1>4. LastInv'
    BY <1>0, <1>1, <1>a, <1>b, <1>c, <1>d, Numbers DEF Typed, LeafInv, LastInv, Made
  <1>5. StageInv'
    BY <1>0, <1>1, <1>a, <1>b, <1>c, <1>d, Numbers DEF Typed, LeafInv, StageInv
  <1>6. DeadInv'
    BY <1>0, <1>1, <1>a, <1>b, <1>c, <1>d, Numbers DEF Typed, LeafInv, DeadInv, ClosedInv, Closing, OwnInv, Dead, Made
  <1>7. ListedInv'
    <2>1. \A s \in Threads : pc[s] \in {"listen", "attach"} => client \in Channels
      BY <1>0 DEF Typed, LeafInv, StageInv
    <2>2. \A j \in Channels :
             chan'[j].wire \in {"reply", "update"} \/ chan'[j].answer = "came" \/ chan'[j].listener => Known(j)'
      BY <1>b, <1>c, <1>d DEF LeafInv, ListedInv
    <2>3. \A s \in Threads : pc'[s] \in {"listen", "attach"} => Known(client)'
      <3>1. SUFFICES ASSUME NEW s \in Threads, pc[s] \in {"listen", "attach"} PROVE Known(client)'
        BY <1>1
      <3>2. PICK k \in Channels : k = client /\ Known(k)
        BY <2>1, <3>1 DEF LeafInv, ListedInv
      <3>3. Known(k)'
        BY <1>d, <3>2
      <3> QED
        BY <1>1, <3>2, <3>3 DEF Known, Dead
    <2>4. pc'[Main] = "send" => (handler \in Channels /\ Known(handler))'
      BY <1>1, <1>d DEF LeafInv, ListedInv, Known, Dead
    <2> QED
      BY <2>2, <2>3, <2>4 DEF ListedInv
  <1>8. HandlerInv'
    BY <1>0, <1>1, <1>a, <1>b, <1>c, <1>d, Numbers DEF Typed, LeafInv, HandlerInv, Told, Made
  <1>9. AwareInv'
    BY <1>0, <1>1, <1>a, <1>b, <1>c, <1>d, Numbers DEF Typed, LeafInv, AwareInv, Settling, Missed, Told
  <1> QED
    BY <1>2, <1>3, <1>4, <1>5, <1>6, <1>7, <1>8, <1>9 DEF LeafInv

LEMMA CrashLeaf ==
    ASSUME LeafInv, ~broken, NEW c \in Coordinators, Crash(c)
    PROVE  LeafInv'
  <1>0. Typed
    BY TypeFacts
  <1>1. /\ c \in up /\ Cardinality(Coordinators \ up) < MaxCrashes /\ up' = up \ {c}
        /\ chan' = [i \in Channels |-> IF chan[i].coord = c /\ chan[i].wire # "reply"
                                     THEN [chan[i] EXCEPT !.wire = "none"] ELSE chan[i]]
        /\ UNCHANGED <<listed, target, client, mesh, made, handler, todo, broken>> /\ pc' = pc
    BY DEF Crash
  <1>a. chan' \in [Channels -> Channel]
    <2>1. ASSUME NEW i \in Channels PROVE [chan[i] EXCEPT !.wire = "none"] \in Channel /\ chan[i] \in Channel
      BY <1>0 DEF Typed, Channel
    <2> QED
      BY <1>0, <1>1, <2>1 DEF Typed
  <1>b. \A j \in Channels :
            /\ chan'[j].coord = chan[j].coord /\ chan'[j].place = chan[j].place
            /\ chan'[j].closed = chan[j].closed
            /\ chan'[j].listener = chan[j].listener /\ chan'[j].answer = chan[j].answer
            /\ chan'[j].wire \in {"reply", "update"} => chan[j].wire \in {"reply", "update"}
    BY <1>0, <1>1 DEF Typed, Channel
  <1>c. Cardinality(Coordinators \ up') <= MaxCrashes
    <2>1. Coordinators \ up' = (Coordinators \ up) \cup {c}
      BY <1>1
    <2>2. IsFiniteSet(Coordinators \ up)
      BY CoordinatorAssumption, FS_Subset
    <2>3. /\ Cardinality(Coordinators \ up) \in Nat
          /\ Cardinality((Coordinators \ up) \cup {c}) = Cardinality(Coordinators \ up) + 1
      BY <1>1, <2>2, FS_AddElement, FS_CardinalityType
    <2>4. Cardinality(Coordinators \ up') = Cardinality(Coordinators \ up) + 1
      BY <2>1, <2>3, Zenon
    <2> QED
      BY <1>1, <2>3, <2>4, Numbers
  <1>d. \A j \in Channels : Known(j) => Known(j)'
    BY <1>1, <1>b DEF Known, Dead
  <1>2. LeafTypes'
    BY <1>0, <1>1, <1>a, <1>b, <1>c, <1>d, Numbers DEF Typed, LeafInv, LeafTypes, TypeOK, Where, Binding, Closing, Channel
  <1>3. LockInv'
    BY <1>0, <1>1, <1>a, <1>b, <1>c, <1>d, Numbers DEF Typed, LeafInv, LockInv, Binding
  <1>4. LastInv'
    BY <1>0, <1>1, <1>a, <1>b, <1>c, <1>d, Numbers DEF Typed, LeafInv, LastInv, Made
  <1>5. StageInv'
    BY <1>0, <1>1, <1>a, <1>b, <1>c, <1>d, Numbers DEF Typed, LeafInv, StageInv
  <1>6. DeadInv'
    BY <1>0, <1>1, <1>a, <1>b, <1>c, <1>d, Numbers DEF Typed, LeafInv, DeadInv, ClosedInv, Closing, OwnInv, Dead, Made
  <1>7. ListedInv'
    <2>1. \A s \in Threads : pc[s] \in {"listen", "attach"} => client \in Channels
      BY <1>0 DEF Typed, LeafInv, StageInv
    <2> QED
      BY <1>1, <1>b, <1>d, <2>1, ListedKeeps
  <1>8. HandlerInv'
    BY <1>0, <1>1, <1>a, <1>b, <1>c, <1>d, Numbers DEF Typed, LeafInv, HandlerInv, Told, Made
  <1>9. AwareInv'
    BY <1>0, <1>1, <1>a, <1>b, <1>c, <1>d, Numbers DEF Typed, LeafInv, AwareInv, Settling, Missed, Told
  <1> QED
    BY <1>2, <1>3, <1>4, <1>5, <1>6, <1>7, <1>8, <1>9 DEF LeafInv

LEMMA ForgetLeaf ==
    ASSUME LeafInv, ~broken, NEW c \in Coordinators, Forget(c)
    PROVE  LeafInv'
  <1>0. Typed
    BY TypeFacts
  <1>1. /\ c \in listed \ up /\ listed' = listed \ {c}
        /\ UNCHANGED <<up, target, client, mesh, chan, made, handler, todo, broken>> /\ pc' = pc
    BY DEF Forget
  <1>2. LeafTypes'
    BY <1>0, <1>1, Numbers DEF Typed, LeafInv, LeafTypes, TypeOK, Where, Binding, Closing, Channel
  <1>3. LockInv'
    BY <1>0, <1>1, Numbers DEF Typed, LeafInv, LockInv, Binding
  <1>4. LastInv'
    BY <1>0, <1>1, Numbers DEF Typed, LeafInv, LastInv, Made
  <1>5. StageInv'
    BY <1>0, <1>1, Numbers DEF Typed, LeafInv, StageInv
  <1>6. DeadInv'
    BY <1>0, <1>1, Numbers DEF Typed, LeafInv, DeadInv, ClosedInv, Closing, OwnInv, Dead, Made
  <1>7. ListedInv'
    BY <1>0, <1>1, Numbers DEF Typed, LeafInv, ListedInv, Known, Dead
  <1>8. HandlerInv'
    BY <1>0, <1>1, Numbers DEF Typed, LeafInv, HandlerInv, Told, Made
  <1>9. AwareInv'
    BY <1>0, <1>1, Numbers DEF Typed, LeafInv, AwareInv, Settling, Missed, Told
  <1> QED
    BY <1>2, <1>3, <1>4, <1>5, <1>6, <1>7, <1>8, <1>9 DEF LeafInv

LEMMA UpdateAnsweredLeaf ==
    ASSUME LeafInv, ~broken, UpdateAnswered
    PROVE  LeafInv'
  <1>0. Typed
    BY TypeFacts
  <1>1. /\ pc[Main] = "awaitUpdate"
        /\ chan' = [chan EXCEPT ![handler].lock = None]
        /\ handler' = 0 /\ pc' = [pc EXCEPT ![Main] = "update"]
        /\ UNCHANGED <<up, listed, target, client, mesh, made, todo, broken>>
    BY DEF UpdateAnswered, GoTo
  <1>a. chan' \in [Channels -> Channel]
    <2>1. handler \in Channels => [chan[handler] EXCEPT !.lock = None] \in Channel
      BY <1>0 DEF Typed, Channel
    <2> QED
      BY <1>0, <1>1, <2>1 DEF Typed
  <1>b. \A j \in Channels :
            /\ chan'[j].coord = chan[j].coord /\ chan'[j].place = chan[j].place
            /\ chan'[j].closed = chan[j].closed
            /\ chan'[j].listener = chan[j].listener /\ chan'[j].answer = chan[j].answer
            /\ chan'[j].wire = chan[j].wire
    BY <1>0, <1>1 DEF Typed, Channel
  <1>2. LeafTypes'
    BY <1>0, <1>1, <1>a, <1>b, Numbers DEF Typed, LeafInv, LeafTypes, TypeOK, Where, Binding, Closing, Channel
  <1>3. LockInv'
    BY <1>0, <1>1, <1>a, <1>b, Numbers DEF Typed, LeafInv, LockInv, Binding
  <1>4. LastInv'
    BY <1>0, <1>1, <1>a, <1>b, Numbers DEF Typed, LeafInv, LastInv, Made
  <1>5. StageInv'
    BY <1>0, <1>1, <1>a, <1>b, Numbers DEF Typed, LeafInv, StageInv
  <1>6. DeadInv'
    BY <1>0, <1>1, <1>a, <1>b, Numbers DEF Typed, LeafInv, DeadInv, ClosedInv, Closing, OwnInv, Dead, Made
  <1>7. ListedInv'
    BY <1>0, <1>1, <1>a, <1>b, Numbers DEF Typed, LeafInv, ListedInv, Known, Dead
  <1>8. HandlerInv'
    BY <1>0, <1>1, <1>a, <1>b, Numbers DEF Typed, LeafInv, HandlerInv, Told, Made
  <1>9. AwareInv'
    BY <1>0, <1>1, <1>a, <1>b, Numbers DEF Typed, LeafInv, AwareInv, Settling, Missed, Told
  <1> QED
    BY <1>2, <1>3, <1>4, <1>5, <1>6, <1>7, <1>8, <1>9 DEF LeafInv

\* Every channel made so far went to a coordinator of its own, which is gone.
LEMMA ConnectLeaf ==
    ASSUME LeafInv, ~broken, NEW t \in Threads, Connect(t)
    PROVE  LeafInv'
  <1>0. Typed
    BY TypeFacts
  <1>1. /\ pc[t] = "connect" /\ target \in up
        /\ made' = made + 1 /\ client' = made + 1
        /\ chan' = [chan EXCEPT ![made + 1] = Fresh(target)]
        /\ target' = AnyCoordinator
        /\ pc' = [pc EXCEPT ![t] = "join", ![made + 1] = "reading"]
        /\ UNCHANGED <<up, listed, mesh, handler, todo, broken>>
    BY DEF Connect
  <1>a. mesh = t /\ client = 0 /\ t # None
    BY <1>1, Numbers DEF LeafInv, LockInv, StageInv, Binding
  <1>b. \A i \in Made : chan[i].closed /\ Dead(i)
    BY <1>0, <1>a, Numbers DEF LeafInv, LastInv, DeadInv, ClosedInv, OwnInv, Typed, Made
  <1>c. made + 1 \in Channels /\ made \in Nat
    <2>1. SUFFICES ASSUME made > MaxCrashes PROVE FALSE
      BY <1>0, Numbers DEF Typed
    <2>2. IsFiniteSet(Coordinators \ up) /\ IsFiniteSet(Made) /\ Cardinality(Made) = made
      <3>1. IsFiniteSet(Coordinators \ up)
        BY CoordinatorAssumption, FS_Subset
      <3>2. made \in Nat /\ 1 \in Int /\ made \in Int /\ ~(1 > made)
        BY <1>0, <2>1, Numbers DEF Typed
      <3>3. IsFiniteSet(1 .. made) /\ Cardinality(1 .. made) = made - 1 + 1
        BY <3>2, FS_Interval, Zenon
      <3> QED
        BY <3>1, <3>2, <3>3 DEF Made
    <2>3. Cardinality(Coordinators \ up) < Cardinality(Made)
      <3>1. Cardinality(Coordinators \ up) \in Nat /\ Cardinality(Coordinators \ up) <= MaxCrashes
        BY <2>2, FS_CardinalityType DEF LeafInv, LeafTypes
      <3> QED
        BY <1>0, <2>1, <2>2, <3>1, Numbers DEF Typed
    <2> DEFINE f == [i \in Made |-> chan[i].coord]
    <2>4. f \in [Made -> Coordinators \ up]
      BY <1>0, <1>b DEF Typed, Channel, Dead
    <2> HIDE DEF f
    <2>5. PICK i, j \in Made : i # j /\ f[i] = f[j]
      BY <2>2, <2>3, <2>4, FS_PigeonHole
    <2> QED
      BY <2>5 DEF f, LeafInv, DeadInv, ClosedInv, OwnInv
  <1>d. made + 1 \notin Made /\ Made' = Made \cup {made + 1} /\ pc[made + 1] = "idle" /\ t # made + 1
    <2>1. made + 1 \notin Made /\ Made' = Made \cup {made + 1}
      BY <1>1, <1>c DEF Made
    <2>2. pc[made + 1] = "idle"
      BY <1>c DEF LeafInv, LockInv
    <2> QED
      BY <1>1, <2>1, <2>2
  <1>e. AnyCoordinator \in Coordinators
    BY CoordinatorAssumption DEF AnyCoordinator
  <1>f. Fresh(target) \in Channel /\ chan' \in [Channels -> Channel]
    <2>1. Fresh(target) \in Channel
      BY <1>0 DEF Typed, Fresh, Channel
    <2> QED
      BY <1>0, <1>1, <2>1 DEF Typed
  <1>g. /\ \A j \in Channels : j # made + 1 => chan'[j] = chan[j]
        /\ chan'[made + 1] = Fresh(target)
    BY <1>0, <1>1, <1>c DEF Typed
  <1>h. /\ Fresh(target).coord = target /\ Fresh(target).wire = "none" /\ Fresh(target).answer = "none"
        /\ Fresh(target).closed = FALSE /\ Fresh(target).listener = FALSE
    BY DEF Fresh
  <1>i. /\ pc' \in [Threads -> Where] /\ pc'[t] = "join" /\ pc'[made + 1] = "reading"
        /\ \A s \in Threads : s # t /\ s # made + 1 => pc'[s] = pc[s]
    BY <1>0, <1>1, <1>c, <1>d, Numbers DEF Typed, Where, Binding, Closing
  <1>2. LeafTypes'
    BY <1>0, <1>1, <1>c, <1>e, <1>f, <1>i, Numbers DEF Typed, LeafInv, LeafTypes, TypeOK, Channel
  <1>3. LockInv'
    <2>1. \A s \in Threads : pc'[s] \in Binding <=> pc[s] \in Binding
      BY <1>0, <1>1, <1>c, <1>d, <1>i, Numbers DEF Typed, Binding
    <2>2. \A i \in Channels : i > made' => pc'[i] = "idle"
      <3>1. SUFFICES ASSUME NEW i \in Channels, i > made + 1 PROVE pc'[i] = "idle"
        BY <1>1
      <3>2. i > made /\ i # made + 1
        BY <1>c, <3>1, Numbers
      <3>3. pc[i] = "idle"
        BY <3>2 DEF LeafInv, LockInv
      <3> QED
        BY <1>1, <1>i, <3>2, <3>3, Numbers
    <2> QED
      BY <1>1, <2>1, <2>2 DEF LeafInv, LockInv
  <1>4. LastInv'
    BY <1>0, <1>1, <1>a, <1>b, <1>c, <1>d, <1>g DEF Typed, LeafInv, LastInv
  <1>5. StageInv'
    BY <1>0, <1>1, <1>a, <1>c, <1>i, Numbers DEF Typed, LeafInv, StageInv, LockInv, Binding
  <1>6. DeadInv'
    <2>1. ClosedInv'
      BY <1>1, <1>g, <1>h, <1>i, Numbers DEF LeafInv, DeadInv, ClosedInv, Closing, Dead
    <2>2. \A i \in Made : chan'[i].coord = chan[i].coord /\ chan[i].coord \notin up
      BY <1>0, <1>b, <1>d, <1>g DEF Typed, Dead
    <2>3. chan'[made + 1].coord \in up
      BY <1>1, <1>g, <1>h
    <2>4. OwnInv'
      BY <1>d, <2>2, <2>3 DEF LeafInv, DeadInv, OwnInv
    <2> QED
      BY <2>1, <2>4 DEF DeadInv
  <1>7. ListedInv'
    <2>1. \A t_1 \in Threads : pc'[t_1] \notin {"listen", "attach"}
      BY <1>a, <1>i DEF LeafInv, LockInv, Binding
    <2>2. ASSUME NEW j \in Channels, j # made + 1, Known(j)
          PROVE  Known(j)'
      BY <1>1, <1>g, <2>2 DEF Known, Dead
    <2>3. ASSUME NEW j \in Channels,
                 chan'[j].wire \in {"reply", "update"} \/ chan'[j].answer = "came" \/ chan'[j].listener
          PROVE  Known(j)'
      <3>1. j # made + 1
        BY <1>g, <1>h, <2>3
      <3>2. Known(j)
        BY <1>g, <2>3, <3>1 DEF LeafInv, ListedInv
      <3> QED
        BY <2>2, <3>1, <3>2
    <2>4. ASSUME pc'[Main] = "send"
          PROVE  (handler \in Channels /\ Known(handler))'
      <3>1. pc[Main] = "send" /\ handler' = handler
        BY <1>1, <1>c, <1>i, <2>4, Numbers
      <3>2. PICK k \in Channels : k = handler /\ Known(k) /\ k # made + 1
        BY <1>d, <3>1 DEF LeafInv, ListedInv, HandlerInv
      <3>3. Known(k)'
        BY <2>2, <3>2
      <3> QED
        BY <3>1, <3>2, <3>3 DEF Known, Dead
    <2> QED
      BY <2>1, <2>3, <2>4 DEF ListedInv
  <1>8. HandlerInv'
    <2>1. \A s \in Threads : pc'[s] = "told" => pc[s] = "told" /\ Told(s)' = Told(s)
      BY <1>1, <1>i DEF Told
    <2>2. \A i \in Made : i \in Made' /\ chan'[i] = chan[i]
      BY <1>0, <1>d, <1>g DEF Typed
    <2>3. Main # made + 1 /\ (pc'[Main] \in {"send", "awaitUpdate"} => pc[Main] = pc'[Main])
      BY <1>c, <1>i, Numbers
    <2>4. \A s \in Threads : pc'[s] = "told" => Told(s)' \in Made' /\ chan'[Told(s)'].closed
      BY <2>1, <2>2 DEF LeafInv, HandlerInv
    <2>5. pc'[Main] \in {"send", "awaitUpdate"} => handler' \in Made'
      BY <1>1, <2>2, <2>3 DEF LeafInv, HandlerInv
    <2>6. \A s \in Threads : pc'[s] = "told" => (Told(s) \in Made /\ chan[Told(s)].closed)'
      BY <2>4
    <2>7. ASSUME NEW i \in Channels, pc'[i] = "fire" PROVE chan'[i].closed
      <3>1. i # made + 1 /\ i # t /\ i \in Threads
        BY <1>i, <2>7, Numbers
      <3> QED
        BY <1>g, <1>i, <2>7, <3>1 DEF LeafInv, HandlerInv
    <2> QED
      BY <2>5, <2>6, <2>7 DEF HandlerInv
  <1>9. AwareInv'
    <2>1. \A s \in Threads : pc'[s] # "attach"
      BY <1>a, <1>i DEF LeafInv, LockInv, Binding
    <2> QED
      BY <1>1, <1>a, <2>1 DEF AwareInv, Settling
  <1> QED
    BY <1>2, <1>3, <1>4, <1>5, <1>6, <1>7, <1>8, <1>9 DEF LeafInv

LEMMA JoinMeshLeaf ==
    ASSUME LeafInv, ~broken, NEW t \in Threads, JoinMesh(t)
    PROVE  LeafInv'
  <1>0. Typed
    BY TypeFacts
  <1>1. /\ pc[t] = "join"
        /\ \/ chan[client].closed /\ pc' = [pc EXCEPT ![t] = "listen"] /\ chan' = chan
           \/ /\ pc' = [pc EXCEPT ![t] = "await"]
              /\ chan' = [chan EXCEPT ![client] = Sent(client, @, "join")]
           \/ /\ Dead(client) /\ pc' = [pc EXCEPT ![t] = "listen"]
              /\ chan' = [chan EXCEPT ![client] = Failed(@)]
        /\ UNCHANGED <<up, listed, target, client, mesh, made, handler, todo, broken>>
    BY DEF JoinMesh, GoTo
  <1>a. client \in Channels /\ mesh = t /\ t # None
    BY <1>0, <1>1, Numbers DEF Typed, LeafInv, LockInv, StageInv, Binding
  <1>b. Sent(client, chan[client], "join") \in Channel /\ Failed(chan[client]) \in Channel
    BY <1>0, <1>a DEF Typed, Channel, Sent, Failed
  <1>c. chan' \in [Channels -> Channel]
    BY <1>0, <1>1, <1>a, <1>b DEF Typed
  <1>d. \A j \in Channels :
            /\ chan'[j].coord = chan[j].coord /\ chan'[j].place = chan[j].place
            /\ chan'[j].listener = chan[j].listener
            /\ chan[j].closed => chan'[j].closed
            /\ chan'[j].closed => chan[j].closed \/ (j = client /\ Dead(j))
            /\ chan'[j].answer = chan[j].answer \/ chan'[j].answer = "none"
            /\ chan'[j].wire \in {"reply", "update"} => chan[j].wire \in {"reply", "update"}
    <2>1. \A j \in Channels : j # client => chan'[j] = chan[j]
      BY <1>0, <1>1, <1>a DEF Typed
    <2>2. \/ chan' = chan
          \/ chan'[client] = Sent(client, chan[client], "join")
          \/ Dead(client) /\ chan'[client] = Failed(chan[client])
      BY <1>0, <1>1, <1>a DEF Typed
    <2>3. chan[client] \in Channel
      BY <1>0, <1>a DEF Typed
    <2>4. CASE chan'[client] = Sent(client, chan[client], "join")
      <3>1. /\ chan'[client].coord = chan[client].coord /\ chan'[client].place = chan[client].place
            /\ chan'[client].listener = chan[client].listener
            /\ chan'[client].closed = chan[client].closed
            /\ chan'[client].answer = "none" /\ chan'[client].wire \notin {"reply", "update"}
        BY <2>3, <2>4 DEF Channel, Sent
      <3> QED
        BY <2>1, <3>1
    <2>5. CASE Dead(client) /\ chan'[client] = Failed(chan[client])
      <3>1. /\ chan'[client].coord = chan[client].coord /\ chan'[client].place = chan[client].place
            /\ chan'[client].listener = chan[client].listener
            /\ chan'[client].closed = TRUE
            /\ chan'[client].answer = chan[client].answer /\ chan'[client].wire = chan[client].wire
        BY <2>3, <2>5 DEF Channel, Failed
      <3> QED
        BY <2>1, <2>5, <3>1
    <2> QED
      BY <2>2, <2>4, <2>5
  <1>e. \A j \in Channels : Known(j) => Known(j)'
    <2>1. up' = up
      BY <1>1
    <2> QED
      BY <1>d, <2>1 DEF Known, Dead
  <1>f. pc'[t] = "listen" => Known(client)
    BY <1>0, <1>1, <1>a DEF Typed, LeafInv, DeadInv, ClosedInv, OwnInv, Known
  <1>g. /\ pc' \in [Threads -> Where] /\ pc'[t] \in {"listen", "await"}
        /\ \A s \in Threads : s # t => pc'[s] = pc[s]
    BY <1>0, <1>1 DEF Typed, Where, Binding, Closing
  <1>2. LeafTypes'
    BY <1>0, <1>1, <1>c, <1>g DEF Typed, LeafInv, LeafTypes, TypeOK, Channel
  <1>3. LockInv'
    BY <1>1, <1>a, <1>g, Numbers DEF LeafInv, LockInv, Binding
  <1>4. LastInv'
    BY <1>0, <1>1, <1>d DEF Typed, LeafInv, LastInv, Made
  <1>5. StageInv'
    BY <1>1, <1>a, <1>g DEF LeafInv, StageInv
  <1>6. DeadInv'
    <2>1. ClosedInv'
      BY <1>1, <1>d, <1>g, Numbers DEF LeafInv, DeadInv, ClosedInv, Closing, Dead
    <2>2. OwnInv'
      <3>1. Made' = Made /\ \A j \in Made : chan'[j].coord = chan[j].coord
        BY <1>0, <1>1, <1>d DEF Typed, Made
      <3> QED
        BY <3>1 DEF LeafInv, DeadInv, OwnInv
    <2> QED
      BY <2>1, <2>2 DEF DeadInv
  <1>7. ListedInv'
    <2>1. \A s \in Threads : pc'[s] \in {"listen", "attach"} =>
             client \in Channels /\ (pc[s] \in {"listen", "attach"} \/ Known(client))
      BY <1>a, <1>f, <1>g
    <2>2. pc'[Main] = "send" => pc[Main] = "send" /\ handler' = handler
      BY <1>1, <1>g, Numbers
    <2> QED
      BY <1>1, <1>d, <1>e, <2>1, <2>2, ListedKeeps
  <1>8. HandlerInv'
    <2>1. \A s \in Threads : pc'[s] \in {"told", "send", "awaitUpdate", "fire"} => pc'[s] = pc[s]
      BY <1>g
    <2> QED
      BY <1>1, <1>d, <2>1, TypeFacts, Numbers DEF Typed, LeafInv, HandlerInv, Told, Made
  <1>9. AwareInv'
    <2>1. \A s \in Threads : pc'[s] # "attach"
      BY <1>a, <1>g DEF LeafInv, LockInv, Binding
    <2> QED
      BY <1>1, <1>a, <2>1 DEF AwareInv, Settling
  <1> QED
    BY <1>2, <1>3, <1>4, <1>5, <1>6, <1>7, <1>8, <1>9 DEF LeafInv

\* A channel that has closed gets no listener; the client of one that has not is known to
\* its coordinator.
LEMMA SetCloseListenerLeaf ==
    ASSUME LeafInv, ~broken, NEW t \in Threads, SetCloseListener(t)
    PROVE  LeafInv'
  <1>0. Typed
    BY TypeFacts
  <1>1. /\ pc[t] = "listen"
        /\ \/ /\ chan[client].closed /\ client' = 0 /\ broken' = (pc[client] \in Closing)
              /\ pc' = [pc EXCEPT ![t] = "ask"] /\ chan' = chan
           \/ /\ ~chan[client].closed /\ client' = client /\ broken' = broken
              /\ pc' = [pc EXCEPT ![t] = "attach"]
              /\ chan' = [chan EXCEPT ![client].lock = t]
        /\ UNCHANGED <<up, listed, target, mesh, made, handler, todo>>
    BY DEF SetCloseListener, InClose, GoTo
  <1>a. client \in Channels /\ client # 0 /\ mesh = t /\ t # None /\ Known(client)
    BY <1>0, <1>1, Numbers DEF Typed, LeafInv, LockInv, StageInv, ListedInv, Binding
  <1>b. chan' \in [Channels -> Channel]
    <2>1. [chan[client] EXCEPT !.lock = t] \in Channel
      BY <1>0, <1>a DEF Typed, Channel
    <2> QED
      BY <1>0, <1>1, <2>1 DEF Typed
  <1>c. \A j \in Channels :
            /\ chan'[j].coord = chan[j].coord /\ chan'[j].place = chan[j].place
            /\ chan'[j].closed = chan[j].closed /\ chan'[j].listener = chan[j].listener
            /\ chan'[j].answer = chan[j].answer /\ chan'[j].wire = chan[j].wire
    BY <1>0, <1>1 DEF Typed, Channel
  <1>d. \A j \in Channels : Known(j) => Known(j)'
    BY <1>1, <1>c DEF Known, Dead
  <1>e. \A s \in Threads : s # t => pc[s] \notin Binding
    BY <1>a DEF LeafInv, LockInv
  <1>f. /\ pc' \in [Threads -> Where] /\ pc'[t] \in {"ask", "attach"}
        /\ \A s \in Threads : s # t => pc'[s] = pc[s]
    BY <1>0, <1>1 DEF Typed, Where, Binding
  <1>g. \/ pc'[t] = "ask" /\ client' = 0 /\ chan[client].closed
        \/ pc'[t] = "attach" /\ client' = client /\ broken' = broken /\ ~chan[client].closed
    BY <1>0, <1>1 DEF Typed
  <1>h. broken' \in BOOLEAN
    <2>1. CASE broken' = (pc[client] \in Closing)
      BY <2>1
    <2>2. CASE broken' = broken
      BY <1>0, <2>2 DEF Typed
    <2> QED
      BY <1>1, <2>1, <2>2
  <1>2. LeafTypes'
    BY <1>0, <1>1, <1>b, <1>f, <1>g, <1>h, Numbers DEF Typed, LeafInv, LeafTypes, TypeOK, Channel
  <1>3. LockInv'
    <2>1. \A s \in Threads : pc'[s] \in Binding <=> mesh' = s
      BY <1>1, <1>a, <1>e, <1>f, Numbers DEF Binding
    <2>2. \A i \in Channels : i > made' => pc'[i] = "idle"
      BY <1>1, <1>f, Numbers DEF LeafInv, LockInv
    <2> QED
      BY <2>1, <2>2 DEF LockInv
  <1>4. LastInv'
    BY <1>0, <1>1, <1>c, <1>g DEF Typed, LeafInv, LastInv, Made
  <1>5. StageInv'
    <2>1. \A s \in Threads : s # t => pc'[s] \notin Binding
      BY <1>e, <1>f
    <2> QED
      BY <1>1, <1>a, <1>f, <1>g, <2>1 DEF StageInv, Binding
  <1>6. DeadInv'
    <2>1. ClosedInv'
      BY <1>1, <1>c, <1>f, <1>a, Numbers DEF LeafInv, DeadInv, ClosedInv, Closing, Dead
    <2>2. OwnInv'
      <3>1. Made' = Made /\ \A j \in Made : chan'[j].coord = chan[j].coord
        BY <1>0, <1>1, <1>c DEF Typed, Made
      <3> QED
        BY <3>1 DEF LeafInv, DeadInv, OwnInv
    <2> QED
      BY <2>1, <2>2 DEF DeadInv
  <1>7. ListedInv'
    <2>1. \A j \in Channels :
             chan'[j].wire \in {"reply", "update"} \/ chan'[j].answer = "came" \/ chan'[j].listener => Known(j)'
      BY <1>c, <1>d DEF LeafInv, ListedInv
    <2>2. \A s \in Threads : pc'[s] \in {"listen", "attach"} => Known(client)'
      <3>1. SUFFICES ASSUME NEW s \in Threads, pc'[s] \in {"listen", "attach"} PROVE Known(client)'
        OBVIOUS
      <3>2. s = t /\ client' = client
        BY <1>e, <1>f, <1>g, <3>1 DEF Binding
      <3>3. PICK k \in Channels : k = client /\ Known(k)
        BY <1>a
      <3>4. Known(k)'
        BY <1>d, <3>3
      <3> QED
        BY <3>2, <3>3, <3>4 DEF Known, Dead
    <2>3. pc'[Main] = "send" => (handler \in Channels /\ Known(handler))'
      <3>1. pc'[Main] = "send" => pc[Main] = "send"
        BY <1>f, Numbers
      <3> QED
        BY <1>1, <1>d, <3>1 DEF LeafInv, ListedInv, Known, Dead
    <2> QED
      BY <2>1, <2>2, <2>3 DEF ListedInv
  <1>8. HandlerInv'
    <2>1. \A s \in Threads : pc'[s] = "told" => pc[s] = "told" /\ Told(s)' = Told(s)
      BY <1>1, <1>f DEF Told
    <2>2. \A s \in Threads : pc'[s] = "told" => Told(s)' \in Made' /\ chan'[Told(s)'].closed
      BY <1>0, <1>1, <1>c, <2>1 DEF Typed, LeafInv, HandlerInv, Made
    <2>3. \A s \in Threads : pc'[s] = "told" => (Told(s) \in Made /\ chan[Told(s)].closed)'
      BY <2>2
    <2>4. pc'[Main] \in {"send", "awaitUpdate"} => handler' \in Made'
      BY <1>1, <1>f, Numbers DEF LeafInv, HandlerInv, Made
    <2>5. \A i \in Channels : pc'[i] = "fire" => chan'[i].closed
      BY <1>c, <1>f, Numbers DEF LeafInv, HandlerInv
    <2> QED
      BY <2>3, <2>4, <2>5 DEF HandlerInv
  <1>9. AwareInv'
    BY <1>0, <1>a, <1>c, <1>g DEF Typed, AwareInv
  <1> QED
    BY <1>2, <1>3, <1>4, <1>5, <1>6, <1>7, <1>8, <1>9 DEF LeafInv

\* Whoever gets its listener is known to its coordinator, and its closure was settled.
LEMMA AttachListenerLeaf ==
    ASSUME LeafInv, ~broken, NEW t \in Threads, AttachListener(t)
    PROVE  LeafInv'
  <1>0. Typed
    BY TypeFacts
  <1> DEFINE new(j) == [chan[j] EXCEPT !.listener = @ \/ j = client,
                                       !.lock = IF j = client \/ (InSend(t) /\ j = handler)
                                                THEN None ELSE @]
  <1>1. /\ pc[t] = "attach" /\ mesh' = None
        /\ chan' = [j \in Channels |-> new(j)]
        /\ pc' = [pc EXCEPT ![t] = IF t = Main THEN "update" ELSE "done"]
        /\ handler' = handler \/ (t = Main /\ handler' = 0)
        /\ broken' \in BOOLEAN
        /\ UNCHANGED <<up, listed, target, client, made, todo>>
    BY DEF AttachListener, InSend, InClose, GoTo
  <1>a. client \in Channels /\ client # 0 /\ mesh = t /\ t # None /\ Known(client)
    BY <1>0, <1>1, Numbers DEF Typed, LeafInv, LockInv, StageInv, ListedInv, Binding
  <1>b. chan' \in [Channels -> Channel]
    <2>1. ASSUME NEW j \in Channels PROVE new(j) \in Channel
      BY <1>0 DEF Typed, Channel
    <2> QED
      BY <1>1, <2>1
  <1>c. \A j \in Channels :
            /\ chan'[j].coord = chan[j].coord /\ chan'[j].place = chan[j].place
            /\ chan'[j].closed = chan[j].closed
            /\ chan'[j].answer = chan[j].answer /\ chan'[j].wire = chan[j].wire
            /\ chan'[j].listener = (chan[j].listener \/ j = client)
    <2>1. SUFFICES ASSUME NEW j \in Channels
                   PROVE  /\ chan'[j].coord = chan[j].coord /\ chan'[j].place = chan[j].place
                          /\ chan'[j].closed = chan[j].closed
                          /\ chan'[j].answer = chan[j].answer /\ chan'[j].wire = chan[j].wire
                          /\ chan'[j].listener = (chan[j].listener \/ j = client)
      OBVIOUS
    <2>2. chan'[j] = new(j) /\ chan[j] \in Channel
      BY <1>0, <1>1 DEF Typed
    <2> QED
      BY <2>2 DEF Channel
  <1> HIDE DEF new
  <1>d. \A j \in Channels : Known(j) => Known(j)'
    BY <1>1, <1>c DEF Known, Dead
  <1>e. \A s \in Threads : s # t => pc[s] \notin Binding
    BY <1>a DEF LeafInv, LockInv
  <1>f. /\ pc' \in [Threads -> Where] /\ pc'[t] \in {"update", "done"}
        /\ \A s \in Threads : s # t => pc'[s] = pc[s]
    BY <1>0, <1>1 DEF Typed, Where, Binding
  <1>2. LeafTypes'
    BY <1>0, <1>1, <1>b, <1>f, Numbers DEF Typed, LeafInv, LeafTypes, TypeOK, Channel
  <1>3. LockInv'
    <2>1. \A s \in Threads : pc'[s] \in Binding <=> mesh' = s
      BY <1>1, <1>e, <1>f, Numbers DEF Binding
    <2>2. \A i \in Channels : i > made' => pc'[i] = "idle"
      BY <1>0, <1>1, <1>f, Numbers DEF Typed, LeafInv, LockInv
    <2> QED
      BY <2>1, <2>2 DEF LockInv
  <1>4. LastInv'
    BY <1>0, <1>1, <1>c DEF Typed, LeafInv, LastInv, Made
  <1>5. StageInv'
    <2>1. \A s \in Threads : pc'[s] \notin Binding
      BY <1>e, <1>f DEF Binding
    <2> QED
      BY <1>1, <1>a, <1>c, <2>1 DEF StageInv, Binding
  <1>6. DeadInv'
    <2>1. ClosedInv'
      BY <1>1, <1>c, <1>f, <1>a, Numbers DEF LeafInv, DeadInv, ClosedInv, Closing, Dead
    <2>2. OwnInv'
      <3>1. Made' = Made /\ \A j \in Made : chan'[j].coord = chan[j].coord
        BY <1>0, <1>1, <1>c DEF Typed, Made
      <3> QED
        BY <3>1 DEF LeafInv, DeadInv, OwnInv
    <2> QED
      BY <2>1, <2>2 DEF DeadInv
  <1>7. ListedInv'
    <2>1. \A j \in Channels :
             chan'[j].wire \in {"reply", "update"} \/ chan'[j].answer = "came" \/ chan'[j].listener => Known(j)'
      BY <1>a, <1>c, <1>d DEF LeafInv, ListedInv
    <2>2. \A s \in Threads : pc'[s] \notin {"listen", "attach"}
      BY <1>e, <1>f DEF Binding
    <2>3. pc'[Main] = "send" => (handler \in Channels /\ Known(handler))'
      <3>1. pc'[Main] = "send" => pc[Main] = "send" /\ handler' = handler
        BY <1>1, <1>f, Numbers
      <3> QED
        BY <1>1, <1>d, <3>1 DEF LeafInv, ListedInv, Known, Dead
    <2> QED
      BY <2>1, <2>2, <2>3 DEF ListedInv
  <1>8. HandlerInv'
    <2>1. \A s \in Threads : pc'[s] = "told" => pc[s] = "told" /\ Told(s)' = Told(s)
      BY <1>1, <1>f DEF Told
    <2>2. \A s \in Threads : pc'[s] = "told" => Told(s)' \in Made' /\ chan'[Told(s)'].closed
      BY <1>0, <1>1, <1>c, <2>1 DEF Typed, LeafInv, HandlerInv, Made
    <2>3. \A s \in Threads : pc'[s] = "told" => (Told(s) \in Made /\ chan[Told(s)].closed)'
      BY <2>2
    <2>4. pc'[Main] \in {"send", "awaitUpdate"} => handler' \in Made'
      BY <1>1, <1>f, Numbers DEF LeafInv, HandlerInv, Made
    <2>5. \A i \in Channels : pc'[i] = "fire" => chan'[i].closed
      BY <1>c, <1>f, Numbers DEF LeafInv, HandlerInv
    <2> QED
      BY <2>3, <2>4, <2>5 DEF HandlerInv
  <1>9. AwareInv'
    <2>1. SUFFICES ASSUME chan[client].closed
                   PROVE  (Missed \/ pc[client] = "fire" \/ \E s \in Threads : pc[s] = "told" /\ Told(s) = client)'
      BY <1>1, <1>a, <1>c DEF AwareInv
    <2>2. Missed \/ pc[client] = "fire" \/ \E s \in Threads : pc[s] = "told" /\ Told(s) = client
      BY <1>1, <1>a, <2>1 DEF LeafInv, AwareInv, Settling
    <2>3. \A s \in Threads : pc[s] \in {"missed", "fire", "told"} => pc'[s] = pc[s] /\ Told(s)' = Told(s)
      BY <1>1, <1>f DEF Told
    <2> QED
      BY <1>0, <1>1, <2>2, <2>3 DEF Missed, Typed
  <1> QED
    BY <1>2, <1>3, <1>4, <1>5, <1>6, <1>7, <1>8, <1>9 DEF LeafInv

LEMMA UpdateInfoLeaf ==
    ASSUME LeafInv, ~broken, UpdateInfo
    PROVE  LeafInv'
  <1>0. Typed
    BY TypeFacts
  <1>1. /\ pc[Main] = "send"
        /\ \/ chan[handler].closed /\ handler' = 0 /\ pc' = [pc EXCEPT ![Main] = "update"] /\ chan' = chan
           \/ /\ pc' = [pc EXCEPT ![Main] = "awaitUpdate"] /\ handler' = handler
              /\ chan' = [chan EXCEPT ![handler] = [Sent(handler, @, "update") EXCEPT !.lock = Main]]
           \/ /\ Dead(handler) /\ pc' = [pc EXCEPT ![Main] = "told"] /\ handler' = handler
              /\ chan' = [chan EXCEPT ![handler] = [Failed(@) EXCEPT !.lock = Main]]
        /\ UNCHANGED <<up, listed, target, client, mesh, made, todo, broken>>
    BY DEF UpdateInfo, GoTo
  <1>a. handler \in Channels /\ handler \in Made /\ handler # 0 /\ Known(handler)
    BY <1>0, <1>1, Numbers DEF Typed, LeafInv, HandlerInv, ListedInv
  <1>b. /\ [Sent(handler, chan[handler], "update") EXCEPT !.lock = Main] \in Channel
        /\ [Failed(chan[handler]) EXCEPT !.lock = Main] \in Channel
    <2>1. Sent(handler, chan[handler], "update") \in Channel /\ Failed(chan[handler]) \in Channel
      BY <1>0, <1>a DEF Typed, Channel, Sent, Failed
    <2>2. ASSUME NEW ch \in Channel PROVE [ch EXCEPT !.lock = Main] \in Channel
      BY Numbers DEF Channel
    <2> QED
      BY <2>1, <2>2
  <1>c. chan' \in [Channels -> Channel]
    BY <1>0, <1>1, <1>a, <1>b DEF Typed
  <1>d. \A j \in Channels :
            /\ chan'[j].coord = chan[j].coord /\ chan'[j].place = chan[j].place
            /\ chan'[j].listener = chan[j].listener
            /\ chan[j].closed => chan'[j].closed
            /\ chan'[j].closed => chan[j].closed \/ (j = handler /\ Dead(j) /\ pc'[Main] = "told")
            /\ chan'[j].answer = chan[j].answer \/ chan'[j].answer = "none"
            /\ chan'[j].wire \in {"reply", "update"} => chan[j].wire \in {"reply", "update"} \/ j = handler
    <2>1. \A j \in Channels : j # handler => chan'[j] = chan[j]
      BY <1>0, <1>1, <1>a DEF Typed
    <2>2. \/ chan' = chan
          \/ chan'[handler] = [Sent(handler, chan[handler], "update") EXCEPT !.lock = Main]
          \/ /\ Dead(handler) /\ pc'[Main] = "told"
             /\ chan'[handler] = [Failed(chan[handler]) EXCEPT !.lock = Main]
      BY <1>0, <1>1, <1>a, Numbers DEF Typed
    <2>3. chan[handler] \in Channel
      BY <1>0, <1>a DEF Typed
    <2>4. CASE chan'[handler] = [Sent(handler, chan[handler], "update") EXCEPT !.lock = Main]
      <3>1. Sent(handler, chan[handler], "update") \in Channel
        BY <2>3 DEF Channel, Sent
      <3>2. /\ chan'[handler].coord = chan[handler].coord /\ chan'[handler].place = chan[handler].place
            /\ chan'[handler].listener = chan[handler].listener
            /\ chan'[handler].closed = chan[handler].closed
            /\ chan'[handler].answer = "none"
        BY <2>3, <2>4, <3>1 DEF Channel, Sent
      <3> QED
        BY <2>1, <3>2
    <2>5. CASE Dead(handler) /\ pc'[Main] = "told" /\ chan'[handler] = [Failed(chan[handler]) EXCEPT !.lock = Main]
      <3>1. /\ chan'[handler].coord = chan[handler].coord /\ chan'[handler].place = chan[handler].place
            /\ chan'[handler].listener = chan[handler].listener
            /\ chan'[handler].closed = TRUE
            /\ chan'[handler].answer = chan[handler].answer /\ chan'[handler].wire = chan[handler].wire
        BY <2>3, <2>5 DEF Channel, Failed
      <3> QED
        BY <2>1, <2>5, <3>1
    <2> QED
      BY <2>2, <2>4, <2>5
  <1>e. \A j \in Channels : Known(j) => Known(j)'
    <2>1. up' = up
      BY <1>1
    <2> QED
      BY <1>d, <2>1 DEF Known, Dead
  <1>f. /\ pc' \in [Threads -> Where] /\ pc'[Main] \in {"update", "awaitUpdate", "told"}
        /\ \A s \in Threads : s # Main => pc'[s] = pc[s]
        /\ handler' = handler \/ (handler' = 0 /\ pc'[Main] = "update")
    BY <1>0, <1>1, Numbers DEF Typed, Where, Binding, Closing
  <1>g. pc'[Main] = "told" => handler' = handler /\ chan'[handler].closed
    <2>1. chan[handler] \in Channel
      BY <1>0, <1>a DEF Typed
    <2>2. SUFFICES ASSUME pc'[Main] = "told"
                   PROVE  handler' = handler /\ chan'[handler].closed
      OBVIOUS
    <2>3. handler' = handler /\ chan'[handler] = [Failed(chan[handler]) EXCEPT !.lock = Main]
      BY <1>0, <1>1, <1>a, <2>2, Numbers DEF Typed
    <2> QED
      BY <2>1, <2>3 DEF Channel, Failed
  <1>2. LeafTypes'
    BY <1>0, <1>1, <1>c, <1>f, Numbers DEF Typed, LeafInv, LeafTypes, TypeOK, Channel
  <1>3. LockInv'
    BY <1>1, <1>f, Numbers DEF LeafInv, LockInv, Binding
  <1>4. LastInv'
    BY <1>0, <1>1, <1>d DEF Typed, LeafInv, LastInv, Made
  <1>5. StageInv'
    <2>1. mesh = None => client \in Channels
      BY <1>0 DEF Typed, LeafInv, StageInv
    <2> QED
      BY <1>1, <1>d, <1>f, <2>1 DEF LeafInv, StageInv
  <1>6. DeadInv'
    <2>1. ClosedInv'
      BY <1>1, <1>d, <1>f, Numbers DEF LeafInv, DeadInv, ClosedInv, Closing, Dead
    <2>2. OwnInv'
      <3>1. Made' = Made /\ \A j \in Made : chan'[j].coord = chan[j].coord
        BY <1>0, <1>1, <1>d DEF Typed, Made
      <3> QED
        BY <3>1 DEF LeafInv, DeadInv, OwnInv
    <2> QED
      BY <2>1, <2>2 DEF DeadInv
  <1>7. ListedInv'
    <2>1. \A s \in Threads : pc'[s] \in {"listen", "attach"} =>
             client \in Channels /\ (pc[s] \in {"listen", "attach"} \/ Known(client))
      BY <1>0, <1>f DEF Typed, LeafInv, StageInv
    <2> QED
      BY <1>1, <1>a, <1>d, <1>e, <1>f, <2>1, ListedKeeps
  <1>8. HandlerInv'
    <2>1. \A s \in Threads : s # Main /\ pc'[s] = "told" => s \in Made /\ chan'[s].closed
      BY <1>0, <1>d, <1>f DEF Typed, LeafInv, HandlerInv, Told
    <2>2. \A s \in Threads : pc'[s] = "told" => Told(s)' \in Made' /\ chan'[Told(s)'].closed
      BY <1>1, <1>a, <1>g, <2>1 DEF Told, Made
    <2>3. \A s \in Threads : pc'[s] = "told" => (Told(s) \in Made /\ chan[Told(s)].closed)'
      BY <2>2
    <2>4. pc'[Main] \in {"send", "awaitUpdate"} => handler' \in Made'
      BY <1>1, <1>a, <1>f DEF Made
    <2>5. \A i \in Channels : pc'[i] = "fire" => chan'[i].closed
      BY <1>d, <1>f, Numbers DEF LeafInv, HandlerInv
    <2> QED
      BY <2>3, <2>4, <2>5 DEF HandlerInv
  <1>9. AwareInv'
    <2>1. SUFFICES ASSUME Settling', client # 0, chan'[client].closed
                   PROVE  (Missed \/ pc[client] = "fire" \/ \E s \in Threads : pc[s] = "told" /\ Told(s) = client)'
      BY <1>1 DEF AwareInv
    <2>2. Settling /\ client \in Channels
      BY <1>0, <1>1, <1>f, <2>1 DEF Settling, Typed
    <2>3. CASE chan[client].closed
      <3>1. Missed \/ pc[client] = "fire" \/ \E s \in Threads : pc[s] = "told" /\ Told(s) = client
        BY <2>1, <2>2, <2>3 DEF LeafInv, AwareInv
      <3>2. ASSUME NEW s \in Threads, pc[s] = "told", Told(s) = client
            PROVE  pc'[s] = "told" /\ Told(s)' = client
        BY <1>1, <1>f, <3>2 DEF Told
      <3> QED
        BY <1>1, <1>f, <2>2, <3>1, <3>2, Numbers DEF Missed
    <2>4. CASE ~chan[client].closed
      <3>1. client = handler /\ pc'[Main] = "told"
        BY <1>d, <2>1, <2>2, <2>4
      <3> QED
        BY <1>1, <1>g, <3>1, Numbers DEF Told
    <2> QED
      BY <2>3, <2>4
  <1> QED
    BY <1>2, <1>3, <1>4, <1>5, <1>6, <1>7, <1>8, <1>9 DEF LeafInv

LEMMA TakeHandlerLeaf ==
    ASSUME LeafInv, ~broken, TakeHandler
    PROVE  LeafInv'
  <1>0. Typed
    BY TypeFacts
  <1>1. /\ pc[Main] = "update" /\ mesh = None /\ todo # <<>>
        /\ todo' = Tail(todo) /\ handler' = client
        /\ pc' = [pc EXCEPT ![Main] = IF client = 0 THEN "update" ELSE "send"]
        /\ UNCHANGED <<up, listed, target, client, mesh, chan, made, broken>>
    BY DEF TakeHandler, GoTo
  <1>2. LeafTypes'
    BY <1>0, <1>1, Numbers DEF Typed, LeafInv, LeafTypes, TypeOK, Where, Binding, Closing, Channel
  <1>3. LockInv'
    BY <1>0, <1>1, Numbers DEF Typed, LeafInv, LockInv, Binding
  <1>4. LastInv'
    BY <1>0, <1>1, Numbers DEF Typed, LeafInv, LastInv, Made
  <1>5. StageInv'
    BY <1>0, <1>1, Numbers DEF Typed, LeafInv, StageInv
  <1>6. DeadInv'
    BY <1>0, <1>1, Numbers DEF Typed, LeafInv, DeadInv, ClosedInv, Closing, OwnInv, Dead, Made
  <1>7. ListedInv'
    BY <1>0, <1>1, Numbers DEF Typed, LeafInv, StageInv, ListedInv, Known, Dead
  <1>8. HandlerInv'
    BY <1>0, <1>1, Numbers DEF Typed, LeafInv, HandlerInv, Told, Made
  <1>9. AwareInv'
    BY <1>0, <1>1, Numbers DEF Typed, LeafInv, AwareInv, Settling, Missed, Told
  <1> QED
    BY <1>2, <1>3, <1>4, <1>5, <1>6, <1>7, <1>8, <1>9 DEF LeafInv

LEMMA OpenedLeaf ==
    ASSUME LeafInv, ~broken, Opened
    PROVE  LeafInv'
  <1>0. Typed
    BY TypeFacts
  <1>1. /\ pc[Main] = "update"
        /\ pc' = [pc EXCEPT ![Main] = "open"]
        /\ UNCHANGED <<up, listed, target, client, mesh, chan, made, handler, todo, broken>>
    BY DEF Opened, GoTo
  <1>2. LeafTypes'
    BY <1>0, <1>1, Numbers DEF Typed, LeafInv, LeafTypes, TypeOK, Where, Binding, Closing, Channel
  <1>3. LockInv'
    BY <1>0, <1>1, Numbers DEF Typed, LeafInv, LockInv, Binding
  <1>4. LastInv'
    BY <1>0, <1>1, Numbers DEF Typed, LeafInv, LastInv, Made
  <1>5. StageInv'
    BY <1>0, <1>1, Numbers DEF Typed, LeafInv, StageInv
  <1>6. DeadInv'
    BY <1>0, <1>1, Numbers DEF Typed, LeafInv, DeadInv, ClosedInv, Closing, OwnInv, Dead, Made
  <1>7. ListedInv'
    BY <1>0, <1>1, Numbers DEF Typed, LeafInv, ListedInv, Known, Dead
  <1>8. HandlerInv'
    BY <1>0, <1>1, Numbers DEF Typed, LeafInv, HandlerInv, Told, Made
  <1>9. AwareInv'
    BY <1>0, <1>1, Numbers DEF Typed, LeafInv, AwareInv, Settling, Missed, Told
  <1> QED
    BY <1>2, <1>3, <1>4, <1>5, <1>6, <1>7, <1>8, <1>9 DEF LeafInv

LEMMA ConnectionEndsLeaf ==
    ASSUME LeafInv, ~broken, NEW i \in Channels, ConnectionEnds(i)
    PROVE  LeafInv'
  <1>0. Typed
    BY TypeFacts
  <1>1. /\ pc[i] = "reading" /\ Dead(i)
        /\ pc' = [pc EXCEPT ![i] = "close"]
        /\ UNCHANGED <<up, listed, target, client, mesh, chan, made, handler, todo, broken>>
    BY DEF ConnectionEnds, GoTo
  <1>2. LeafTypes'
    BY <1>0, <1>1, Numbers DEF Typed, LeafInv, LeafTypes, TypeOK, Where, Binding, Closing, Channel
  <1>3. LockInv'
    BY <1>0, <1>1, Numbers DEF Typed, LeafInv, LockInv, Binding
  <1>4. LastInv'
    BY <1>0, <1>1, Numbers DEF Typed, LeafInv, LastInv, Made
  <1>5. StageInv'
    BY <1>0, <1>1, Numbers DEF Typed, LeafInv, StageInv
  <1>6. DeadInv'
    BY <1>0, <1>1, Numbers DEF Typed, LeafInv, DeadInv, ClosedInv, Closing, OwnInv, Dead, Made
  <1>7. ListedInv'
    BY <1>0, <1>1, Numbers DEF Typed, LeafInv, ListedInv, Known, Dead
  <1>8. HandlerInv'
    BY <1>0, <1>1, Numbers DEF Typed, LeafInv, HandlerInv, Told, Made
  <1>9. AwareInv'
    BY <1>0, <1>1, Numbers DEF Typed, LeafInv, AwareInv, Settling, Missed, Told
  <1> QED
    BY <1>2, <1>3, <1>4, <1>5, <1>6, <1>7, <1>8, <1>9 DEF LeafInv

LEMMA CheckClosedLeaf ==
    ASSUME LeafInv, ~broken, NEW i \in Channels, CheckClosed(i)
    PROVE  LeafInv'
  <1>0. Typed
    BY TypeFacts
  <1>1. /\ pc[i] = "check"
        /\ pc' = [pc EXCEPT ![i] = IF chan[i].closed THEN "done" ELSE "mark"]
        /\ UNCHANGED <<up, listed, target, client, mesh, chan, made, handler, todo, broken>>
    BY DEF CheckClosed, GoTo
  <1>2. LeafTypes'
    BY <1>0, <1>1, Numbers DEF Typed, LeafInv, LeafTypes, TypeOK, Where, Binding, Closing, Channel
  <1>3. LockInv'
    BY <1>0, <1>1, Numbers DEF Typed, LeafInv, LockInv, Binding
  <1>4. LastInv'
    BY <1>0, <1>1, Numbers DEF Typed, LeafInv, LastInv, Made
  <1>5. StageInv'
    BY <1>0, <1>1, Numbers DEF Typed, LeafInv, StageInv
  <1>6. DeadInv'
    BY <1>0, <1>1, Numbers DEF Typed, LeafInv, DeadInv, ClosedInv, Closing, OwnInv, Dead, Made
  <1>7. ListedInv'
    BY <1>0, <1>1, Numbers DEF Typed, LeafInv, ListedInv, Known, Dead
  <1>8. HandlerInv'
    BY <1>0, <1>1, Numbers DEF Typed, LeafInv, HandlerInv, Told, Made
  <1>9. AwareInv'
    BY <1>0, <1>1, Numbers DEF Typed, LeafInv, AwareInv, Settling, Missed, Told
  <1> QED
    BY <1>2, <1>3, <1>4, <1>5, <1>6, <1>7, <1>8, <1>9 DEF LeafInv

LEMMA LeafInitially == Init => LeafInv
  <1> SUFFICES ASSUME Init PROVE LeafInv
    OBVIOUS
  <1>1. /\ up = Coordinators /\ listed = Coordinators
        /\ target = AnyCoordinator /\ client = 0 /\ mesh = Main /\ made = 0
        /\ chan = [i \in Channels |-> Fresh(AnyCoordinator)]
        /\ pc = [t \in Threads |-> IF t = Main THEN "ask" ELSE "idle"]
        /\ handler = 0 /\ todo = Updates /\ broken = FALSE
    BY DEF Init
  <1>2. AnyCoordinator \in Coordinators
    BY CoordinatorAssumption DEF AnyCoordinator
  <1>3. Fresh(AnyCoordinator) \in Channel
    BY <1>2 DEF Fresh, Channel
  <1>4. \A i \in Channels : /\ chan[i].answer = "none" /\ chan[i].wire = "none"
                            /\ chan[i].closed = FALSE /\ chan[i].listener = FALSE
    BY <1>1 DEF Fresh
  <1>5. todo \in Seq({"audio", "actuator"}) /\ Len(todo) = Len(Updates) /\ Len(Updates) = 2
    BY <1>1 DEF Updates
  <1>6. LeafTypes
    <2>1. Cardinality(Coordinators \ up) <= MaxCrashes
      <3>1. Coordinators \ up = {}
        BY <1>1
      <3>2. Cardinality({}) = 0
        BY FS_EmptySet
      <3> QED
        BY <3>1, <3>2, Numbers
    <2>2. pc \in [Threads -> Where]
      BY <1>1 DEF Where, Binding, Closing
    <2>3. chan \in [Channels -> Channel]
      BY <1>1, <1>3
    <2>4. Len(todo) \in 0 .. Len(Updates)
      BY <1>5
    <2>5. 0 \in Threads /\ mesh \in Threads
      BY <1>1, Numbers
    <2>6. TypeOK
      BY <1>1, <1>2, <2>2, <2>3, <2>4, <2>5 DEF TypeOK, Channel
    <2> QED
      BY <1>5, <2>1, <2>6 DEF LeafTypes
  <1>7. LockInv
    BY <1>1, Numbers DEF LockInv, Binding
  <1>8. LastInv /\ OwnInv
    BY <1>1 DEF LastInv, OwnInv, Made
  <1>9. StageInv
    BY <1>1, Numbers DEF StageInv
  <1>10. ClosedInv
    BY <1>1, <1>4, Numbers DEF ClosedInv, Closing
  <1>11. ListedInv
    BY <1>1, <1>4, Numbers DEF ListedInv
  <1>12. HandlerInv
    BY <1>1, Numbers DEF HandlerInv
  <1>13. AwareInv
    BY <1>1 DEF AwareInv
  <1> QED
    BY <1>6, <1>7, <1>8, <1>9, <1>10, <1>11, <1>12, <1>13 DEF LeafInv, DeadInv

LEMMA LeafInductive == LeafInv /\ [Next]_vars => LeafInv'
  <1> SUFFICES ASSUME LeafInv, [Next]_vars PROVE LeafInv'
    OBVIOUS
  <1>1. CASE UNCHANGED vars
    BY <1>1 DEF vars, LeafInv, LeafTypes, TypeOK, LockInv, LastInv, StageInv, DeadInv, ClosedInv,
                OwnInv, ListedInv, HandlerInv, AwareInv, Settling, Missed, Known, Dead, Told, Made
  <1>2. ASSUME ~broken, NEW t \in Threads, Bind(t) \/ OnClose(t)
        PROVE  LeafInv'
    BY <1>2, RequestCoordinatorLeaf, ConnectFailedLeaf, ConnectLeaf, JoinMeshLeaf, JoinAnsweredLeaf,
       SetCloseListenerLeaf, AttachListenerLeaf, OnCloseLeaf DEF Bind
  <1>3. ASSUME ~broken, MainStep
        PROVE  LeafInv'
    BY <1>3, TakeHandlerLeaf, UpdateInfoLeaf, UpdateAnsweredLeaf, OpenedLeaf DEF MainStep
  <1>4. ASSUME ~broken, NEW i \in Channels, Reader(i) \/ Coordinator(i)
        PROVE  LeafInv'
    BY <1>4, HandlePacketLeaf, ConnectionEndsLeaf, ClearAllLeaf, CheckClosedLeaf, SetClosedLeaf,
       FireOnCloseLeaf, HandleJoinMeshLeaf, HandleUpdateInfoLeaf DEF Reader, Coordinator
  <1>5. ASSUME ~broken, NEW c \in Coordinators, Crash(c) \/ Forget(c)
        PROVE  LeafInv'
    BY <1>5, CrashLeaf, ForgetLeaf
  <1> QED
    BY <1>1, <1>2, <1>3, <1>4, <1>5 DEF Next

\* For any coordinators and any number of crashes: when the leaf's client has closed, a
\* thread is on its way to onClose, except for a closure that ran between the test and the
\* assignment of setCloseListener (Missed); and a bound leaf has had its join answered by
\* the coordinator it is bound to, which lists it or has refused it (Refused)
\* (P3LeafMesh::bind, AbstractStreamChannel::setCloseListener and close).
THEOREM LeafStaysAttached == MCSpec => []Attached
  <1>1. MCInit => LeafInv
    BY LeafInitially DEF MCInit
  <1>2. LeafInv /\ [MCNext]_<<part, vars, rootVars>> => LeafInv'
    <2>1. [MCNext]_<<part, vars, rootVars>> => [Next]_vars
      BY DEF MCNext
    <2> QED
      BY <2>1, LeafInductive
  <1>3. LeafInv => Attached
    <2>1. SUFFICES ASSUME LeafInv PROVE TypeOK /\ Noticed /\ Listed
      BY DEF Attached
    <2>2. ASSUME Bound, ~Dead(client) PROVE chan[client].place = "listed" \/ Refused
      <3>1. client \in Channels /\ client # 0 /\ chan[client].place \in {"unknown", "listed", "refused"}
        BY <2>1, <2>2, TypeFacts DEF Bound, Typed, Channel
      <3>2. Known(client)
        BY <2>1, <2>2, <3>1 DEF Bound, LeafInv, ListedInv
      <3> QED
        BY <2>2, <3>1, <3>2 DEF Known, Refused
    <2>3. Noticed
      BY <2>1 DEF LeafInv, AwareInv, Settling, Noticed
    <2> QED
      BY <2>1, <2>2, <2>3 DEF LeafInv, LeafTypes, Listed
  <1> QED
    BY <1>1, <1>2, <1>3, PTL DEF MCSpec

=============================================================================
