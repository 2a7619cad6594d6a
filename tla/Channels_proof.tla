--------------------------- MODULE Channels_proof ---------------------------
(***************************************************************************)
(* The channels, for any sizes of headers, buffers and bodies, any number  *)
(* of packets, however the stream is cut, and for any threads that close,  *)
(* send, remove and close the manager: PacketChannel implements            *)
(* PacketQueue, and a channel that is closed is forgotten, once.           *)
(***************************************************************************)
EXTENDS Channels, SequenceTheorems, FiniteSetTheorems, FunctionTheorems, TLAPS

-----------------------------------------------------------------------------
(* The inductive invariant                                                 *)

\* Where the i-th packet starts; one past the last, where the next one will.
At(i) == IF i <= Len(sent) THEN starts[i] ELSE written

\* The packets lie in the stream one after the other, without overlap.
StreamInv ==
    /\ At(1) = 0
    /\ \A i \in 1..Len(sent) : At(i + 1) = starts[i] + HeaderSize + sent[i]
    /\ \A i, j \in 1..Len(sent) : i < j => starts[i] < starts[j]
    /\ \A i \in 1..Len(sent) : starts[i] < written

\* The receiver is at the start of the first packet not handed over, or
\* behind its header.
ParseInv ==
    /\ Len(delivered) <= Len(sent)
    /\ \A i \in 1..Len(delivered) : delivered[i] = sent[i]
    /\ header = <<>> => consumed = At(Len(delivered) + 1)
    /\ header # <<>> =>
          /\ Len(delivered) < Len(sent)
          /\ header = <<sent[Len(delivered) + 1]>>
          /\ consumed = starts[Len(delivered) + 1] + HeaderSize

\* The buffer holds what it has to, and the receiver waits only for what is
\* missing.
BufferInv ==
    /\ size >= MAX_BUFFER_SIZE
    /\ Length <= size
    /\ header # <<>> => header[1] <= size
    /\ pc \in {"recv", "reactor"} =>
          IF header # <<>> THEN Length < header[1] ELSE Length < HeaderSize

IInv == TypeOK /\ StreamInv /\ ParseInv /\ BufferInv

-----------------------------------------------------------------------------
(* What the receiver finds in the stream                                   *)

\* The numbers of packets are natural numbers, and so are their sizes.
LEMMA Counts ==
    ASSUME TypeOK
    PROVE  /\ Len(sent) \in Nat /\ Len(delivered) \in Nat /\ Len(starts) = Len(sent)
           /\ DOMAIN starts = 1..Len(sent) /\ DOMAIN sent = 1..Len(sent)
           /\ \A i \in 1..Len(sent) : sent[i] \in Bodies /\ sent[i] \in Nat /\ starts[i] \in Nat
           /\ consumed \in Nat /\ received \in Nat /\ written \in Nat /\ size \in Nat
           /\ consumed <= received /\ received <= written
           /\ HeaderSize \in Nat /\ HeaderSize > 0 /\ MAX_BUFFER_SIZE \in Nat
           /\ HeaderSize <= MAX_BUFFER_SIZE
  <1>1. /\ sent \in Seq(Bodies) /\ starts \in Seq(Nat) /\ Len(starts) = Len(sent)
        /\ delivered \in Seq(Bodies) /\ Bodies \subseteq Nat
    BY SizeAssumption DEF TypeOK
  <1>2. \A i \in 1..Len(sent) : sent[i] \in Bodies /\ starts[i] \in Nat
    BY <1>1
  <1>3. /\ Len(sent) \in Nat /\ Len(delivered) \in Nat
        /\ DOMAIN starts = 1..Len(sent) /\ DOMAIN sent = 1..Len(sent)
    BY <1>1
  <1>4. \A i \in 1..Len(sent) : sent[i] \in Nat
    BY <1>1, <1>2
  <1>5. /\ consumed \in Nat /\ received \in Nat /\ written \in Nat /\ size \in Nat
        /\ consumed <= received /\ received <= written
    BY DEF TypeOK
  <1>6. /\ HeaderSize \in Nat /\ HeaderSize > 0 /\ MAX_BUFFER_SIZE \in Nat
        /\ HeaderSize <= MAX_BUFFER_SIZE
    BY SizeAssumption
  <1> QED
    BY ONLY <1>1, <1>2, <1>3, <1>4, <1>5, <1>6

\* With a header's worth of bytes and no header parsed, the next packet has
\* been sent, and the header found is its header.
LEMMA HeaderFound ==
    ASSUME IInv, header = <<>>, Length >= HeaderSize
    PROVE  /\ Len(delivered) + 1 \in 1..Len(sent)
           /\ consumed = starts[Len(delivered) + 1]
           /\ HeaderAt(consumed) = {sent[Len(delivered) + 1]}
  <1> DEFINE k == Len(delivered) + 1
  <1>1. TypeOK /\ StreamInv /\ ParseInv
    BY DEF IInv
  <1>2. k \in Nat /\ k >= 1 /\ k <= Len(sent) + 1 /\ consumed = At(k)
    BY <1>1, Counts DEF ParseInv
  <1>3. consumed + HeaderSize <= received
    BY <1>1, Counts DEF Length
  <1>4. consumed < written
    BY <1>1, <1>3, Counts
  <1> HIDE DEF k
  <1>5. k \in 1..Len(sent) /\ consumed = starts[k]
    BY <1>1, <1>2, <1>4, Counts DEF At
  <1>6. \A j \in 1..Len(sent) : starts[j] = consumed => j = k
    BY <1>1, <1>5, Counts, SMTT(30) DEF StreamInv
  <1>7. {j \in DOMAIN starts : starts[j] = consumed} = {k}
    BY <1>1, <1>5, <1>6, Counts
  <1>8. \E i \in DOMAIN starts : starts[i] = consumed
    BY <1>1, <1>5, Counts
  <1>9. HeaderAt(consumed) = {sent[k]}
    BY ONLY <1>7, <1>8 DEF HeaderAt
  <1> QED
    BY <1>5, <1>9 DEF k

-----------------------------------------------------------------------------
(* One lemma for each step                                                 *)

\* A packet is added at the end of the stream.
LEMMA SendPacketInv ==
    ASSUME IInv, NEW b \in Bodies, SendPacket(b)
    PROVE  IInv'
  <1> USE DEF sendVars, bufVars
  <1>0. PICK n \in Nat : n = Len(sent)
    BY Counts DEF IInv
  <1>1. /\ TypeOK /\ StreamInv /\ ParseInv /\ BufferInv
        /\ b \in Nat
    BY SizeAssumption DEF IInv
  <1>2. /\ sent' = Append(sent, b) /\ starts' = Append(starts, written)
        /\ written' = written + HeaderSize + b
        /\ UNCHANGED <<peerOpen, received, bufVars, pc>>
    BY DEF SendPacket
  <1>3. /\ n \in Nat /\ Len(sent) = n /\ Len(starts) = n /\ Len(sent') = n + 1 /\ Len(starts') = n + 1
        /\ sent' \in Seq(Bodies) /\ starts' \in Seq(Nat)
        /\ sent'[n + 1] = b /\ starts'[n + 1] = written
        /\ \A i \in 1..n : sent'[i] = sent[i] /\ starts'[i] = starts[i]
    BY <1>0, <1>1, <1>2 DEF TypeOK
  <1>4. TypeOK'
    BY <1>1, <1>2, <1>3, Counts DEF TypeOK
  <1>5. \A i \in 1..(n + 1) : At(i)' = At(i)
    <2> SUFFICES ASSUME NEW i \in 1..(n + 1)
                 PROVE  At(i)' = At(i)
      OBVIOUS
    <2>1. CASE i <= n
      BY <1>3, <2>1 DEF At
    <2>2. CASE i = n + 1
      BY <1>3, <2>2 DEF At
    <2> QED
      BY <1>3, <2>1, <2>2
  <1>6. At(n + 2)' = written'
    BY <1>3 DEF At
  <1>7. StreamInv'
    <2>1. (At(1) = 0)'
      BY <1>1, <1>3, <1>5 DEF StreamInv
    <2>2. ASSUME NEW i \in 1..(n + 1)
          PROVE  At(i + 1)' = starts'[i] + HeaderSize + sent'[i]
      <3>1. CASE i \in 1..n
        <4>1. i + 1 \in 1..(n + 1) /\ At(i + 1) = starts[i] + HeaderSize + sent[i]
          BY <1>1, <1>3, <3>1 DEF StreamInv
        <4> QED
          BY <1>3, <1>5, <3>1, <4>1
      <3>2. CASE i = n + 1
        <4>1. i + 1 = n + 2
          BY <3>2, <1>3
        <4> QED
          BY <1>2, <1>3, <1>6, <3>2, <4>1
      <3> QED
        BY <1>3, <3>1, <3>2
    <2>3. ASSUME NEW i \in 1..(n + 1), NEW j \in 1..(n + 1), i < j
          PROVE  starts'[i] < starts'[j]
      <3>1. i \in 1..n
        BY <1>3, <2>3
      <3>2. CASE j \in 1..n
        BY <1>1, <1>3, <2>3, <3>1, <3>2 DEF StreamInv
      <3>3. CASE j = n + 1
        BY <1>1, <1>3, <3>1, <3>3 DEF StreamInv
      <3> QED
        BY <1>3, <3>2, <3>3
    <2>4. ASSUME NEW i \in 1..(n + 1)
          PROVE  starts'[i] < written'
      <3>1. CASE i \in 1..n
        <4>1. starts[i] < written /\ starts[i] \in Nat
          BY <1>1, <1>3, <3>1, Counts DEF StreamInv
        <4>2. written < written' /\ written \in Nat /\ written' \in Nat
          BY <1>1, <1>2, Counts
        <4> QED
          BY <1>3, <3>1, <4>1, <4>2
      <3>2. CASE i = n + 1
        BY <1>1, <1>2, <1>3, <3>2, Counts
      <3> QED
        BY <1>3, <3>1, <3>2
    <2> QED
      BY <1>3, <2>1, <2>2, <2>3, <2>4 DEF StreamInv
  <1>8. ParseInv'
    <2>1. Len(delivered) \in Nat /\ Len(delivered) <= n
      BY <1>1, <1>3, Counts DEF ParseInv
    <2>2. Len(delivered) + 1 \in 1..(n + 1)
      BY <1>3, <2>1
    <2>3. \A i \in 1..Len(delivered) : i \in 1..n
      BY <1>3, <2>1
    <2>4. header # <<>> => Len(delivered) + 1 \in 1..n
      BY <1>1, <1>3, <2>1 DEF ParseInv
    <2> QED
      BY <1>1, <1>2, <1>3, <1>5, <2>1, <2>2, <2>3, <2>4, SMTT(30) DEF ParseInv
  <1>9. BufferInv'
    BY <1>1, <1>2 DEF BufferInv, Length
  <1> QED
    BY <1>4, <1>7, <1>8, <1>9 DEF IInv

\* Bytes arrive, no more than there is room for.
LEMMA ReadInputBufferInv ==
    ASSUME IInv, ReadInputBuffer
    PROVE  IInv'
  <1>1. TypeOK /\ StreamInv /\ ParseInv /\ BufferInv
    BY DEF IInv
  <1>2. PICK m \in 1..Space : received + m <= written /\ received' = received + m
    BY DEF ReadInputBuffer
  <1>3. pc' \in {"receive", "input"} /\ UNCHANGED <<sendVars, peerOpen, bufVars>>
    BY DEF ReadInputBuffer
  <1>4. m \in Nat /\ m <= size - (received - consumed)
    BY <1>1, <1>2, Counts DEF Space, Length
  <1>5. TypeOK'
    BY <1>1, <1>2, <1>3, <1>4, Counts DEF TypeOK, sendVars, bufVars, Places
  <1>6. StreamInv' /\ ParseInv'
    BY <1>1, <1>3 DEF StreamInv, ParseInv, At, sendVars, bufVars
  <1>7. BufferInv'
    BY <1>1, <1>2, <1>3, <1>4, Counts, SMTT(30) DEF BufferInv, Length, sendVars, bufVars
  <1> QED
    BY <1>5, <1>6, <1>7 DEF IInv

\* A step that only moves the receiver to a place where it does not wait.
LEMMA MoveInv ==
    ASSUME IInv, UNCHANGED <<sendVars, received, bufVars>>, peerOpen' \in BOOLEAN,
           pc' = pc \/ pc' \in Places \ {"recv", "reactor"}
    PROVE  IInv'
  BY DEF IInv, TypeOK, StreamInv, ParseInv, BufferInv, At, Length, sendVars, bufVars

\* Nothing, or not all of it, is there yet.
LEMMA IncompleteInv ==
    ASSUME IInv, UNCHANGED <<sendVars, peerOpen, received>>,
           pc \in {"receive", "flush", "input"}, ParseNothing \/ ParseBodyIncomplete
    PROVE  IInv'
  <1>1. TypeOK /\ StreamInv /\ ParseInv /\ BufferInv
    BY DEF IInv
  <1>2. UNCHANGED bufVars /\ pc' \in Places
    BY DEF ParseNothing, ParseBodyIncomplete, Incomplete, Places
  <1>3. TypeOK'
    BY <1>1, <1>2 DEF TypeOK, sendVars, bufVars
  <1>4. StreamInv' /\ ParseInv'
    BY <1>1, <1>2 DEF StreamInv, ParseInv, At, sendVars, bufVars
  <1>5. BufferInv'
    BY <1>1, <1>2 DEF ParseNothing, ParseBodyIncomplete, BufferInv, Length, sendVars, bufVars
  <1> QED
    BY <1>3, <1>4, <1>5 DEF IInv

\* A header is taken, and the buffer is made large enough for its body.
LEMMA ParseHeaderInv ==
    ASSUME IInv, UNCHANGED <<sendVars, peerOpen, received>>,
           pc \in {"receive", "flush", "input"}, ParseHeader
    PROVE  IInv'
  <1> DEFINE k == Len(delivered) + 1
  <1>1. TypeOK /\ StreamInv /\ ParseInv /\ BufferInv
    BY DEF IInv
  <1>2. k \in 1..Len(sent) /\ consumed = starts[k] /\ HeaderAt(consumed) = {sent[k]}
    BY HeaderFound DEF ParseHeader
  <1>3. sent[k] \in Bodies /\ sent[k] \in Nat
    BY <1>1, <1>2, Counts
  <1> HIDE DEF k
  <1>4. /\ header = <<>> /\ Length >= HeaderSize
        /\ sent[k] > Length - HeaderSize /\ size' = RoomFor(sent[k], Length - HeaderSize)
        /\ header' = <<sent[k]>> /\ consumed' = consumed + HeaderSize /\ delivered' = delivered
        /\ pc' \in Places
    BY <1>2 DEF ParseHeader, Incomplete, Places
  <1>5. /\ size' \in Nat /\ size' >= size /\ sent[k] <= size'
    <2> DEFINE x == Length - HeaderSize
    <2>1. /\ Space = size - Length /\ Length \in Nat /\ x \in Nat /\ Length = x + HeaderSize
          /\ Length <= size
      BY <1>1, <1>4, Counts, SMTT(30) DEF Space, Length, BufferInv
    <2>2. size' = IF sent[k] - x > Space THEN HeaderSize + sent[k] + MAX_BUFFER_SIZE ELSE size
      BY <1>4 DEF RoomFor
    <2>3. HeaderSize \in Nat /\ MAX_BUFFER_SIZE \in Nat /\ size \in Nat
      BY <1>1, Counts
    <2>4. \A b, y, l, h, m, z, s, t \in Int :
             /\ b >= 0 /\ y >= 0 /\ l >= 0 /\ h >= 0 /\ m >= 0 /\ z >= 0
             /\ s = z - l /\ l = y + h /\ l <= z
             /\ t = IF b - y > s THEN h + b + m ELSE z
             => t >= 0 /\ t >= z /\ b <= t
      OBVIOUS
    <2>5. size' \in Int /\ Space \in Int
      BY <1>3, <2>1, <2>2, <2>3
    <2> HIDE DEF x
    <2> QED
      BY ONLY <1>3, <2>1, <2>2, <2>3, <2>4, <2>5
  <1>6. TypeOK'
    BY <1>1, <1>3, <1>4, <1>5, Counts DEF TypeOK, Length, sendVars
  <1>7. StreamInv'
    BY <1>1 DEF StreamInv, At, sendVars
  <1>8. ParseInv'
    BY <1>1, <1>2, <1>4, Counts DEF ParseInv, sendVars, k
  <1>9. BufferInv'
    BY <1>1, <1>3, <1>4, <1>5, Counts, SMTT(30) DEF BufferInv, Length
  <1> QED
    BY <1>6, <1>7, <1>8, <1>9 DEF IInv

\* A packet is complete: it is the next one, and the receiver goes on where
\* the one after it starts.
LEMMA PacketTaken ==
    ASSUME IInv, UNCHANGED <<sendVars, peerOpen, received>>,
           pc \in {"receive", "flush", "input"}, ParseWhole \/ ParseBody
    PROVE  /\ Len(delivered) + 1 \in 1..Len(sent)
           /\ delivered' = Append(delivered, sent[Len(delivered) + 1])
           /\ consumed' = At(Len(delivered) + 2)
           /\ consumed <= consumed' /\ consumed' <= received
           /\ header' = <<>> /\ size' = size /\ pc' \in Places \ {"recv", "reactor"}
  <1> DEFINE k == Len(delivered) + 1
  <1>1. TypeOK /\ StreamInv /\ ParseInv /\ BufferInv
    BY DEF IInv
  <1>2. Len(delivered) \in Nat /\ k + 1 = Len(delivered) + 2
    BY <1>1, Counts
  <1>3. pc' \in Places \ {"recv", "reactor"} /\ size' = size
    BY DEF ParseWhole, ParseBody, AfterPacket, Places
  <1>4. CASE ParseWhole
    <2>1. k \in 1..Len(sent) /\ consumed = starts[k] /\ HeaderAt(consumed) = {sent[k]}
      BY <1>4, HeaderFound DEF ParseWhole
    <2>2. sent[k] \in Nat /\ starts[k] \in Nat
      BY <1>1, <2>1, Counts
    <2> HIDE DEF k
    <2>3. /\ sent[k] <= Length - HeaderSize /\ header' = header /\ header = <<>>
          /\ consumed' = consumed + HeaderSize + sent[k] /\ delivered' = Append(delivered, sent[k])
      BY <1>4, <2>1 DEF ParseWhole, CreatePacket
    <2>4. consumed' = At(k + 1)
      BY <1>1, <2>1, <2>3 DEF StreamInv
    <2>5. consumed <= consumed' /\ consumed' <= received
      BY <1>1, <2>2, <2>3, Counts, SMTT(30) DEF Length
    <2> QED
      BY <1>2, <1>3, <2>1, <2>3, <2>4, <2>5 DEF k
  <1>5. CASE ParseBody
    <2>1. /\ header # <<>> /\ Len(delivered) < Len(sent) /\ header = <<sent[k]>>
          /\ consumed = starts[k] + HeaderSize
      BY <1>1, <1>5 DEF ParseBody, ParseInv
    <2>2. k \in 1..Len(sent)
      BY <1>1, <2>1, Counts
    <2>3. sent[k] \in Nat /\ starts[k] \in Nat
      BY <1>1, <2>2, Counts
    <2> HIDE DEF k
    <2>4. /\ sent[k] <= Length /\ header' = <<>>
          /\ consumed' = consumed + sent[k] /\ delivered' = Append(delivered, sent[k])
      BY <1>5, <2>1 DEF ParseBody, CreatePacket
    <2>5. consumed' = At(k + 1)
      BY <1>1, <2>1, <2>2, <2>4 DEF StreamInv
    <2>6. consumed <= consumed' /\ consumed' <= received
      BY <1>1, <2>3, <2>4, Counts, SMTT(30) DEF Length
    <2> QED
      BY <1>2, <1>3, <2>2, <2>4, <2>5, <2>6 DEF k
  <1> QED
    BY <1>4, <1>5

LEMMA PacketTakenInv ==
    ASSUME IInv, UNCHANGED <<sendVars, peerOpen, received>>,
           pc \in {"receive", "flush", "input"}, ParseWhole \/ ParseBody
    PROVE  IInv'
  <1>0. PICK d \in Nat : d = Len(delivered)
    BY Counts DEF IInv
  <1>1. TypeOK /\ StreamInv /\ ParseInv /\ BufferInv
    BY DEF IInv
  <1>2. /\ d + 1 \in 1..Len(sent) /\ delivered' = Append(delivered, sent[d + 1])
        /\ consumed' = At(d + 2) /\ consumed <= consumed' /\ consumed' <= received
        /\ header' = <<>> /\ size' = size /\ pc' \in Places \ {"recv", "reactor"}
    BY <1>0, PacketTaken
  <1>3. sent' = sent /\ starts' = starts /\ written' = written /\ received' = received
    BY DEF sendVars
  <1>4. sent[d + 1] \in Bodies
    BY <1>1, <1>2, Counts
  <1>5. /\ delivered' \in Seq(Bodies) /\ d \in Nat /\ d = Len(delivered) /\ Len(delivered') = d + 1
        /\ delivered'[d + 1] = sent[d + 1]
        /\ \A i \in 1..d : delivered'[i] = delivered[i]
    BY <1>0, <1>1, <1>2, <1>4 DEF TypeOK
  <1>6. At(d + 2) \in Nat
    <2>1. d + 2 <= Len(sent) => d + 2 \in 1..Len(sent)
      BY <1>1, <1>5, Counts
    <2> QED
      BY <1>1, <2>1, Counts DEF At
  <1>7. TypeOK'
    BY <1>1, <1>2, <1>3, <1>5, <1>6 DEF TypeOK
  <1>8. StreamInv'
    BY <1>1, <1>3 DEF StreamInv, At
  <1>9. ParseInv'
    <2>1. \A i \in 1..(d + 1) : delivered'[i] = sent[i]
      <3> SUFFICES ASSUME NEW i \in 1..(d + 1)
                   PROVE  delivered'[i] = sent[i]
        OBVIOUS
      <3>1. i \in 1..d \/ i = d + 1
        BY <1>5
      <3> QED
        BY <1>1, <1>5, <3>1 DEF ParseInv
    <2>2. At(d + 2)' = At(d + 2) /\ Len(delivered') + 1 = d + 2
      BY <1>3, <1>5 DEF At
    <2>3. Len(delivered') <= Len(sent)
      BY <1>1, <1>2, <1>5, Counts
    <2> QED
      BY <1>2, <1>3, <1>5, <2>1, <2>2, <2>3 DEF ParseInv
  <1>10. BufferInv'
    BY <1>1, <1>2, <1>3, <1>6, Counts, SMTT(30) DEF BufferInv, Length
  <1> QED
    BY <1>7, <1>8, <1>9, <1>10 DEF IInv

-----------------------------------------------------------------------------
(* The invariant holds                                                     *)

LEMMA InitIInv == Init => IInv
  <1> SUFFICES ASSUME Init
               PROVE  IInv
    OBVIOUS
  <1>1. TypeOK
    BY SizeAssumption DEF Init, TypeOK, Places
  <1>2. StreamInv /\ ParseInv
    BY SizeAssumption DEF Init, StreamInv, ParseInv, At
  <1>3. BufferInv
    BY SizeAssumption DEF Init, BufferInv, Length
  <1> QED
    BY <1>1, <1>2, <1>3 DEF IInv

LEMMA NextIInv == IInv /\ [Next]_vars => IInv'
  <1> SUFFICES ASSUME IInv, [Next]_vars
               PROVE  IInv'
    OBVIOUS
  <1>1. CASE PeerClose \/ ReceivePacket \/ Asynchronous \/ ReceiveTimeout \/ Close
             \/ ReadInputBufferFails \/ UNCHANGED vars
    <2>1. UNCHANGED <<sendVars, received, bufVars>>
      BY <1>1 DEF PeerClose, ReceivePacket, Asynchronous, ReceiveTimeout, Close,
         ReadInputBufferFails, vars
    <2>2. peerOpen' \in BOOLEAN
      BY <1>1 DEF PeerClose, ReceivePacket, Asynchronous, ReceiveTimeout, Close,
         ReadInputBufferFails, vars, IInv, TypeOK
    <2>3. pc' = pc \/ pc' \in Places \ {"recv", "reactor"}
      BY <1>1 DEF PeerClose, ReceivePacket, Asynchronous, ReceiveTimeout, Close,
         ReadInputBufferFails, vars, Places
    <2> QED
      BY <2>1, <2>2, <2>3, MoveInv
  <1>2. CASE HandleInputParsePacket
    BY <1>2, IncompleteInv, ParseHeaderInv, PacketTakenInv DEF HandleInputParsePacket
  <1> QED
    BY <1>1, <1>2, SendPacketInv, ReadInputBufferInv DEF Next

LEMMA IInvHolds == Spec => []IInv
  BY InitIInv, NextIInv, PTL DEF Spec

-----------------------------------------------------------------------------
(* What the channel promises                                               *)

\* The receiver waits only for what is missing, and has room for it.
LEMMA IInvSafe == IInv => TypeOK /\ RoomToRead /\ NothingLeftBehind
  <1>1. ASSUME IInv
        PROVE  TypeOK /\ RoomToRead /\ NothingLeftBehind
    <2>1. TypeOK /\ BufferInv
      BY <1>1 DEF IInv
    <2>2. RoomToRead
      <3>1. /\ consumed \in Nat /\ received \in Nat /\ size \in Nat
            /\ HeaderSize \in Nat /\ HeaderSize <= size
        BY <2>1, Counts DEF BufferInv
      <3>2. header # <<>> => header[1] \in Nat
        BY <2>1, SizeAssumption DEF TypeOK
      <3>3. pc \in {"recv", "reactor"} => Length < size
        BY <2>1, <3>1, <3>2 DEF BufferInv, Length
      <3> QED
        BY <3>1, <3>3 DEF RoomToRead, Space, Length
    <2>3. NothingLeftBehind
      BY <2>1 DEF BufferInv, NothingLeftBehind
    <2> QED
      BY <2>1, <2>2, <2>3
  <1> QED
    BY <1>1

(***************************************************************************)
(* The receiver never waits with a full buffer, so readInputBuffer never   *)
(* takes a full buffer for the end of the stream, and it never waits in    *)
(* the reactor with a whole packet in its buffer: RoomFor in               *)
(* handleInputParsePacket, the loop in handleInput_i and the flush in      *)
(* asynchronous are enough for any sizes.                                  *)
(***************************************************************************)
THEOREM NoStall == Spec => [](TypeOK /\ RoomToRead /\ NothingLeftBehind)
  BY IInvHolds, IInvSafe, PTL

-----------------------------------------------------------------------------
(* The channel implements the queue                                        *)

\* Lists of the same length with the same elements are the same.
LEMMA SameList ==
    ASSUME NEW E, NEW s \in Seq(E), NEW t \in Seq(E), Len(s) = Len(t),
           \A i \in 1..Len(s) : s[i] = t[i]
    PROVE  s = t
  OBVIOUS

\* The packets sent and not handed over: the queue of the abstraction.
Pending == SubSeq(sent, Len(delivered) + 1, Len(sent))

\* Its length, and its elements.
PendingIs ==
    /\ Pending \in Seq(Bodies)
    /\ Len(Pending) = Len(sent) - Len(delivered)
    /\ \A i \in 1..(Len(sent) - Len(delivered)) : Pending[i] = sent[Len(delivered) + i]

LEMMA PendingFacts == IInv => PendingIs
  <1> SUFFICES ASSUME IInv
               PROVE  PendingIs
    OBVIOUS
  <1> DEFINE m == Len(delivered) + 1
             n == Len(sent)
  <1>1. m \in Int /\ n \in Int /\ m >= 1 /\ m <= n + 1
    BY Counts DEF IInv, ParseInv
  <1>2. \A i \in 1..n : sent[i] \in Bodies
    BY Counts DEF IInv
  <1> HIDE DEF m, n
  <1>3. \A i \in m..n : sent[i] \in Bodies
    BY <1>1, <1>2
  <1>4. /\ SubSeq(sent, m, n) \in Seq(Bodies)
        /\ Len(SubSeq(sent, m, n)) = IF m <= n THEN n - m + 1 ELSE 0
        /\ \A i \in 1..(n - m + 1) : SubSeq(sent, m, n)[i] = sent[m + i - 1]
    BY <1>1, <1>3, SubSeqProperties
  <1>5. /\ n - m + 1 = Len(sent) - Len(delivered)
        /\ \A i \in 1..(n - m + 1) : m + i - 1 = Len(delivered) + i
    BY Counts DEF IInv, m, n
  <1>6. Len(SubSeq(sent, m, n)) = n - m + 1
    BY <1>1, <1>4
  <1>7. Pending = SubSeq(sent, m, n)
    BY DEF Pending, m, n
  <1>8. \A i \in 1..(n - m + 1) : Pending[i] = sent[Len(delivered) + i]
    BY ONLY <1>4, <1>5, <1>7
  <1> QED
    BY ONLY <1>4, <1>5, <1>6, <1>7, <1>8 DEF PendingIs

\* A packet sent is at the end of the queue.
LEMMA SendStep ==
    ASSUME IInv, IInv', NEW b \in Bodies, SendPacket(b)
    PROVE  Pending' = Append(Pending, b) /\ delivered' = delivered /\ pc' = pc
  <1>1. PICK n \in Nat, d \in Nat : n = Len(sent) /\ d = Len(delivered) /\ d <= n
    BY Counts DEF IInv, ParseInv
  <1>2. /\ sent' = Append(sent, b) /\ delivered' = delivered /\ pc' = pc
    BY DEF SendPacket, bufVars
  <1>3. /\ Len(sent') = n + 1 /\ sent'[n + 1] = b
        /\ \A i \in 1..n : sent'[i] = sent[i]
    BY <1>1, <1>2 DEF IInv, TypeOK
  <1>4. /\ Pending \in Seq(Bodies) /\ Len(Pending) = n - d
        /\ \A i \in 1..(n - d) : Pending[i] = sent[d + i]
    BY <1>1, PendingFacts DEF PendingIs
  <1>5. /\ Pending' \in Seq(Bodies) /\ Len(Pending') = (n + 1) - d
        /\ \A i \in 1..((n + 1) - d) : Pending'[i] = sent'[d + i]
    <2>1. PendingIs'
      BY PendingFacts, PTL
    <2> HIDE DEF Pending
    <2> QED
      BY <1>1, <1>2, <1>3, <2>1 DEF PendingIs
  <1>6. /\ Append(Pending, b) \in Seq(Bodies) /\ Len(Append(Pending, b)) = (n - d) + 1
        /\ Append(Pending, b)[(n - d) + 1] = b
        /\ \A i \in 1..(n - d) : Append(Pending, b)[i] = Pending[i]
    BY <1>4
  <1>7. ASSUME NEW i \in 1..Len(Pending')
        PROVE  Pending'[i] = Append(Pending, b)[i]
    <2>1. CASE i \in 1..(n - d)
      <3>1. d + i \in 1..n /\ i \in 1..((n + 1) - d)
        BY <1>1, <2>1
      <3> QED
        BY <1>3, <1>4, <1>5, <1>6, <2>1, <3>1
    <2>2. CASE i = (n - d) + 1
      <3>1. d + i = n + 1 /\ i \in 1..((n + 1) - d)
        BY <1>1, <2>2
      <3> QED
        BY <1>3, <1>5, <1>6, <2>2, <3>1
    <2>3. i \in 1..((n + 1) - d)
      BY <1>5
    <2>4. i \in 1..(n - d) \/ i = (n - d) + 1
      BY <1>1, <2>3
    <2> QED
      BY <2>1, <2>2, <2>4
  <1>8. Len(Pending') = Len(Append(Pending, b))
    BY <1>1, <1>5, <1>6
  <1>9. Pending' = Append(Pending, b)
    BY <1>5, <1>6, <1>7, <1>8, SameList
  <1> QED
    BY <1>2, <1>9

\* A packet taken is the front of the queue.
LEMMA TakeStep ==
    ASSUME IInv, IInv', UNCHANGED <<sendVars, peerOpen, received>>,
           pc \in {"receive", "flush", "input"}, ParseWhole \/ ParseBody
    PROVE  /\ Pending # <<>>
           /\ delivered' = Append(delivered, Head(Pending))
           /\ Pending' = Tail(Pending)
  <1>1. PICK n \in Nat, d \in Nat : n = Len(sent) /\ d = Len(delivered) /\ d <= n
    BY Counts DEF IInv, ParseInv
  <1>2. d + 1 \in 1..n /\ delivered' = Append(delivered, sent[d + 1]) /\ sent' = sent
    BY <1>1, PacketTaken DEF sendVars
  <1>3. Len(delivered') = d + 1
    BY <1>1, <1>2 DEF IInv, TypeOK
  <1>4. /\ Pending \in Seq(Bodies) /\ Len(Pending) = n - d
        /\ \A i \in 1..(n - d) : Pending[i] = sent[d + i]
    BY <1>1, PendingFacts DEF PendingIs
  <1>5. /\ Pending' \in Seq(Bodies) /\ Len(Pending') = n - (d + 1)
        /\ \A i \in 1..(n - (d + 1)) : Pending'[i] = sent[(d + 1) + i]
    <2>1. PendingIs'
      BY PendingFacts, PTL
    <2> HIDE DEF Pending
    <2> QED
      BY <1>1, <1>2, <1>3, <2>1 DEF PendingIs
  <1>6. n - d >= 1 /\ 1 \in 1..(n - d)
    BY <1>1, <1>2
  <1>7. /\ Pending # <<>> /\ Head(Pending) = Pending[1] /\ Tail(Pending) \in Seq(Bodies)
        /\ Len(Tail(Pending)) = (n - d) - 1
        /\ \A i \in 1..((n - d) - 1) : Tail(Pending)[i] = Pending[i + 1]
    BY <1>4, <1>6
  <1>8. Head(Pending) = sent[d + 1]
    BY <1>4, <1>6, <1>7
  <1>9. ASSUME NEW i \in 1..Len(Pending')
        PROVE  Pending'[i] = Tail(Pending)[i]
    <2>1. /\ i \in 1..(n - (d + 1)) /\ i \in 1..((n - d) - 1) /\ i + 1 \in 1..(n - d)
          /\ (d + 1) + i = d + (i + 1)
      BY <1>1, <1>5
    <2> QED
      BY <1>4, <1>5, <1>7, <2>1
  <1>10. Len(Pending') = Len(Tail(Pending))
    <2>1. n - (d + 1) = (n - d) - 1
      BY <1>1
    <2> QED
      BY ONLY <1>5, <1>7, <2>1
  <1>11. Pending' = Tail(Pending)
    BY <1>5, <1>7, <1>9, <1>10, SameList
  <1> QED
    BY <1>2, <1>7, <1>8, <1>11

\* Every step of the channel is a step of the queue, or none.
LEMMA StepQueue ==
    ASSUME IInv, IInv', [Next]_vars
    PROVE  [Abstract!Next]_<<Pending, delivered, pc # "closed">>
  <1>1. ASSUME NEW b \in Bodies, SendPacket(b)
        PROVE  Abstract!Send
    <2>1. Pending' = Append(Pending, b) /\ delivered' = delivered /\ pc' = pc
      BY <1>1, SendStep
    <2> QED
      BY <2>1 DEF Abstract!Send, Pending
  <1>2. CASE HandleInputParsePacket /\ (ParseWhole \/ ParseBody)
    <2>1. /\ Pending # <<>> /\ delivered' = Append(delivered, Head(Pending))
          /\ Pending' = Tail(Pending)
      BY <1>2, TakeStep DEF HandleInputParsePacket
    <2>2. pc # "closed" /\ (pc' # "closed") \in BOOLEAN
      BY <1>2 DEF HandleInputParsePacket
    <2>3. Abstract!HandOver
      BY <2>1, <2>2 DEF Abstract!HandOver, Pending
    <2> QED
      BY <2>3 DEF Abstract!Next
  <1>3. CASE UNCHANGED <<sent, delivered>>
    <2>1. Pending' = Pending
      BY <1>3 DEF Pending
    <2>2. CASE (pc' # "closed") = (pc # "closed")
      BY <1>3, <2>1, <2>2
    <2>3. CASE pc # "closed" /\ pc' = "closed"
      <3>1. Abstract!Close
        BY <1>3, <2>1, <2>3 DEF Abstract!Close, Pending
      <3> QED
        BY <3>1 DEF Abstract!Next
    <2>4. pc = "closed" => pc' = "closed"
      BY DEF Next, vars, SendPacket, PeerClose, ReceivePacket, Asynchronous, ReceiveTimeout,
         Close, ReadInputBuffer, ReadInputBufferFails, HandleInputParsePacket
    <2> QED
      BY <2>2, <2>3, <2>4
  <1>4. \/ \E b \in Bodies : SendPacket(b)
        \/ HandleInputParsePacket /\ (ParseWhole \/ ParseBody)
        \/ UNCHANGED <<sent, delivered>>
    BY DEF Next, vars, sendVars, bufVars, PeerClose, ReceivePacket, Asynchronous,
       ReceiveTimeout, Close, ReadInputBuffer, ReadInputBufferFails, HandleInputParsePacket,
       ParseNothing, ParseHeader, ParseBodyIncomplete
  <1> QED
    BY <1>1, <1>2, <1>3, <1>4 DEF Abstract!Next

(***************************************************************************)
(* The handler above a channel gets the packets that the other end sent,   *)
(* whole, once and in order, however recv cuts the stream and wherever the *)
(* owner switches from receivePacket to the reactor: PacketChannel         *)
(* implements PacketQueue.                                                 *)
(***************************************************************************)
THEOREM ChannelIsQueue == Spec => Queue
  <1>1. Init => Abstract!Init
    <2> SUFFICES ASSUME Init
                 PROVE  Abstract!Init
      OBVIOUS
    <2>1. SubSeq(sent, Len(delivered) + 1, Len(sent)) = <<>>
      BY SubSeqEmpty DEF Init
    <2> QED
      BY <2>1 DEF Init, Abstract!Init
  <1>2. IInv /\ IInv' /\ [Next]_vars =>
           [Abstract!Next]_<<SubSeq(sent, Len(delivered) + 1, Len(sent)), delivered, pc # "closed">>
    BY StepQueue DEF Pending
  <1> QED
    BY <1>1, <1>2, IInvHolds, PTL DEF Spec, Queue, Abstract!Spec, Abstract!vars

-----------------------------------------------------------------------------
(* The closing of a channel: stacks of calls.                               *)

\* Call x is in progress in stack s.
Has(s, x) == \E i \in 1..Len(s) : s[i] = x

\* The calls that are about to take the channel into the map or out of it: who is in one
\* of them has the right to tell the manager's owner.
Rights == {"add", "remove:channel", "remove:fire"}

Holds(s) == \E i \in 1..Len(s) : s[i] \in Rights

\* At most one such call is in progress in s.
Unique(s) == \A i, j \in 1..Len(s) : s[i] \in Rights /\ s[j] \in Rights => i = j

\* A call returns, or goes on to the calls p.
LEMMA Moved ==
    ASSUME NEW s \in Seq(S!Places), s # <<>>, NEW p \in Seq(S!Places)
    PROVE  /\ p \o Tail(s) \in Seq(S!Places)
           /\ \A x : Has(s, x) <=> x = Head(s) \/ Has(Tail(s), x)
           /\ \A x : Has(p \o Tail(s), x) <=> Has(p, x) \/ Has(Tail(s), x)
           /\ Holds(s) <=> Head(s) \in Rights \/ Holds(Tail(s))
           /\ Holds(p \o Tail(s)) <=> Holds(p) \/ Holds(Tail(s))
           /\ Unique(s) => /\ ~(Head(s) \in Rights /\ Holds(Tail(s)))
                           /\ ~Holds(p) => Unique(p \o Tail(s))
           /\ Unique(p) /\ ~Holds(Tail(s)) => Unique(p \o Tail(s))
           /\ p # <<>> => p \o Tail(s) # <<>> /\ Head(p \o Tail(s)) = Head(p)
  <1> DEFINE r == p \o Tail(s)
             n == Len(p)
  <1>1. /\ Tail(s) \in Seq(S!Places) /\ Len(s) \in Nat /\ Len(s) > 0 /\ Len(Tail(s)) = Len(s) - 1
        /\ n \in Nat /\ Head(s) = s[1]
        /\ \A i \in 1..(Len(s) - 1) : Tail(s)[i] = s[i + 1]
    OBVIOUS
  <1>2. /\ r \in Seq(S!Places) /\ Len(r) = n + Len(Tail(s))
        /\ \A i \in 1..(n + Len(Tail(s))) : r[i] = IF i <= n THEN p[i] ELSE Tail(s)[i - n]
    BY <1>1, ConcatProperties
  <1> HIDE DEF r, n
  <1>3. /\ \A i \in 1..n : i \in 1..Len(r) /\ r[i] = p[i]
        /\ \A i \in 1..Len(Tail(s)) : n + i \in 1..Len(r) /\ r[n + i] = Tail(s)[i]
        /\ \A i \in 1..Len(r) : i \in 1..n \/ (i - n \in 1..Len(Tail(s)) /\ r[i] = Tail(s)[i - n])
    BY <1>1, <1>2
  <1>4. /\ 1 \in 1..Len(s)
        /\ \A i \in 1..Len(Tail(s)) : i + 1 \in 1..Len(s) /\ s[i + 1] = Tail(s)[i]
        /\ \A i \in 1..Len(s) : i = 1 \/ (i - 1 \in 1..Len(Tail(s)) /\ s[i] = Tail(s)[i - 1])
    BY <1>1
  <1>5. \A x : Has(s, x) <=> x = Head(s) \/ Has(Tail(s), x)
    <2> SUFFICES ASSUME NEW x PROVE Has(s, x) <=> x = Head(s) \/ Has(Tail(s), x)
      OBVIOUS
    <2> QED
      BY <1>1, <1>4 DEF Has
  <1>6. \A x : Has(r, x) <=> Has(p, x) \/ Has(Tail(s), x)
    <2> SUFFICES ASSUME NEW x PROVE Has(r, x) <=> Has(p, x) \/ Has(Tail(s), x)
      OBVIOUS
    <2> QED
      BY <1>3 DEF Has, n
  <1>7. Holds(s) <=> Head(s) \in Rights \/ Holds(Tail(s))
    BY <1>1, <1>4 DEF Holds
  <1>8. Holds(r) <=> Holds(p) \/ Holds(Tail(s))
    BY <1>3 DEF Holds, n
  <1>9. ASSUME Unique(s), Head(s) \in Rights PROVE ~Holds(Tail(s))
    <2>1. ASSUME NEW i \in 1..Len(Tail(s)) PROVE Tail(s)[i] \notin Rights
      BY <1>1, <1>4, <1>9 DEF Unique
    <2> QED
      BY <2>1 DEF Holds
  <1>10. ASSUME Unique(s), ~Holds(p) PROVE Unique(r)
    <2>1. SUFFICES ASSUME NEW i \in 1..Len(r), NEW j \in 1..Len(r), r[i] \in Rights, r[j] \in Rights
                   PROVE  i = j
      BY DEF Unique
    <2>2. i \notin 1..n /\ j \notin 1..n
      BY <1>3, <1>10, <2>1 DEF Holds, n
    <2>3. /\ i - n \in 1..Len(Tail(s)) /\ Tail(s)[i - n] \in Rights
          /\ j - n \in 1..Len(Tail(s)) /\ Tail(s)[j - n] \in Rights
      BY <1>3, <2>1, <2>2
    <2>4. (i - n) + 1 = (j - n) + 1
      BY <1>4, <1>10, <2>3 DEF Unique
    <2> QED
      BY <1>1, <2>1, <2>4
  <1>11. ASSUME Unique(p), ~Holds(Tail(s)) PROVE Unique(r)
    BY <1>3, <1>11 DEF Holds, Unique, n
  <1>12. p # <<>> => r # <<>> /\ Head(r) = Head(p)
    BY <1>1, <1>2 DEF n
  <1> QED
    BY <1>2, <1>5, <1>6, <1>7, <1>8, <1>9, <1>10, <1>11, <1>12 DEF r

\* The calls that an action makes: none, one, two or three.
LEMMA NoCall ==
    <<>> \in Seq(S!Places) /\ ~Holds(<<>>) /\ Unique(<<>>) /\ \A x : ~Has(<<>>, x)
  BY DEF Holds, Unique, Has

LEMMA OneCall ==
    ASSUME NEW a \in S!Places
    PROVE  /\ <<a>> \in Seq(S!Places) /\ <<a>> # <<>> /\ Head(<<a>>) = a
           /\ \A x : Has(<<a>>, x) <=> x = a
           /\ Holds(<<a>>) <=> a \in Rights
           /\ Unique(<<a>>)
  <1>1. <<a>> \in Seq(S!Places) /\ Len(<<a>>) = 1 /\ <<a>>[1] = a /\ 1..1 = {1}
    OBVIOUS
  <1>2. <<a>> # <<>> /\ Head(<<a>>) = a
    OBVIOUS
  <1> QED
    BY <1>1, <1>2 DEF Has, Holds, Unique

LEMMA TwoCalls ==
    ASSUME NEW a \in S!Places, NEW b \in S!Places
    PROVE  /\ <<a, b>> \in Seq(S!Places) /\ <<a, b>> # <<>> /\ Head(<<a, b>>) = a
           /\ \A x : Has(<<a, b>>, x) <=> x = a \/ x = b
           /\ Holds(<<a, b>>) <=> a \in Rights \/ b \in Rights
           /\ a \notin Rights => Unique(<<a, b>>)
  <1>1. /\ <<a, b>> \in Seq(S!Places) /\ Len(<<a, b>>) = 2 /\ 1..2 = {1, 2}
        /\ <<a, b>>[1] = a /\ <<a, b>>[2] = b
    OBVIOUS
  <1>2. <<a, b>> # <<>> /\ Head(<<a, b>>) = a
    OBVIOUS
  <1> QED
    BY <1>1, <1>2 DEF Has, Holds, Unique

LEMMA ThreeCalls ==
    ASSUME NEW a \in S!Places, NEW b \in S!Places, NEW c \in S!Places
    PROVE  /\ <<a, b, c>> \in Seq(S!Places)
           /\ \A x : Has(<<a, b, c>>, x) <=> x = a \/ x = b \/ x = c
           /\ Holds(<<a, b, c>>) <=> a \in Rights \/ b \in Rights \/ c \in Rights
  <1>1. /\ <<a, b, c>> \in Seq(S!Places) /\ Len(<<a, b, c>>) = 3 /\ 1..3 = {1, 2, 3}
        /\ <<a, b, c>>[1] = a /\ <<a, b, c>>[2] = b /\ <<a, b, c>>[3] = c
    OBVIOUS
  <1> QED
    BY <1>1 DEF Has, Holds

-----------------------------------------------------------------------------
(* The closing of a channel: the inductive invariant.                       *)

Closing == {"close", "close:set", "close:peer", "close:call"}

Calls(x) == \E t \in S!Threads : Has(stack[t], x)

StackTypes ==
    /\ stack \in [S!Threads -> Seq(S!Places)]
    /\ m_close \in BOOLEAN /\ m_closeListener \in BOOLEAN /\ bound \in BOOLEAN
    /\ socket \in BOOLEAN /\ dropped \in BOOLEAN
    /\ told \in {0, 1}

\* There is one right to tell: with a call, with the channel's place in the map, or used
\* up, by telling or by dropping the channel.
RightInv ==
    /\ \A t \in S!Threads : Unique(stack[t]) /\ (Holds(stack[t]) => ~bound /\ told = 0)
    /\ \A t, u \in S!Threads : Holds(stack[t]) /\ Holds(stack[u]) => t = u
    /\ bound => told = 0
    /\ bound \/ told = 1 \/ dropped \/ \E t \in S!Threads : Holds(stack[t])

\* The owner, in add or in a close before it.
Opening(s) ==
    \/ Len(s) = 1 /\ s[1] = "add"
    \/ Len(s) = 2 /\ s[1] \in Closing /\ s[2] = "add"

\* Until add, the owner is alone.
AloneInv ==
    \A t \in S!Threads : Has(stack[t], "add") =>
        /\ t = Owner /\ ~m_closeListener /\ Opening(stack[t])
        /\ \A u \in S!Threads : u # t => stack[u] = <<>>

\* A closed channel that is in the map will be removed ...
RemovalInv ==
    /\ bound => m_closeListener \/ Calls("remove")
    /\ bound /\ m_close => Calls("remove") \/ Calls("close:peer") \/ Calls("close:call")

\* ... and its socket closed.
SocketInv == m_close /\ socket => Calls("close:peer")

\* Who is about to tell, or to drop the channel, closes it first.
GuardInv ==
    /\ \A t \in S!Threads :
          ~m_close /\ (Has(stack[t], "remove:fire") \/ (bound /\ Has(stack[t], "closeMap"))) =>
              Head(stack[t]) \in {"close", "close:set"}
    /\ told = 1 \/ dropped => m_close

CloseInv ==
    StackTypes /\ RightInv /\ AloneInv /\ RemovalInv /\ SocketInv /\ GuardInv

LEMMA OpeningMoves ==
    ASSUME NEW s \in Seq(S!Places), Opening(s), Head(s) # "add",
           NEW p \in Seq(S!Places), ~Has(p, "add"),
           Head(s) \in Closing => p = <<>> \/ \E y \in Closing : p = <<y>>
    PROVE  Opening(p \o Tail(s)) /\ Head(s) \in Closing
  <1>1. Len(s) = 2 /\ s[1] \in Closing /\ s[2] = "add" /\ Head(s) = s[1]
    BY DEF Opening
  <1> DEFINE r == Tail(s)
  <1>2. r \in Seq(S!Places) /\ Len(r) = 1 /\ r[1] = "add"
    <2>1. s # <<>>
      BY <1>1
    <2>2. r \in Seq(S!Places) /\ Len(r) = Len(s) - 1 /\ \A i \in 1..(Len(s) - 1) : r[i] = s[i + 1]
      BY <2>1
    <2>3. 1 \in 1..(Len(s) - 1) /\ Len(s) - 1 = 1 /\ 1 + 1 = 2
      BY <1>1
    <2> QED
      BY <1>1, <2>2, <2>3
  <1> HIDE DEF r
  <1> DEFINE q == p \o r
  <1>3. /\ Len(q) = Len(p) + 1
        /\ \A i \in 1..(Len(p) + 1) : q[i] = IF i <= Len(p) THEN p[i] ELSE r[i - Len(p)]
    BY <1>2, ConcatProperties
  <1> HIDE DEF q
  <1>4. ASSUME p = <<>> PROVE Opening(q)
    BY <1>2, <1>3, <1>4 DEF Opening
  <1>5. ASSUME NEW y \in Closing, p = <<y>> PROVE Opening(q)
    <2>1. Len(p) = 1 /\ p[1] \in Closing
      BY <1>5
    <2>2. Len(q) = 2 /\ q[1] = p[1] /\ q[2] = r[1]
      BY <1>3, <2>1
    <2> QED
      BY <1>2, <2>1, <2>2 DEF Opening
  <1>6. Opening(q)
    <2>1. p = <<>> \/ \E y \in Closing : p = <<y>>
      BY <1>1
    <2> QED
      BY <1>4, <1>5, <2>1, Zenon
  <1> QED
    BY <1>1, <1>6 DEF q, r

\* A thread whose innermost call is x goes on to the calls p.
LEMMA StackMoves ==
    ASSUME StackTypes, NEW t \in S!Threads, NEW x, S!At(t, x), NEW p \in Seq(S!Places),
           S!GoTo(t, p)
    PROVE  /\ stack' \in [S!Threads -> Seq(S!Places)]
           /\ \A u \in S!Threads : u # t => stack'[u] = stack[u]
           /\ stack'[t] = p \o Tail(stack[t]) /\ stack[t] # <<>> /\ Head(stack[t]) = x
           /\ \A y : Has(stack[t], y) <=> y = x \/ Has(Tail(stack[t]), y)
           /\ \A y : Has(stack'[t], y) <=> Has(p, y) \/ Has(Tail(stack[t]), y)
           /\ Holds(stack[t]) <=> x \in Rights \/ Holds(Tail(stack[t]))
           /\ Holds(stack'[t]) <=> Holds(p) \/ Holds(Tail(stack[t]))
           /\ Unique(stack[t]) => /\ ~(x \in Rights /\ Holds(Tail(stack[t])))
                                  /\ ~Holds(p) => Unique(stack'[t])
           /\ Unique(p) /\ ~Holds(Tail(stack[t])) => Unique(stack'[t])
           /\ p # <<>> => stack'[t] # <<>> /\ Head(stack'[t]) = Head(p)
           /\ \A y : y # x /\ Calls(y) => Calls(y)'
           /\ \A y : Has(p, y) => Calls(y)'
  <1> DEFINE s == stack[t]
  <1>1. s \in Seq(S!Places) /\ s # <<>> /\ Head(s) = x
    BY DEF StackTypes, S!At
  <1>2. stack' = [stack EXCEPT ![t] = p \o Tail(s)] /\ stack \in [S!Threads -> Seq(S!Places)]
    BY DEF StackTypes, S!GoTo
  <1>3. /\ p \o Tail(s) \in Seq(S!Places)
        /\ \A y : Has(s, y) <=> y = Head(s) \/ Has(Tail(s), y)
        /\ \A y : Has(p \o Tail(s), y) <=> Has(p, y) \/ Has(Tail(s), y)
        /\ Holds(s) <=> Head(s) \in Rights \/ Holds(Tail(s))
        /\ Holds(p \o Tail(s)) <=> Holds(p) \/ Holds(Tail(s))
        /\ Unique(s) => /\ ~(Head(s) \in Rights /\ Holds(Tail(s)))
                        /\ ~Holds(p) => Unique(p \o Tail(s))
        /\ Unique(p) /\ ~Holds(Tail(s)) => Unique(p \o Tail(s))
        /\ p # <<>> => p \o Tail(s) # <<>> /\ Head(p \o Tail(s)) = Head(p)
    BY <1>1, Moved
  <1>4. /\ stack' \in [S!Threads -> Seq(S!Places)] /\ stack'[t] = p \o Tail(s)
        /\ \A u \in S!Threads : u # t => stack'[u] = stack[u]
    BY <1>2, <1>3
  <1>5. \A y : Has(stack'[t], y) <=> Has(p, y) \/ Has(Tail(s), y)
    BY <1>3, <1>4
  <1>6. ASSUME NEW y, y # x, Calls(y) PROVE Calls(y)'
    <2>1. PICK u \in S!Threads : Has(stack[u], y)
      BY <1>6 DEF Calls
    <2>2. CASE u = t
      <3>1. Has(stack'[t], y)
        BY <1>1, <1>3, <1>5, <1>6, <2>1, <2>2
      <3> QED
        BY <3>1 DEF Calls, Has
    <2>3. CASE u # t
      <3>1. stack'[u] = stack[u]
        BY <1>4, <2>3
      <3> QED
        BY <2>1, <3>1 DEF Calls, Has
    <2> QED
      BY <2>2, <2>3
  <1>7. ASSUME NEW y, Has(p, y) PROVE Calls(y)'
    <2>1. Has(stack'[t], y)
      BY <1>5, <1>7
    <2> QED
      BY <2>1 DEF Calls, Has
  <1> HIDE DEF s
  <1>8. /\ Holds(stack'[t]) <=> Holds(p) \/ Holds(Tail(s))
        /\ Holds(s) <=> x \in Rights \/ Holds(Tail(s))
        /\ Unique(s) => /\ ~(x \in Rights /\ Holds(Tail(s)))
                        /\ ~Holds(p) => Unique(stack'[t])
        /\ Unique(p) /\ ~Holds(Tail(s)) => Unique(stack'[t])
        /\ p # <<>> => stack'[t] # <<>> /\ Head(stack'[t]) = Head(p)
        /\ \A y : Has(s, y) <=> y = x \/ Has(Tail(s), y)
    BY <1>1, <1>3, <1>4
  <1> QED
    BY <1>1, <1>4, <1>5, <1>6, <1>7, <1>8 DEF s

\* A step that neither closes the channel nor touches the right to tell.
LEMMA QuietMove ==
    ASSUME CloseInv, NEW t \in S!Threads, NEW x, S!At(t, x), NEW p \in Seq(S!Places),
           S!GoTo(t, p), x \notin Rights, ~Holds(p),
           UNCHANGED <<m_close, m_closeListener, bound, told, dropped>>,
           \/ socket' = socket /\ x # "close:peer"
           \/ socket' = FALSE,
           x = "remove" => ~bound,
           x = "close:peer" => Has(p, "close:call"),
           x = "close:call" /\ m_closeListener => Has(p, "remove"),
           ~m_close /\ x \in {"close", "close:set"} => p # <<>> /\ Head(p) \in {"close", "close:set"},
           bound /\ Has(p, "closeMap") => p # <<>> /\ Head(p) = "close",
           x \in Closing /\ ~m_closeListener => p = <<>> \/ \E y \in Closing : p = <<y>>
    PROVE  CloseInv'
  <1>0. /\ StackTypes /\ RightInv /\ AloneInv /\ RemovalInv /\ SocketInv /\ GuardInv
    BY DEF CloseInv
  <1>1. /\ stack' \in [S!Threads -> Seq(S!Places)]
        /\ \A u \in S!Threads : u # t => stack'[u] = stack[u]
        /\ stack'[t] = p \o Tail(stack[t]) /\ stack[t] # <<>> /\ Head(stack[t]) = x
    BY <1>0, StackMoves
  <1>2. /\ \A y : Has(stack[t], y) <=> y = x \/ Has(Tail(stack[t]), y)
        /\ \A y : Has(stack'[t], y) <=> Has(p, y) \/ Has(Tail(stack[t]), y)
    BY <1>0, StackMoves
  <1>3. Holds(stack'[t]) <=> Holds(stack[t])
    BY <1>0, StackMoves
  <1>4. Unique(stack[t]) => Unique(stack'[t])
    BY <1>0, StackMoves
  <1>5. p # <<>> => stack'[t] # <<>> /\ Head(stack'[t]) = Head(p)
    BY <1>0, StackMoves
  <1>6. /\ \A y : y # x /\ Calls(y) => Calls(y)'
        /\ \A y : Has(p, y) => Calls(y)'
    BY <1>0, StackMoves
  <1>7. StackTypes'
    BY <1>0, <1>1 DEF StackTypes
  <1>8. RightInv'
    <2>1. \A u \in S!Threads : /\ Holds(stack'[u]) <=> Holds(stack[u])
                               /\ Unique(stack[u]) => Unique(stack'[u])
      BY <1>1, <1>3, <1>4
    <2>2. \A u \in S!Threads : Unique(stack'[u]) /\ (Holds(stack'[u]) => ~bound' /\ told' = 0)
      BY <1>0, <2>1 DEF RightInv
    <2>3. \A u, v \in S!Threads : Holds(stack'[u]) /\ Holds(stack'[v]) => u = v
      BY <1>0, <2>1 DEF RightInv
    <2>4. bound' \/ told' = 1 \/ dropped' \/ \E u \in S!Threads : Holds(stack'[u])
      BY <1>0, <2>1 DEF RightInv
    <2>5. bound' => told' = 0
      BY <1>0 DEF RightInv
    <2> QED
      BY <2>2, <2>3, <2>4, <2>5 DEF RightInv, Holds, Unique
  <1>9. AloneInv'
    <2>1. SUFFICES ASSUME NEW u \in S!Threads, Has(stack'[u], "add")
                   PROVE  /\ u = Owner /\ ~m_closeListener' /\ Opening(stack'[u])
                          /\ \A v \in S!Threads : v # u => stack'[v] = <<>>
      BY DEF AloneInv, Has, Opening
    <2>2. ~Has(p, "add")
      BY DEF Has, Holds, Rights
    <2>3. Has(stack[u], "add")
      BY <1>1, <1>2, <2>1, <2>2
    <2>4. /\ u = Owner /\ ~m_closeListener /\ Opening(stack[u])
          /\ \A v \in S!Threads : v # u => stack[v] = <<>>
      BY <1>0, <2>3 DEF AloneInv
    <2>5. u = t
      BY <1>1, <2>4
    <2>6. stack[t] \in Seq(S!Places) /\ x # "add"
      BY <1>0 DEF StackTypes, Rights
    <2>7. Opening(p \o Tail(stack[t]))
      BY <1>1, <2>2, <2>4, <2>5, <2>6, OpeningMoves
    <2> QED
      BY <1>1, <2>4, <2>5, <2>7
  <1>10. RemovalInv'
    <2>1. bound => m_closeListener \/ (x # "remove" /\ Calls("remove"))
      BY <1>0 DEF RemovalInv
    <2>2. bound => m_closeListener \/ Calls("remove")'
      BY <1>6, <2>1
    <2>3. bound /\ m_close => Calls("remove")' \/ Calls("close:peer")' \/ Calls("close:call")'
      <3>1. SUFFICES ASSUME bound, m_close
                     PROVE  Calls("remove")' \/ Calls("close:peer")' \/ Calls("close:call")'
        OBVIOUS
      <3>2. CASE x = "close:peer"
        BY <1>6, <3>2
      <3>3. CASE x = "close:call" /\ m_closeListener
        BY <1>6, <3>3
      <3>4. CASE x = "close:call" /\ ~m_closeListener
        BY <2>2, <3>1, <3>4
      <3>5. CASE x \notin {"close:peer", "close:call"}
        BY <1>0, <1>6, <3>1, <3>5 DEF RemovalInv
      <3> QED
        BY <3>2, <3>3, <3>4, <3>5
    <2> QED
      BY <2>2, <2>3 DEF RemovalInv
  <1>11. SocketInv'
    BY <1>0, <1>6 DEF SocketInv
  <1>12. GuardInv'
    <2>1. SUFFICES ASSUME NEW u \in S!Threads, ~m_close,
                          Has(stack'[u], "remove:fire") \/ (bound /\ Has(stack'[u], "closeMap"))
                   PROVE  Head(stack'[u]) \in {"close", "close:set"}
      BY <1>0 DEF GuardInv, Has
    <2>2. CASE u # t
      BY <1>0, <1>1, <2>1, <2>2 DEF GuardInv
    <2>3. CASE u = t /\ bound /\ Has(p, "closeMap")
      BY <1>5, <2>3
    <2>4. CASE u = t /\ ~(bound /\ Has(p, "closeMap"))
      <3>1. ~Has(p, "remove:fire")
        BY DEF Has, Holds, Rights
      <3>2. Has(stack[t], "remove:fire") \/ (bound /\ Has(stack[t], "closeMap"))
        BY <1>2, <2>1, <2>4, <3>1
      <3>3. x \in {"close", "close:set"}
        BY <1>0, <1>1, <2>1, <3>2 DEF GuardInv
      <3> QED
        BY <1>5, <2>1, <2>4, <3>3
    <2> QED
      BY <2>2, <2>3, <2>4
  <1> QED
    BY <1>7, <1>8, <1>9, <1>10, <1>11, <1>12 DEF CloseInv

\* A thread that has its call to make is in no other.
IdleInv == \A t \in S!Threads : t \in todo /\ t # Owner => stack[t] = <<>>

\* The call a thread makes is the first on its stack.
LEMMA CallMade ==
    ASSUME NEW t \in S!Threads, S!Call(t)
    PROVE  \E x \in {"close", "send", "remove", "closeAll"} :
              /\ stack' = [stack EXCEPT ![t] = <<x>>]
              /\ t \in todo /\ stack[Owner] = <<>> /\ todo' = todo \ {t}
              /\ UNCHANGED <<lock, m_close, m_closeListener, bound, socket, told, dropped>>
  <1> DEFINE v == CASE t \in Closers  -> <<"close">>
                    [] t \in Senders  -> <<"send">>
                    [] t \in Removers -> <<"remove">>
                    [] OTHER          -> <<"closeAll">>
  <1>1. v \in {<<"close">>, <<"send">>, <<"remove">>, <<"closeAll">>}
    OBVIOUS
  <1>2. /\ stack' = [stack EXCEPT ![t] = v]
        /\ t \in todo /\ stack[Owner] = <<>> /\ todo' = todo \ {t}
        /\ UNCHANGED <<lock, m_close, m_closeListener, bound, socket, told, dropped>>
    BY DEF S!Call
  <1> HIDE DEF v
  <1> QED
    BY <1>1, <1>2

-----------------------------------------------------------------------------
(* The locks of the channel and of its manager                             *)

\* The calls in progress that hold lock l.
Held(l) == IF l = "channel" THEN {"sendSync", "unlock"}
                            ELSE {"remove:channel", "remove:fire", "release", "closeMap"}

Weight(x, l) == IF x \in Held(l) THEN 1 ELSE 0

\* How many of them are in stack s.
Depth(s, l) == Cardinality({i \in 1..Len(s) : s[i] \in Held(l)})

\* The thread that has a lock has it as often as its calls have taken it, the others have
\* not taken it.
LockInv ==
    /\ lock \in [S!Locks -> [owner : S!Threads, depth : Nat]]
    /\ todo \subseteq S!Others
    /\ \A l \in S!Locks : \A t \in S!Threads :
          Depth(stack[t], l) = IF lock[l].owner = t THEN lock[l].depth ELSE 0

\* The locks of two lists of calls add up.
LEMMA DepthOfConcat ==
    ASSUME NEW p \in Seq(S!Places), NEW r \in Seq(S!Places), NEW l
    PROVE  /\ Depth(p, l) \in Nat /\ Depth(r, l) \in Nat
           /\ Depth(p \o r, l) = Depth(p, l) + Depth(r, l)
  <1> DEFINE n == Len(p)
             m == Len(r)
             q == p \o r
             P == {i \in 1..n : p[i] \in Held(l)}
             R == {i \in 1..m : r[i] \in Held(l)}
             Q == {i \in 1..Len(q) : q[i] \in Held(l)}
             T == {i \in (n + 1)..(n + m) : i - n \in R}
             f == [i \in R |-> n + i]
  <1>1. /\ n \in Nat /\ m \in Nat /\ Len(q) = n + m
        /\ \A i \in 1..(n + m) : q[i] = IF i <= n THEN p[i] ELSE r[i - n]
    BY ConcatProperties
  <1>2. IsFiniteSet(P) /\ IsFiniteSet(R) /\ IsFiniteSet(T)
    <2>1. IsFiniteSet(1..n) /\ IsFiniteSet(1..m) /\ IsFiniteSet((n + 1)..(n + m))
      BY <1>1, FS_Interval
    <2> QED
      BY <2>1, FS_Subset
  <1>3. Q = P \cup T /\ P \cap T = {}
    BY <1>1
  <1>4. f \in Bijection(R, T)
    <2>1. f \in [R -> T] /\ \A i, j \in R : f[i] = f[j] => i = j
      BY <1>1
    <2>2. \A j \in T : \E i \in R : f[i] = j
      <3>1. SUFFICES ASSUME NEW j \in T PROVE \E i \in R : f[i] = j
        OBVIOUS
      <3>2. j - n \in R /\ f[j - n] = j
        BY <1>1, <3>1
      <3> QED
        BY <3>2
    <2> QED
      BY <2>1, <2>2, Fun_IsBij
  <1>5. Cardinality(T) = Cardinality(R)
    <2>1. ExistsBijection(R, T)
      BY <1>4 DEF ExistsBijection
    <2> QED
      BY <1>2, <2>1, FS_Bijection
  <1>6. Cardinality(P) \in Nat /\ Cardinality(R) \in Nat
    BY <1>2, FS_CardinalityType
  <1> HIDE DEF P, R, Q, T, q, f
  <1>7. Cardinality(T) \in Nat
    BY <1>2, FS_CardinalityType
  <1>8. Cardinality(Q) = Cardinality(P) + Cardinality(T)
    <2>1. Cardinality(P \cup T) = Cardinality(P) + Cardinality(T) - Cardinality(P \cap T)
      BY <1>2, FS_Union
    <2>2. Cardinality(P \cap T) = 0
      BY <1>3, FS_EmptySet
    <2> QED
      BY <1>3, <1>6, <1>7, <2>1, <2>2
  <1> QED
    BY <1>5, <1>6, <1>8 DEF Depth, P, R, Q, q, n, m

\* The locks of none, one, two and three calls.
LEMMA DepthOfCalls ==
    /\ \A l : Depth(<<>>, l) = 0
    /\ \A a \in S!Places : \A l : Depth(<<a>>, l) = Weight(a, l)
    /\ \A a, b \in S!Places : \A l : Depth(<<a, b>>, l) = Weight(a, l) + Weight(b, l)
    /\ \A a, b, c \in S!Places : \A l :
          Depth(<<a, b, c>>, l) = Weight(a, l) + (Weight(b, l) + Weight(c, l))
  <1>1. ASSUME NEW l PROVE Depth(<<>>, l) = 0
    <2>1. {i \in 1..Len(<<>>) : <<>>[i] \in Held(l)} = {}
      OBVIOUS
    <2> QED
      BY <2>1, FS_EmptySet DEF Depth
  <1>2. ASSUME NEW a \in S!Places, NEW l PROVE Depth(<<a>>, l) = Weight(a, l)
    <2> DEFINE A == {i \in 1..Len(<<a>>) : <<a>>[i] \in Held(l)}
    <2>1. A = IF a \in Held(l) THEN {1} ELSE {}
      OBVIOUS
    <2>2. Depth(<<a>>, l) = Cardinality(A)
      BY DEF Depth
    <2> HIDE DEF A
    <2>3. Cardinality({1}) = 1 /\ Cardinality({}) = 0
      BY FS_EmptySet, FS_Singleton
    <2> QED
      BY <2>1, <2>2, <2>3 DEF Weight
  <1>3. ASSUME NEW a \in S!Places, NEW b \in S!Places, NEW l
        PROVE  Depth(<<a, b>>, l) = Weight(a, l) + Weight(b, l)
    <2>1. <<a>> \in Seq(S!Places) /\ <<b>> \in Seq(S!Places)
      BY OneCall
    <2>3. <<a, b>> = <<a>> \o <<b>>
      <3> DEFINE q == <<a>> \o <<b>>
      <3>1. q \in Seq(S!Places) /\ Len(q) = 2 /\ q[1] = a /\ q[2] = b
        BY <2>1, ConcatProperties
      <3>2. <<a, b>> \in Seq(S!Places) /\ Len(<<a, b>>) = 2 /\ <<a, b>>[1] = a /\ <<a, b>>[2] = b
        BY TwoCalls
      <3> HIDE DEF q
      <3>3. \A i \in 1..Len(q) : q[i] = <<a, b>>[i]
        BY <3>1, <3>2
      <3> QED
        BY <3>1, <3>2, <3>3, SeqEqual DEF q
    <2>2. Depth(<<a>> \o <<b>>, l) = Depth(<<a>>, l) + Depth(<<b>>, l)
      BY <2>1, DepthOfConcat
    <2> QED
      BY <1>2, <2>2, <2>3
  <1>4. ASSUME NEW a \in S!Places, NEW b \in S!Places, NEW c \in S!Places, NEW l
        PROVE  Depth(<<a, b, c>>, l) = Weight(a, l) + (Weight(b, l) + Weight(c, l))
    <2>1. /\ <<a>> \in Seq(S!Places) /\ <<b, c>> \in Seq(S!Places)
          /\ <<a, b, c>> = <<a>> \o <<b, c>>
      OBVIOUS
    <2>2. Depth(<<a>> \o <<b, c>>, l) = Depth(<<a>>, l) + Depth(<<b, c>>, l)
      BY <2>1, DepthOfConcat
    <2> QED
      BY <1>2, <1>3, <2>1, <2>2
  <1> QED
    BY <1>1, <1>2, <1>3, <1>4

\* A thread's call x goes on to the calls p, and gains and loses their locks.
LEMMA Recount ==
    ASSUME StackTypes, NEW t \in S!Threads, NEW x, S!At(t, x), NEW p \in Seq(S!Places),
           S!GoTo(t, p)
    PROVE  /\ \A u \in S!Threads : u # t => stack'[u] = stack[u]
           /\ \A l : /\ Depth(stack[t], l) \in Nat /\ Depth(stack'[t], l) \in Nat
                     /\ Depth(p, l) \in Nat
                     /\ Depth(stack'[t], l) + Weight(x, l) = Depth(stack[t], l) + Depth(p, l)
                     /\ Depth(stack[t], l) >= Weight(x, l)
  <1> DEFINE s == stack[t]
             r == Tail(s)
  <1>1. s \in Seq(S!Places) /\ s # <<>> /\ Head(s) = x
    BY DEF StackTypes, S!At
  <1>2. /\ r \in Seq(S!Places) /\ x \in S!Places /\ <<x>> \in Seq(S!Places)
        /\ s = <<x>> \o r
    BY <1>1
  <1>3. /\ stack'[t] = p \o r
        /\ \A u \in S!Threads : u # t => stack'[u] = stack[u]
    BY <1>1, StackMoves
  <1> HIDE DEF s, r
  <1>4. ASSUME NEW l
        PROVE  /\ Depth(s, l) \in Nat /\ Depth(p \o r, l) \in Nat /\ Depth(p, l) \in Nat
               /\ Depth(p \o r, l) + Weight(x, l) = Depth(s, l) + Depth(p, l)
               /\ Depth(s, l) >= Weight(x, l)
    <2>1. /\ Depth(r, l) \in Nat /\ Depth(p, l) \in Nat
          /\ Depth(p \o r, l) = Depth(p, l) + Depth(r, l)
      BY <1>2, DepthOfConcat
    <2>2. Depth(s, l) = Depth(<<x>>, l) + Depth(r, l)
      BY <1>2, DepthOfConcat
    <2>3. Depth(<<x>>, l) = Weight(x, l) /\ Weight(x, l) \in Nat
      BY <1>2, DepthOfCalls DEF Weight
    <2> QED
      BY <2>1, <2>2, <2>3
  <1> QED
    BY <1>3, <1>4 DEF s

\* A call goes on, with the locks that it had.
LEMMA KeepsLocks ==
    ASSUME StackTypes, LockInv, NEW t \in S!Threads, NEW x, S!At(t, x), NEW p \in Seq(S!Places),
           S!GoTo(t, p), lock' = lock, todo' = todo,
           \A l \in S!Locks : Depth(p, l) = Weight(x, l)
    PROVE  LockInv'
  <1>1. /\ \A u \in S!Threads : u # t => stack'[u] = stack[u]
        /\ \A l : /\ Depth(stack[t], l) \in Nat /\ Depth(stack'[t], l) \in Nat
                  /\ Depth(p, l) \in Nat
                  /\ Depth(stack'[t], l) + Weight(x, l) = Depth(stack[t], l) + Depth(p, l)
    BY Recount
  <1>2. \A l \in S!Locks : \A u \in S!Threads : Depth(stack'[u], l) = Depth(stack[u], l)
    <2>1. \A l \in S!Locks : Depth(stack'[t], l) = Depth(stack[t], l)
      BY <1>1
    <2> QED
      BY <1>1, <2>1
  <1>3. \A l \in S!Locks : \A u \in S!Threads :
            Depth(stack'[u], l) = IF lock'[l].owner = u THEN lock'[l].depth ELSE 0
    BY <1>2 DEF LockInv
  <1> QED
    BY <1>3 DEF LockInv, Depth

\* A call takes a lock, which is free or its thread has already.
LEMMA TakesLock ==
    ASSUME StackTypes, LockInv, NEW t \in S!Threads, NEW x, S!At(t, x), NEW p \in Seq(S!Places),
           S!GoTo(t, p), NEW k \in S!Locks, S!Free(k, t), lock' = S!Take(k, t), todo' = todo,
           \A l \in S!Locks : Depth(p, l) = Weight(x, l) + (IF l = k THEN 1 ELSE 0)
    PROVE  LockInv'
  <1>1. /\ \A u \in S!Threads : u # t => stack'[u] = stack[u]
        /\ \A l : /\ Depth(stack[t], l) \in Nat /\ Depth(stack'[t], l) \in Nat
                  /\ Depth(p, l) \in Nat
                  /\ Depth(stack'[t], l) + Weight(x, l) = Depth(stack[t], l) + Depth(p, l)
    BY Recount
  <1>2. \A l \in S!Locks : Depth(stack'[t], l) = Depth(stack[t], l) + (IF l = k THEN 1 ELSE 0)
    <2>1. SUFFICES ASSUME NEW l \in S!Locks
                   PROVE  Depth(stack'[t], l) = Depth(stack[t], l) + (IF l = k THEN 1 ELSE 0)
      OBVIOUS
    <2>2. Weight(x, l) \in Nat
      BY DEF Weight
    <2> QED
      BY <1>1, <2>2
  <1>3. /\ lock \in [S!Locks -> [owner : S!Threads, depth : Nat]]
        /\ lock' = [lock EXCEPT ![k] = [owner |-> t, depth |-> lock[k].depth + 1]]
        /\ lock[k].depth = 0 \/ lock[k].owner = t
    BY DEF LockInv, S!Take, S!Free
  <1>4. /\ lock' \in [S!Locks -> [owner : S!Threads, depth : Nat]]
        /\ lock'[k].owner = t /\ lock'[k].depth = lock[k].depth + 1
        /\ \A l \in S!Locks : l # k => lock'[l] = lock[l]
    BY <1>3
  <1>5. ASSUME NEW l \in S!Locks, NEW u \in S!Threads
        PROVE  Depth(stack'[u], l) = IF lock'[l].owner = u THEN lock'[l].depth ELSE 0
    <2>1. Depth(stack[u], l) = IF lock[l].owner = u THEN lock[l].depth ELSE 0
      BY DEF LockInv
    <2>2. CASE u = t
      BY <1>2, <1>3, <1>4, <2>1, <2>2
    <2>3. CASE u # t
      BY <1>1, <1>3, <1>4, <2>1, <2>3
    <2> QED
      BY <2>2, <2>3
  <1> QED
    BY <1>4, <1>5 DEF LockInv, Depth

\* A call drops the lock that it holds.
LEMMA DropsLock ==
    ASSUME StackTypes, LockInv, NEW t \in S!Threads, NEW x, S!At(t, x), NEW p \in Seq(S!Places),
           S!GoTo(t, p), NEW k \in S!Locks, lock' = S!Drop(k), todo' = todo,
           \A l \in S!Locks : Depth(p, l) = 0 /\ Weight(x, l) = IF l = k THEN 1 ELSE 0
    PROVE  LockInv'
  <1>1. /\ \A u \in S!Threads : u # t => stack'[u] = stack[u]
        /\ \A l : /\ Depth(stack[t], l) \in Nat /\ Depth(stack'[t], l) \in Nat
                  /\ Depth(p, l) \in Nat
                  /\ Depth(stack'[t], l) + Weight(x, l) = Depth(stack[t], l) + Depth(p, l)
                  /\ Depth(stack[t], l) >= Weight(x, l)
    BY Recount
  <1>2. /\ \A l \in S!Locks : Depth(stack'[t], l) = Depth(stack[t], l) - (IF l = k THEN 1 ELSE 0)
        /\ Depth(stack[t], k) \in Nat /\ Depth(stack[t], k) > 0
    BY <1>1
  <1>3. /\ lock \in [S!Locks -> [owner : S!Threads, depth : Nat]]
        /\ lock' = [lock EXCEPT ![k] = [lock[k] EXCEPT !.depth = lock[k].depth - 1]]
    BY DEF LockInv, S!Drop
  <1>4. lock[k].owner = t /\ lock[k].depth = Depth(stack[t], k)
    BY <1>2 DEF LockInv
  <1>5. lock[k].depth - 1 \in Nat
    BY <1>2, <1>4
  <1>6. /\ lock' \in [S!Locks -> [owner : S!Threads, depth : Nat]]
        /\ lock'[k].owner = t /\ lock'[k].depth = lock[k].depth - 1
        /\ \A l \in S!Locks : l # k => lock'[l] = lock[l]
    BY <1>3, <1>4, <1>5
  <1>7. ASSUME NEW l \in S!Locks, NEW u \in S!Threads
        PROVE  Depth(stack'[u], l) = IF lock'[l].owner = u THEN lock'[l].depth ELSE 0
    <2>1. Depth(stack[u], l) = IF lock[l].owner = u THEN lock[l].depth ELSE 0
      BY DEF LockInv
    <2>2. CASE u = t
      BY <1>2, <1>4, <1>6, <2>1, <2>2
    <2>3. CASE u # t
      BY <1>1, <1>4, <1>6, <2>1, <2>3
    <2> QED
      BY <2>2, <2>3
  <1> QED
    BY <1>6, <1>7 DEF LockInv, Depth

\* What each call holds.
LEMMA Weights ==
    \A l \in S!Locks :
              /\ Weight("close", l) = 0
              /\ Weight("close:set", l) = 0
              /\ Weight("close:peer", l) = 0
              /\ Weight("close:call", l) = 0
              /\ Weight("send", l) = 0
              /\ Weight("sendSync", l) = IF l = "channel" THEN 1 ELSE 0
              /\ Weight("unlock", l) = IF l = "channel" THEN 1 ELSE 0
              /\ Weight("add", l) = 0
              /\ Weight("remove", l) = 0
              /\ Weight("remove:channel", l) = IF l = "manager" THEN 1 ELSE 0
              /\ Weight("remove:fire", l) = IF l = "manager" THEN 1 ELSE 0
              /\ Weight("release", l) = IF l = "manager" THEN 1 ELSE 0
              /\ Weight("closeAll", l) = 0
              /\ Weight("closeMap", l) = IF l = "manager" THEN 1 ELSE 0
  BY DEF S!Locks, Weight, Held

\* The calls that the actions make.
LEMMA DepthOfLists ==
    /\ <<>> \in Seq(S!Places)
    /\ \A l : Depth(<<>>, l) = 0
    /\ <<"close:set">> \in Seq(S!Places)
    /\ \A l : Depth(<<"close:set">>, l) = Weight("close:set", l)
    /\ <<"close:peer">> \in Seq(S!Places)
    /\ \A l : Depth(<<"close:peer">>, l) = Weight("close:peer", l)
    /\ <<"close:call">> \in Seq(S!Places)
    /\ \A l : Depth(<<"close:call">>, l) = Weight("close:call", l)
    /\ <<"remove">> \in Seq(S!Places)
    /\ \A l : Depth(<<"remove">>, l) = Weight("remove", l)
    /\ <<"sendSync">> \in Seq(S!Places)
    /\ \A l : Depth(<<"sendSync">>, l) = Weight("sendSync", l)
    /\ <<"unlock">> \in Seq(S!Places)
    /\ \A l : Depth(<<"unlock">>, l) = Weight("unlock", l)
    /\ <<"close", "close", "unlock">> \in Seq(S!Places)
    /\ \A l : Depth(<<"close", "close", "unlock">>, l) =
              Weight("close", l) + (Weight("close", l) + Weight("unlock", l))
    /\ <<"remove", "release">> \in Seq(S!Places)
    /\ \A l : Depth(<<"remove", "release">>, l) = Weight("remove", l) + Weight("release", l)
    /\ <<"remove:channel">> \in Seq(S!Places)
    /\ \A l : Depth(<<"remove:channel">>, l) = Weight("remove:channel", l)
    /\ <<"close", "remove:fire">> \in Seq(S!Places)
    /\ \A l : Depth(<<"close", "remove:fire">>, l) = Weight("close", l) + Weight("remove:fire", l)
    /\ <<"close", "closeMap">> \in Seq(S!Places)
    /\ \A l : Depth(<<"close", "closeMap">>, l) = Weight("close", l) + Weight("closeMap", l)
    /\ <<"closeMap">> \in Seq(S!Places)
    /\ \A l : Depth(<<"closeMap">>, l) = Weight("closeMap", l)
    /\ <<"close">> \in Seq(S!Places)
    /\ \A l : Depth(<<"close">>, l) = Weight("close", l)
    /\ <<"send">> \in Seq(S!Places)
    /\ \A l : Depth(<<"send">>, l) = Weight("send", l)
    /\ <<"closeAll">> \in Seq(S!Places)
    /\ \A l : Depth(<<"closeAll">>, l) = Weight("closeAll", l)
  <1>1. /\ "close" \in S!Places
        /\ "close:set" \in S!Places
        /\ "close:peer" \in S!Places
        /\ "close:call" \in S!Places
        /\ "send" \in S!Places
        /\ "sendSync" \in S!Places
        /\ "unlock" \in S!Places
        /\ "add" \in S!Places
        /\ "remove" \in S!Places
        /\ "remove:channel" \in S!Places
        /\ "remove:fire" \in S!Places
        /\ "release" \in S!Places
        /\ "closeAll" \in S!Places
        /\ "closeMap" \in S!Places
    BY DEF S!Places
  <1>2. <<>> \in Seq(S!Places) /\ \A l : Depth(<<>>, l) = 0
    BY NoCall, DepthOfCalls
  <1>3. ASSUME NEW a \in S!Places
        PROVE  <<a>> \in Seq(S!Places) /\ \A l : Depth(<<a>>, l) = Weight(a, l)
    BY OneCall, DepthOfCalls
  <1>4. ASSUME NEW a \in S!Places, NEW b \in S!Places
        PROVE  /\ <<a, b>> \in Seq(S!Places)
               /\ \A l : Depth(<<a, b>>, l) = Weight(a, l) + Weight(b, l)
    BY TwoCalls, DepthOfCalls
  <1>5. ASSUME NEW a \in S!Places, NEW b \in S!Places, NEW c \in S!Places
        PROVE  /\ <<a, b, c>> \in Seq(S!Places)
               /\ \A l : Depth(<<a, b, c>>, l) = Weight(a, l) + (Weight(b, l) + Weight(c, l))
    BY ThreeCalls, DepthOfCalls
  <1> QED
    BY <1>1, <1>2, <1>3, <1>4, <1>5

\* Calls that take no lock and drop none, that take one, and that drop one.
LEMMA StepLocks ==
    ASSUME StackTypes, LockInv, NEW t \in S!Threads, S!Step(t)
    PROVE  LockInv'
  <1>0. /\ "channel" \in S!Locks /\ "manager" \in S!Locks
        /\ \A l \in S!Locks : l = "channel" \/ l = "manager"
    BY DEF S!Locks
  <1>1. ASSUME S!CloseTest(t) PROVE LockInv'
    <2> DEFINE p == IF m_close THEN <<>> ELSE <<"close:set">>
    <2>1. /\ S!At(t, "close") /\ S!GoTo(t, p) /\ todo' = todo
          /\ lock' = lock
      BY <1>1 DEF S!CloseTest, S!Return
    <2>2. p \in Seq(S!Places) /\ \A l \in S!Locks : Depth(p, l) = Weight("close", l)
      BY DepthOfLists, Weights
    <2> QED
      BY <2>1, <2>2, KeepsLocks
  <1>2. ASSUME S!CloseSet(t) PROVE LockInv'
    <2> DEFINE p == <<"close:peer">>
    <2>1. /\ S!At(t, "close:set") /\ S!GoTo(t, p) /\ todo' = todo
          /\ lock' = lock
      BY <1>2 DEF S!CloseSet, S!Return
    <2>2. p \in Seq(S!Places) /\ \A l \in S!Locks : Depth(p, l) = Weight("close:set", l)
      BY DepthOfLists, Weights
    <2> QED
      BY <2>1, <2>2, KeepsLocks
  <1>3. ASSUME S!ClosePeer(t) PROVE LockInv'
    <2> DEFINE p == <<"close:call">>
    <2>1. /\ S!At(t, "close:peer") /\ S!GoTo(t, p) /\ todo' = todo
          /\ lock' = lock
      BY <1>3 DEF S!ClosePeer, S!Return
    <2>2. p \in Seq(S!Places) /\ \A l \in S!Locks : Depth(p, l) = Weight("close:peer", l)
      BY DepthOfLists, Weights
    <2> QED
      BY <2>1, <2>2, KeepsLocks
  <1>4. ASSUME S!CloseCall(t) PROVE LockInv'
    <2> DEFINE p == IF m_closeListener THEN <<"remove">> ELSE <<>>
    <2>1. /\ S!At(t, "close:call") /\ S!GoTo(t, p) /\ todo' = todo
          /\ lock' = lock
      BY <1>4 DEF S!CloseCall, S!Return
    <2>2. p \in Seq(S!Places) /\ \A l \in S!Locks : Depth(p, l) = Weight("close:call", l)
      BY DepthOfLists, Weights
    <2> QED
      BY <2>1, <2>2, KeepsLocks
  <1>5. ASSUME S!Send(t) PROVE LockInv'
    <2>1. CASE m_close
      <3> DEFINE p == <<>>
      <3>1. /\ S!At(t, "send") /\ S!GoTo(t, p) /\ todo' = todo
            /\ lock' = lock
        BY <1>5, <2>1 DEF S!Send, S!Return
      <3>2. p \in Seq(S!Places) /\ \A l \in S!Locks : Depth(p, l) = Weight("send", l)
        BY DepthOfLists, Weights
      <3> QED
        BY <3>1, <3>2, KeepsLocks
    <2>2. CASE ~m_close
      <3> DEFINE p == <<"sendSync">>
      <3>1. /\ S!At(t, "send") /\ S!GoTo(t, p) /\ todo' = todo
            /\ S!Free("channel", t) /\ lock' = S!Take("channel", t)
        BY <1>5, <2>2 DEF S!Send, S!Return
      <3>2. /\ p \in Seq(S!Places)
            /\ \A l \in S!Locks : Depth(p, l) = Weight("send", l) + (IF l = "channel" THEN 1 ELSE 0)
        BY DepthOfLists, Weights
      <3> QED
        BY <1>0, <3>1, <3>2, TakesLock
    <2> QED
      BY <2>1, <2>2
  <1>6. ASSUME S!SendSync(t) PROVE LockInv'
    <2>1. PICK p \in {<<"unlock">>, <<"close", "close", "unlock">>} :
              S!At(t, "sendSync") /\ S!GoTo(t, p) /\ todo' = todo /\ lock' = lock
      BY <1>6 DEF S!SendSync
    <2>2. p \in Seq(S!Places) /\ \A l \in S!Locks : Depth(p, l) = Weight("sendSync", l)
      <3>1. CASE p = <<"unlock">>
        BY <3>1, DepthOfLists, Weights
      <3>2. CASE p = <<"close", "close", "unlock">>
        BY <3>2, DepthOfLists, Weights
      <3> QED
        BY <2>1, <3>1, <3>2
    <2> QED
      BY <2>1, <2>2, KeepsLocks
  <1>7. ASSUME S!Unlock(t) PROVE LockInv'
    <2> DEFINE p == <<>>
    <2>1. /\ S!At(t, "unlock") /\ S!GoTo(t, p) /\ todo' = todo
          /\ lock' = S!Drop("channel")
      BY <1>7 DEF S!Unlock, S!Return
    <2>2. /\ p \in Seq(S!Places)
          /\ \A l \in S!Locks : /\ Depth(p, l) = 0
                                /\ Weight("unlock", l) = IF l = "channel" THEN 1 ELSE 0
      BY DepthOfLists, Weights
    <2> QED
      BY <1>0, <2>1, <2>2, DropsLock
  <1>8. ASSUME S!Add(t) PROVE LockInv'
    <2>1. CASE m_close
      <3> DEFINE p == <<"remove", "release">>
      <3>1. /\ S!At(t, "add") /\ S!GoTo(t, p) /\ todo' = todo
            /\ S!Free("manager", t) /\ lock' = S!Take("manager", t)
        BY <1>8, <2>1 DEF S!Add, S!Return
      <3>2. /\ p \in Seq(S!Places)
            /\ \A l \in S!Locks : Depth(p, l) = Weight("add", l) + (IF l = "manager" THEN 1 ELSE 0)
        BY DepthOfLists, Weights
      <3> QED
        BY <1>0, <3>1, <3>2, TakesLock
    <2>2. CASE ~m_close
      <3> DEFINE p == <<>>
      <3>1. /\ S!At(t, "add") /\ S!GoTo(t, p) /\ todo' = todo
            /\ lock' = lock
        BY <1>8, <2>2 DEF S!Add, S!Return
      <3>2. p \in Seq(S!Places) /\ \A l \in S!Locks : Depth(p, l) = Weight("add", l)
        BY DepthOfLists, Weights
      <3> QED
        BY <3>1, <3>2, KeepsLocks
    <2> QED
      BY <2>1, <2>2
  <1>9. ASSUME S!Remove(t) PROVE LockInv'
    <2>1. CASE bound
      <3> DEFINE p == <<"remove:channel">>
      <3>1. /\ S!At(t, "remove") /\ S!GoTo(t, p) /\ todo' = todo
            /\ S!Free("manager", t) /\ lock' = S!Take("manager", t)
        BY <1>9, <2>1 DEF S!Remove, S!Return
      <3>2. /\ p \in Seq(S!Places)
            /\ \A l \in S!Locks : Depth(p, l) = Weight("remove", l) + (IF l = "manager" THEN 1 ELSE 0)
        BY DepthOfLists, Weights
      <3> QED
        BY <1>0, <3>1, <3>2, TakesLock
    <2>2. CASE ~bound
      <3> DEFINE p == <<>>
      <3>1. /\ S!At(t, "remove") /\ S!GoTo(t, p) /\ todo' = todo
            /\ lock' = lock
        BY <1>9, <2>2 DEF S!Remove, S!Return
      <3>2. p \in Seq(S!Places) /\ \A l \in S!Locks : Depth(p, l) = Weight("remove", l)
        BY DepthOfLists, Weights
      <3> QED
        BY <3>1, <3>2, KeepsLocks
    <2> QED
      BY <2>1, <2>2
  <1>10. ASSUME S!RemoveChannel(t) PROVE LockInv'
    <2> DEFINE p == <<"close", "remove:fire">>
    <2>1. /\ S!At(t, "remove:channel") /\ S!GoTo(t, p) /\ todo' = todo
          /\ lock' = lock
      BY <1>10 DEF S!RemoveChannel, S!Return
    <2>2. p \in Seq(S!Places) /\ \A l \in S!Locks : Depth(p, l) = Weight("remove:channel", l)
      BY DepthOfLists, Weights
    <2> QED
      BY <2>1, <2>2, KeepsLocks
  <1>11. ASSUME S!RemoveFire(t) PROVE LockInv'
    <2> DEFINE p == <<>>
    <2>1. /\ S!At(t, "remove:fire") /\ S!GoTo(t, p) /\ todo' = todo
          /\ lock' = S!Drop("manager")
      BY <1>11 DEF S!RemoveFire, S!Return
    <2>2. /\ p \in Seq(S!Places)
          /\ \A l \in S!Locks : /\ Depth(p, l) = 0
                                /\ Weight("remove:fire", l) = IF l = "manager" THEN 1 ELSE 0
      BY DepthOfLists, Weights
    <2> QED
      BY <1>0, <2>1, <2>2, DropsLock
  <1>12. ASSUME S!Release(t) PROVE LockInv'
    <2> DEFINE p == <<>>
    <2>1. /\ S!At(t, "release") /\ S!GoTo(t, p) /\ todo' = todo
          /\ lock' = S!Drop("manager")
      BY <1>12 DEF S!Release, S!Return
    <2>2. /\ p \in Seq(S!Places)
          /\ \A l \in S!Locks : /\ Depth(p, l) = 0
                                /\ Weight("release", l) = IF l = "manager" THEN 1 ELSE 0
      BY DepthOfLists, Weights
    <2> QED
      BY <1>0, <2>1, <2>2, DropsLock
  <1>13. ASSUME S!CloseAll(t) PROVE LockInv'
    <2> DEFINE p == IF bound THEN <<"close", "closeMap">> ELSE <<"closeMap">>
    <2>1. /\ S!At(t, "closeAll") /\ S!GoTo(t, p) /\ todo' = todo
          /\ S!Free("manager", t) /\ lock' = S!Take("manager", t)
      BY <1>13 DEF S!CloseAll, S!Return
    <2>2. /\ p \in Seq(S!Places)
          /\ \A l \in S!Locks : Depth(p, l) = Weight("closeAll", l) + (IF l = "manager" THEN 1 ELSE 0)
      BY DepthOfLists, Weights
    <2> QED
      BY <1>0, <2>1, <2>2, TakesLock
  <1>14. ASSUME S!CloseMap(t) PROVE LockInv'
    <2> DEFINE p == <<>>
    <2>1. /\ S!At(t, "closeMap") /\ S!GoTo(t, p) /\ todo' = todo
          /\ lock' = S!Drop("manager")
      BY <1>14 DEF S!CloseMap, S!Return
    <2>2. /\ p \in Seq(S!Places)
          /\ \A l \in S!Locks : /\ Depth(p, l) = 0
                                /\ Weight("closeMap", l) = IF l = "manager" THEN 1 ELSE 0
      BY DepthOfLists, Weights
    <2> QED
      BY <1>0, <2>1, <2>2, DropsLock
  <1> QED
    BY <1>1, <1>2, <1>3, <1>4, <1>5, <1>6, <1>7,
       <1>8, <1>9, <1>10, <1>11, <1>12, <1>13, <1>14
    DEF S!Step

\* A thread makes its call, which holds nothing yet.
LEMMA CallLocks ==
    ASSUME StackTypes, LockInv, IdleInv, NEW t \in S!Threads, S!Call(t)
    PROVE  LockInv'
  <1>1. PICK x \in {"close", "send", "remove", "closeAll"} :
            /\ stack' = [stack EXCEPT ![t] = <<x>>]
            /\ t \in todo /\ stack[Owner] = <<>> /\ todo' = todo \ {t}
            /\ lock' = lock
    BY CallMade
  <1>2. stack[t] = <<>>
    BY <1>1 DEF IdleInv
  <1>3. stack'[t] = <<x>> /\ \A u \in S!Threads : u # t => stack'[u] = stack[u]
    BY <1>1 DEF StackTypes
  <1>4. \A l \in S!Locks : Depth(stack'[t], l) = Depth(stack[t], l)
    <2>1. \A l \in S!Locks : Depth(<<x>>, l) = 0 /\ Depth(<<>>, l) = 0
      BY <1>1, DepthOfLists, Weights
    <2> QED
      BY <1>2, <1>3, <2>1
  <1>5. \A l \in S!Locks : \A u \in S!Threads :
            Depth(stack'[u], l) = IF lock'[l].owner = u THEN lock'[l].depth ELSE 0
    BY <1>1, <1>3, <1>4 DEF LockInv
  <1> QED
    BY <1>1, <1>5 DEF LockInv, Depth

-----------------------------------------------------------------------------
(* The steps.                                                               *)

LEMMA CloseTestKeeps ==
    ASSUME CloseInv, NEW t \in S!Threads, S!CloseTest(t)
    PROVE  CloseInv'
  <1> DEFINE p == IF m_close THEN <<>> ELSE <<"close:set">>
  <1>1. /\ S!At(t, "close") /\ S!GoTo(t, p) /\ socket' = socket
        /\ UNCHANGED <<m_close, m_closeListener, bound, told, dropped>>
    BY DEF S!CloseTest
  <1>2. p \in Seq(S!Places) /\ ~Holds(p) /\ ~Has(p, "closeMap")
    BY NoCall, OneCall DEF S!Places, Rights
  <1>3. ~m_close => p # <<>> /\ Head(p) \in {"close", "close:set"}
    BY OneCall DEF S!Places
  <1>4. p = <<>> \/ \E y \in Closing : p = <<y>>
    BY DEF Closing
  <1> HIDE DEF p
  <1>5. "close" \notin Rights
    BY DEF Rights
  <1> QED
    BY <1>1, <1>2, <1>5, <1>3, <1>4, QuietMove

LEMMA ClosePeerKeeps ==
    ASSUME CloseInv, NEW t \in S!Threads, S!ClosePeer(t)
    PROVE  CloseInv'
  <1> DEFINE p == <<"close:call">>
  <1>1. /\ S!At(t, "close:peer") /\ S!GoTo(t, p) /\ socket' = FALSE
        /\ UNCHANGED <<m_close, m_closeListener, bound, told, dropped>>
    BY DEF S!ClosePeer
  <1>2. p \in Seq(S!Places) /\ ~Holds(p) /\ ~Has(p, "closeMap") /\ Has(p, "close:call")
    BY OneCall DEF S!Places, Rights
  <1>3. \E y \in Closing : p = <<y>>
    BY DEF Closing
  <1> HIDE DEF p
  <1>5. "close:peer" \notin Rights
    BY DEF Rights
  <1> QED
    BY <1>1, <1>2, <1>5, <1>3, QuietMove

LEMMA CloseCallKeeps ==
    ASSUME CloseInv, NEW t \in S!Threads, S!CloseCall(t)
    PROVE  CloseInv'
  <1> DEFINE p == IF m_closeListener THEN <<"remove">> ELSE <<>>
  <1>1. /\ S!At(t, "close:call") /\ S!GoTo(t, p) /\ socket' = socket
        /\ UNCHANGED <<m_close, m_closeListener, bound, told, dropped>>
    BY DEF S!CloseCall
  <1>2. /\ p \in Seq(S!Places) /\ ~Holds(p) /\ ~Has(p, "closeMap")
        /\ m_closeListener => Has(p, "remove")
        /\ ~m_closeListener => p = <<>>
    BY NoCall, OneCall DEF S!Places, Rights
  <1> HIDE DEF p
  <1>5. "close:call" \notin Rights
    BY DEF Rights
  <1> QED
    BY <1>1, <1>2, <1>5, QuietMove

LEMMA SendKeeps ==
    ASSUME CloseInv, NEW t \in S!Threads, S!Send(t)
    PROVE  CloseInv'
  <1> DEFINE p == IF m_close THEN <<>> ELSE <<"sendSync">>
  <1>1. /\ S!At(t, "send") /\ S!GoTo(t, p) /\ socket' = socket
        /\ UNCHANGED <<m_close, m_closeListener, bound, told, dropped>>
    BY DEF S!Send, S!Return
  <1>2. p \in Seq(S!Places) /\ ~Holds(p) /\ ~Has(p, "closeMap")
    BY NoCall, OneCall DEF S!Places, Rights
  <1> HIDE DEF p
  <1>5. "send" \notin Rights /\ "send" \notin Closing
    BY DEF Rights, Closing
  <1> QED
    BY <1>1, <1>2, <1>5, QuietMove

LEMMA SendSyncKeeps ==
    ASSUME CloseInv, NEW t \in S!Threads, S!SendSync(t)
    PROVE  CloseInv'
  <1>1. PICK p \in {<<"unlock">>, <<"close", "close", "unlock">>} :
        /\ S!At(t, "sendSync") /\ S!GoTo(t, p) /\ socket' = socket
        /\ UNCHANGED <<m_close, m_closeListener, bound, told, dropped>>
    BY DEF S!SendSync
  <1>2. p \in Seq(S!Places) /\ ~Holds(p) /\ ~Has(p, "closeMap")
    <2>1. {"unlock", "close"} \subseteq S!Places
      BY DEF S!Places
    <2>2. CASE p = <<"unlock">>
      BY <2>1, <2>2, OneCall DEF Rights
    <2>3. CASE p = <<"close", "close", "unlock">>
      BY <2>1, <2>3, ThreeCalls DEF Rights
    <2> QED
      BY <2>2, <2>3
  <1>5. "sendSync" \notin Rights /\ "sendSync" \notin Closing
    BY DEF Rights, Closing
  <1> QED
    BY <1>1, <1>2, <1>5, QuietMove

LEMMA LeaveKeeps ==
    ASSUME CloseInv, NEW t \in S!Threads, S!Unlock(t) \/ S!Release(t) \/ (S!Remove(t) /\ ~bound)
    PROVE  CloseInv'
  <1> DEFINE p == <<>>
  <1>1. PICK x \in {"unlock", "release", "remove"} :
            S!At(t, x) /\ S!GoTo(t, p) /\ (x = "remove" => ~bound)
    BY DEF S!Unlock, S!Release, S!Remove, S!Return
  <1>2. socket' = socket /\ UNCHANGED <<m_close, m_closeListener, bound, told, dropped>>
    BY DEF S!Unlock, S!Release, S!Remove
  <1>3. p \in Seq(S!Places) /\ ~Holds(p) /\ ~Has(p, "closeMap")
    BY NoCall
  <1> HIDE DEF p
  <1>5. /\ x \notin Rights /\ x \notin Closing /\ x # "close:peer" /\ x # "close:call"
        /\ x \notin {"close", "close:set"}
    BY <1>1 DEF Rights, Closing
  <1> QED
    BY <1>1, <1>2, <1>3, <1>5, QuietMove

LEMMA CloseAllKeeps ==
    ASSUME CloseInv, NEW t \in S!Threads, S!CloseAll(t)
    PROVE  CloseInv'
  <1> DEFINE p == IF bound THEN <<"close", "closeMap">> ELSE <<"closeMap">>
  <1>1. /\ S!At(t, "closeAll") /\ S!GoTo(t, p) /\ socket' = socket
        /\ UNCHANGED <<m_close, m_closeListener, bound, told, dropped>>
    BY DEF S!CloseAll
  <1>2. p \in Seq(S!Places) /\ ~Holds(p) /\ (bound => p # <<>> /\ Head(p) = "close")
    <2>1. {"close", "closeMap"} \subseteq S!Places
      BY DEF S!Places
    <2> QED
      BY <2>1, OneCall, TwoCalls DEF Rights
  <1> HIDE DEF p
  <1>5. "closeAll" \notin Rights /\ "closeAll" \notin Closing
    BY DEF Rights, Closing
  <1> QED
    BY <1>1, <1>2, <1>5, QuietMove

-----------------------------------------------------------------------------
\* The channel is closed: the thread that does it is on its way to the listener.
LEMMA CloseSetKeeps ==
    ASSUME CloseInv, NEW t \in S!Threads, S!CloseSet(t)
    PROVE  CloseInv'
  <1> DEFINE p == <<"close:peer">>
  <1>0. StackTypes /\ RightInv /\ AloneInv /\ RemovalInv /\ SocketInv /\ GuardInv
    BY DEF CloseInv
  <1>1. /\ S!At(t, "close:set") /\ S!GoTo(t, p) /\ m_close' = TRUE
        /\ UNCHANGED <<m_closeListener, bound, socket, told, dropped>>
    BY DEF S!CloseSet
  <1>2. /\ p \in Seq(S!Places) /\ ~Holds(p) /\ ~Has(p, "add") /\ Has(p, "close:peer")
        /\ \E y \in Closing : p = <<y>>
    BY OneCall DEF S!Places, Rights, Closing
  <1> HIDE DEF p
  <1>3. /\ stack' \in [S!Threads -> Seq(S!Places)]
        /\ \A u \in S!Threads : u # t => stack'[u] = stack[u]
        /\ stack'[t] = p \o Tail(stack[t]) /\ stack[t] # <<>> /\ Head(stack[t]) = "close:set"
    BY <1>0, <1>1, <1>2, StackMoves
  <1>4. \A y : Has(stack'[t], y) => Has(p, y) \/ Has(stack[t], y)
    BY <1>0, <1>1, <1>2, StackMoves
  <1>5. (Holds(stack'[t]) <=> Holds(stack[t])) /\ (Unique(stack[t]) => Unique(stack'[t]))
    <2>1. "close:set" \notin Rights
      BY DEF Rights
    <2> QED
      BY <1>0, <1>1, <1>2, <2>1, StackMoves
  <1>6. Calls("close:peer")' /\ (Calls("remove") => Calls("remove")')
    BY <1>0, <1>1, <1>2, StackMoves
  <1>7. StackTypes'
    BY <1>0, <1>1, <1>3 DEF StackTypes
  <1>8. RightInv'
    <2>1. \A u \in S!Threads : /\ Holds(stack'[u]) <=> Holds(stack[u])
                               /\ Unique(stack[u]) => Unique(stack'[u])
      BY <1>3, <1>5
    <2>2. \A u \in S!Threads : Unique(stack'[u]) /\ (Holds(stack'[u]) => ~bound' /\ told' = 0)
      BY <1>0, <1>1, <2>1 DEF RightInv
    <2>3. \A u, v \in S!Threads : Holds(stack'[u]) /\ Holds(stack'[v]) => u = v
      BY <1>0, <2>1 DEF RightInv
    <2>4. bound' \/ told' = 1 \/ dropped' \/ \E u \in S!Threads : Holds(stack'[u])
      BY <1>0, <1>1, <2>1 DEF RightInv
    <2>5. bound' => told' = 0
      BY <1>0, <1>1 DEF RightInv
    <2> QED
      BY <2>2, <2>3, <2>4, <2>5 DEF RightInv, Holds, Unique
  <1>9. AloneInv'
    <2>1. SUFFICES ASSUME NEW u \in S!Threads, Has(stack'[u], "add")
                   PROVE  /\ u = Owner /\ ~m_closeListener' /\ Opening(stack'[u])
                          /\ \A v \in S!Threads : v # u => stack'[v] = <<>>
      BY DEF AloneInv, Has, Opening
    <2>2. Has(stack[u], "add")
      BY <1>2, <1>3, <1>4, <2>1
    <2>3. /\ u = Owner /\ ~m_closeListener /\ Opening(stack[u])
          /\ \A v \in S!Threads : v # u => stack[v] = <<>>
      BY <1>0, <2>2 DEF AloneInv
    <2>4. u = t /\ stack[t] \in Seq(S!Places)
      BY <1>0, <1>3, <2>3 DEF StackTypes
    <2>5. Opening(p \o Tail(stack[t]))
      BY <1>2, <1>3, <2>3, <2>4, OpeningMoves
    <2> QED
      BY <1>1, <1>3, <2>3, <2>4, <2>5
  <1>10. RemovalInv' /\ SocketInv'
    BY <1>0, <1>1, <1>6 DEF RemovalInv, SocketInv
  <1>11. GuardInv'
    BY <1>1 DEF GuardInv
  <1> QED
    BY <1>7, <1>8, <1>9, <1>10, <1>11 DEF CloseInv

\* The right passes from the map to the one thread whose unbind succeeds.
LEMMA RemoveKeeps ==
    ASSUME CloseInv, NEW t \in S!Threads, S!Remove(t), bound
    PROVE  CloseInv'
  <1> DEFINE p == <<"remove:channel">>
  <1>0. StackTypes /\ RightInv /\ AloneInv /\ RemovalInv /\ SocketInv /\ GuardInv
    BY DEF CloseInv
  <1>1. /\ S!At(t, "remove") /\ S!GoTo(t, p) /\ bound' = FALSE
        /\ UNCHANGED <<m_close, m_closeListener, socket, told, dropped>>
    BY DEF S!Remove
  <1>2. /\ p \in Seq(S!Places) /\ Holds(p) /\ Unique(p) /\ ~Has(p, "add")
        /\ ~Has(p, "remove:fire")
    BY OneCall DEF S!Places, Rights
  <1> HIDE DEF p
  <1>a. \A u \in S!Threads : ~Holds(stack[u])
    BY <1>0 DEF RightInv
  <1>3. /\ stack' \in [S!Threads -> Seq(S!Places)]
        /\ \A u \in S!Threads : u # t => stack'[u] = stack[u]
        /\ stack[t] # <<>> /\ Head(stack[t]) = "remove"
    BY <1>0, <1>1, <1>2, StackMoves
  <1>4. \A y : Has(stack'[t], y) => Has(p, y) \/ Has(stack[t], y)
    BY <1>0, <1>1, <1>2, StackMoves
  <1>5. Holds(stack'[t]) /\ Unique(stack'[t])
    BY <1>0, <1>1, <1>2, <1>a, StackMoves
  <1>6. Calls("close:peer") => Calls("close:peer")'
    BY <1>0, <1>1, <1>2, StackMoves
  <1>b. \A u \in S!Threads : ~Has(stack[u], "add") /\ ~Has(stack[u], "remove:fire")
    BY <1>a DEF Has, Holds, Rights
  <1>7. StackTypes'
    BY <1>0, <1>1, <1>3 DEF StackTypes
  <1>8. RightInv'
    <2>1. \A u \in S!Threads : Holds(stack'[u]) <=> u = t
      BY <1>3, <1>5, <1>a
    <2>2. \A u \in S!Threads : Unique(stack'[u])
      BY <1>0, <1>3, <1>5 DEF RightInv
    <2>3. told' = 0 /\ ~bound'
      BY <1>0, <1>1 DEF RightInv
    <2>4. \A u \in S!Threads : Unique(stack'[u]) /\ (Holds(stack'[u]) => ~bound' /\ told' = 0)
      BY <2>2, <2>3
    <2>5. \A u, v \in S!Threads : Holds(stack'[u]) /\ Holds(stack'[v]) => u = v
      BY <2>1
    <2>6. \E u \in S!Threads : Holds(stack'[u])
      BY <2>1
    <2> QED
      BY <2>3, <2>4, <2>5, <2>6 DEF RightInv, Holds, Unique
  <1>9. \A u \in S!Threads : ~Has(stack'[u], "add") /\ ~Has(stack'[u], "remove:fire")
    BY <1>2, <1>3, <1>4, <1>b
  <1>10. AloneInv'
    BY <1>9 DEF AloneInv, Has
  <1>11. RemovalInv' /\ SocketInv'
    BY <1>0, <1>1, <1>6 DEF RemovalInv, SocketInv
  <1>12. GuardInv'
    BY <1>0, <1>1, <1>9 DEF GuardInv, Has
  <1> QED
    BY <1>7, <1>8, <1>10, <1>11, <1>12 DEF CloseInv

\* The thread with the right closes the channel first ...
LEMMA RemoveChannelKeeps ==
    ASSUME CloseInv, NEW t \in S!Threads, S!RemoveChannel(t)
    PROVE  CloseInv'
  <1> DEFINE p == <<"close", "remove:fire">>
  <1>0. StackTypes /\ RightInv /\ AloneInv /\ RemovalInv /\ SocketInv /\ GuardInv
    BY DEF CloseInv
  <1>1. /\ S!At(t, "remove:channel") /\ S!GoTo(t, p)
        /\ UNCHANGED <<m_close, m_closeListener, bound, socket, told, dropped>>
    BY DEF S!RemoveChannel
  <1>2. /\ p \in Seq(S!Places) /\ Holds(p) /\ Unique(p) /\ ~Has(p, "add")
        /\ p # <<>> /\ Head(p) = "close"
    <2>1. "close" \in S!Places /\ "remove:fire" \in S!Places
      BY DEF S!Places
    <2> QED
      BY <2>1, TwoCalls DEF Rights
  <1> HIDE DEF p
  <1>3. /\ stack' \in [S!Threads -> Seq(S!Places)]
        /\ \A u \in S!Threads : u # t => stack'[u] = stack[u]
        /\ Head(stack'[t]) = "close"
    BY <1>0, <1>1, <1>2, StackMoves
  <1>4. \A y : Has(stack'[t], y) => Has(p, y) \/ Has(stack[t], y)
    BY <1>0, <1>1, <1>2, StackMoves
  <1>5. Holds(stack[t]) /\ Holds(stack'[t]) /\ Unique(stack'[t])
    <2>1. Unique(stack[t])
      BY <1>0 DEF RightInv
    <2> QED
      BY <1>0, <1>1, <1>2, <2>1, StackMoves DEF Rights
  <1>6. /\ Calls("close:peer") => Calls("close:peer")'
        /\ Calls("close:call") => Calls("close:call")'
        /\ Calls("remove") => Calls("remove")'
    BY <1>0, <1>1, <1>2, StackMoves
  <1>7. StackTypes'
    BY <1>0, <1>1, <1>3 DEF StackTypes
  <1>8. RightInv'
    <2>1. \A u \in S!Threads : (Holds(stack'[u]) <=> Holds(stack[u])) /\ Unique(stack'[u])
      BY <1>0, <1>3, <1>5 DEF RightInv
    <2>2. \A u \in S!Threads : Unique(stack'[u]) /\ (Holds(stack'[u]) => ~bound' /\ told' = 0)
      BY <1>0, <1>1, <2>1 DEF RightInv
    <2>3. \A u, v \in S!Threads : Holds(stack'[u]) /\ Holds(stack'[v]) => u = v
      BY <1>0, <2>1 DEF RightInv
    <2>4. \E u \in S!Threads : Holds(stack'[u])
      BY <1>5
    <2>5. bound' => told' = 0
      BY <1>0, <1>1 DEF RightInv
    <2> QED
      BY <2>2, <2>3, <2>4, <2>5 DEF RightInv, Holds, Unique
  <1>9. AloneInv'
    <2>1. ASSUME NEW u \in S!Threads PROVE ~Has(stack'[u], "add")
      <3>1. ~Has(stack[t], "add")
        <4>1. SUFFICES ASSUME Has(stack[t], "add") PROVE FALSE
          OBVIOUS
        <4>2. Opening(stack[t]) /\ stack[t] \in Seq(S!Places)
          BY <1>0, <4>1 DEF AloneInv, StackTypes
        <4>3. stack[t] # <<>> /\ Head(stack[t]) = "remove:channel"
          BY <1>0, <1>1, <1>2, StackMoves
        <4> QED
          BY <4>2, <4>3 DEF Opening, Closing
      <3>2. u # t => ~Has(stack[u], "add")
        BY <1>0, <1>5 DEF RightInv, Has, Holds, Rights
      <3> QED
        BY <1>2, <1>3, <1>4, <3>1, <3>2
    <2> QED
      BY <2>1 DEF AloneInv, Has
  <1>10. RemovalInv' /\ SocketInv'
    BY <1>0, <1>1, <1>6 DEF RemovalInv, SocketInv
  <1>11. GuardInv'
    <2>1. ASSUME NEW u \in S!Threads, ~m_close,
                 Has(stack'[u], "remove:fire") \/ (bound /\ Has(stack'[u], "closeMap"))
          PROVE  Head(stack'[u]) \in {"close", "close:set"}
      BY <1>0, <1>3, <2>1 DEF GuardInv
    <2> QED
      BY <1>0, <1>1, <2>1 DEF GuardInv, Has
  <1> QED
    BY <1>7, <1>8, <1>9, <1>10, <1>11 DEF CloseInv

\* ... and then tells.
LEMMA RemoveFireKeeps ==
    ASSUME CloseInv, NEW t \in S!Threads, S!RemoveFire(t)
    PROVE  CloseInv'
  <1> DEFINE p == <<>>
  <1>0. StackTypes /\ RightInv /\ AloneInv /\ RemovalInv /\ SocketInv /\ GuardInv
    BY DEF CloseInv
  <1>1. /\ S!At(t, "remove:fire") /\ S!GoTo(t, p) /\ told' = told + 1
        /\ UNCHANGED <<m_close, m_closeListener, bound, socket, dropped>>
    BY DEF S!RemoveFire, S!Return
  <1>2. p \in Seq(S!Places) /\ ~Holds(p) /\ \A y : ~Has(p, y)
    BY NoCall
  <1> HIDE DEF p
  <1>3. /\ stack' \in [S!Threads -> Seq(S!Places)]
        /\ \A u \in S!Threads : u # t => stack'[u] = stack[u]
        /\ stack[t] # <<>> /\ Head(stack[t]) = "remove:fire"
        /\ Has(stack[t], "remove:fire")
    BY <1>0, <1>1, <1>2, StackMoves
  <1>a. Unique(stack[t])
    BY <1>0 DEF RightInv
  <1>4. Holds(stack[t]) /\ ~Holds(stack'[t]) /\ Unique(stack'[t])
    BY <1>0, <1>1, <1>2, <1>a, StackMoves DEF Rights
  <1>5. told = 0 /\ told' = 1 /\ ~bound /\ \A u \in S!Threads : ~Holds(stack'[u])
    BY <1>0, <1>1, <1>3, <1>4 DEF RightInv
  <1>6. Calls("close:peer") => Calls("close:peer")'
    BY <1>0, <1>1, <1>2, StackMoves
  <1>7. m_close
    BY <1>0, <1>3 DEF GuardInv, StackTypes
  <1>8. StackTypes'
    BY <1>0, <1>1, <1>3, <1>5 DEF StackTypes
  <1>9. RightInv'
    <2>1. \A u \in S!Threads : Unique(stack'[u]) /\ ~Holds(stack'[u])
      BY <1>0, <1>3, <1>4, <1>5 DEF RightInv
    <2> QED
      BY <1>1, <1>5, <2>1 DEF RightInv, Holds, Unique
  <1>10. AloneInv'
    <2>1. \A u \in S!Threads : ~Has(stack'[u], "add")
      BY <1>5 DEF Has, Holds, Rights
    <2> QED
      BY <2>1 DEF AloneInv, Has
  <1>11. RemovalInv' /\ SocketInv'
    BY <1>0, <1>1, <1>5, <1>6 DEF RemovalInv, SocketInv
  <1>12. GuardInv'
    BY <1>1, <1>7 DEF GuardInv
  <1> QED
    BY <1>8, <1>9, <1>10, <1>11, <1>12 DEF CloseInv

\* add: the channel is in the map, with its listener or with its removal under way.
LEMMA AddKeeps ==
    ASSUME CloseInv, NEW t \in S!Threads, S!Add(t)
    PROVE  CloseInv'
  <1> DEFINE p == IF m_close THEN <<"remove", "release">> ELSE <<>>
  <1>0. StackTypes /\ RightInv /\ AloneInv /\ RemovalInv /\ SocketInv /\ GuardInv
    BY DEF CloseInv
  <1>1. /\ S!At(t, "add") /\ S!GoTo(t, p) /\ bound' = TRUE
        /\ m_closeListener' = IF m_close THEN m_closeListener ELSE TRUE
        /\ UNCHANGED <<m_close, socket, told, dropped>>
    BY DEF S!Add, S!Return
  <1>2. /\ p \in Seq(S!Places) /\ ~Holds(p)
        /\ ~Has(p, "add") /\ ~Has(p, "remove:fire") /\ ~Has(p, "closeMap")
        /\ m_close => Has(p, "remove")
    <2>1. "remove" \in S!Places /\ "release" \in S!Places
      BY DEF S!Places
    <2> QED
      BY <2>1, NoCall, TwoCalls DEF Rights
  <1> HIDE DEF p
  <1>3. /\ stack' \in [S!Threads -> Seq(S!Places)]
        /\ \A u \in S!Threads : u # t => stack'[u] = stack[u]
        /\ stack'[t] = p \o Tail(stack[t]) /\ stack[t] # <<>> /\ Head(stack[t]) = "add"
        /\ Has(stack[t], "add")
    BY <1>0, <1>1, <1>2, StackMoves
  <1>4. Opening(stack[t]) /\ \A u \in S!Threads : u # t => stack[u] = <<>>
    BY <1>0, <1>3 DEF AloneInv
  <1>5. Tail(stack[t]) = <<>>
    <2>1. stack[t] \in Seq(S!Places)
      BY <1>0 DEF StackTypes
    <2>2. Len(stack[t]) = 1
      BY <1>3, <1>4, <2>1 DEF Opening, Closing
    <2>3. Tail(stack[t]) \in Seq(S!Places) /\ Len(Tail(stack[t])) = 0
      BY <1>3, <2>1, <2>2
    <2> QED
      BY <2>3, EmptySeq
  <1>6. \A y : Has(stack'[t], y) <=> Has(p, y)
    <2>1. \A y : Has(stack'[t], y) <=> Has(p, y) \/ Has(Tail(stack[t]), y)
      BY <1>0, <1>1, <1>2, StackMoves
    <2> QED
      BY <1>5, <2>1, NoCall
  <1>7. ~Holds(stack'[t]) /\ Unique(stack'[t])
    <2>1. ~Holds(Tail(stack[t])) /\ Unique(p)
      BY <1>2, <1>5, NoCall DEF Holds, Unique
    <2> QED
      BY <1>0, <1>1, <1>2, <2>1, StackMoves
  <1>8. /\ Calls("close:peer") => Calls("close:peer")'
        /\ m_close => Calls("remove")'
    BY <1>0, <1>1, <1>2, StackMoves
  <1>9. \A u \in S!Threads : u # t => ~Holds(stack'[u]) /\ \A y : ~Has(stack'[u], y)
    BY <1>3, <1>4, NoCall
  <1>10. told = 0
    <2>1. Holds(stack[t])
      BY <1>3 DEF Has, Holds, Rights
    <2> QED
      BY <1>0, <2>1 DEF RightInv
  <1>11. StackTypes'
    BY <1>0, <1>1, <1>3 DEF StackTypes
  <1>12. RightInv'
    <2>1. \A u \in S!Threads : Unique(stack'[u]) /\ ~Holds(stack'[u])
      BY <1>0, <1>3, <1>7, <1>9 DEF RightInv
    <2> QED
      BY <1>1, <1>10, <2>1 DEF RightInv, Holds, Unique
  <1>13. \A u \in S!Threads : /\ ~Has(stack'[u], "add") /\ ~Has(stack'[u], "remove:fire")
                              /\ ~Has(stack'[u], "closeMap")
    BY <1>2, <1>6, <1>9
  <1>14. AloneInv'
    BY <1>13 DEF AloneInv, Has
  <1>15. RemovalInv' /\ SocketInv'
    BY <1>0, <1>1, <1>8 DEF RemovalInv, SocketInv, StackTypes
  <1>16. GuardInv'
    BY <1>0, <1>1, <1>13 DEF GuardInv, Has
  <1> QED
    BY <1>11, <1>12, <1>14, <1>15, <1>16 DEF CloseInv

\* The map is closed: a channel that is still in it is closed, and is dropped.
LEMMA CloseMapKeeps ==
    ASSUME CloseInv, NEW t \in S!Threads, S!CloseMap(t)
    PROVE  CloseInv'
  <1> DEFINE p == <<>>
  <1>0. StackTypes /\ RightInv /\ AloneInv /\ RemovalInv /\ SocketInv /\ GuardInv
    BY DEF CloseInv
  <1>1. /\ S!At(t, "closeMap") /\ S!GoTo(t, p) /\ bound' = FALSE /\ dropped' = (dropped \/ bound)
        /\ UNCHANGED <<m_close, m_closeListener, socket, told>>
    BY DEF S!CloseMap, S!Return
  <1>2. p \in Seq(S!Places) /\ ~Holds(p) /\ \A y : ~Has(p, y)
    BY NoCall
  <1> HIDE DEF p
  <1>3. /\ stack' \in [S!Threads -> Seq(S!Places)]
        /\ \A u \in S!Threads : u # t => stack'[u] = stack[u]
        /\ stack[t] # <<>> /\ Head(stack[t]) = "closeMap" /\ Has(stack[t], "closeMap")
    BY <1>0, <1>1, <1>2, StackMoves
  <1>4. (Holds(stack'[t]) <=> Holds(stack[t])) /\ (Unique(stack[t]) => Unique(stack'[t]))
    <2>1. "closeMap" \notin Rights
      BY DEF Rights
    <2> QED
      BY <1>0, <1>1, <1>2, <2>1, StackMoves
  <1>5. \A y : Has(stack'[t], y) => Has(stack[t], y)
    BY <1>0, <1>1, <1>2, StackMoves
  <1>6. Calls("close:peer") => Calls("close:peer")'
    BY <1>0, <1>1, <1>2, StackMoves
  <1>7. /\ bound => m_close
        /\ ~m_close => ~Has(stack[t], "remove:fire")
    BY <1>0, <1>3 DEF GuardInv
  <1>8. StackTypes'
    BY <1>0, <1>1, <1>3 DEF StackTypes
  <1>9. RightInv'
    <2>1. \A u \in S!Threads : /\ Holds(stack'[u]) <=> Holds(stack[u])
                               /\ Unique(stack[u]) => Unique(stack'[u])
      BY <1>3, <1>4
    <2>2. \A u \in S!Threads : Unique(stack'[u]) /\ (Holds(stack'[u]) => ~bound' /\ told' = 0)
      BY <1>0, <1>1, <2>1 DEF RightInv
    <2>3. \A u, v \in S!Threads : Holds(stack'[u]) /\ Holds(stack'[v]) => u = v
      BY <1>0, <2>1 DEF RightInv
    <2>4. bound' \/ told' = 1 \/ dropped' \/ \E u \in S!Threads : Holds(stack'[u])
      BY <1>0, <1>1, <2>1 DEF RightInv
    <2> QED
      BY <1>1, <2>2, <2>3, <2>4 DEF RightInv, Holds, Unique
  <1>10. \A u \in S!Threads : ~Has(stack'[u], "add")
    <2>1. SUFFICES ASSUME NEW u \in S!Threads, Has(stack[u], "add") PROVE FALSE
      BY <1>3, <1>5
    <2>2. Opening(stack[u]) /\ \A v \in S!Threads : v # u => stack[v] = <<>>
      BY <1>0, <2>1 DEF AloneInv
    <2>3. u = t /\ stack[t] \in Seq(S!Places)
      BY <1>0, <1>3, <2>2 DEF StackTypes
    <2> QED
      BY <1>3, <2>2, <2>3 DEF Opening, Closing
  <1>11. AloneInv'
    BY <1>10 DEF AloneInv, Has
  <1>12. RemovalInv' /\ SocketInv'
    BY <1>0, <1>1, <1>6 DEF RemovalInv, SocketInv
  <1>13. GuardInv'
    <2>1. ASSUME NEW u \in S!Threads, ~m_close, Has(stack'[u], "remove:fire")
          PROVE  Head(stack'[u]) \in {"close", "close:set"}
      BY <1>0, <1>3, <1>5, <1>7, <2>1 DEF GuardInv
    <2>2. told' = 1 \/ dropped' => m_close'
      BY <1>0, <1>1, <1>7 DEF GuardInv
    <2> QED
      BY <1>1, <2>1, <2>2 DEF GuardInv, Has
  <1> QED
    BY <1>8, <1>9, <1>11, <1>12, <1>13 DEF CloseInv

\* A thread makes its call: it has no right to tell yet.
LEMMA CallKeeps ==
    ASSUME CloseInv, IdleInv, NEW t \in S!Threads, S!Call(t)
    PROVE  CloseInv' /\ IdleInv'
  <1>0. StackTypes /\ RightInv /\ AloneInv /\ RemovalInv /\ SocketInv /\ GuardInv
    BY DEF CloseInv
  <1>1. PICK x \in {"close", "send", "remove", "closeAll"} :
            /\ stack' = [stack EXCEPT ![t] = <<x>>]
            /\ t \in todo /\ stack[Owner] = <<>> /\ todo' = todo \ {t}
            /\ UNCHANGED <<m_close, m_closeListener, bound, socket, told, dropped>>
    BY CallMade
  <1>2. /\ <<x>> \in Seq(S!Places) /\ ~Holds(<<x>>) /\ Unique(<<x>>)
        /\ ~Has(<<x>>, "add") /\ ~Has(<<x>>, "remove:fire") /\ ~Has(<<x>>, "closeMap")
    <2>1. x \in S!Places /\ x \notin Rights /\ x \notin {"add", "remove:fire", "closeMap"}
      BY <1>1 DEF S!Places, Rights
    <2> QED
      BY <2>1, OneCall
  <1>3. /\ stack' \in [S!Threads -> Seq(S!Places)] /\ stack'[t] = <<x>>
        /\ \A u \in S!Threads : u # t => stack'[u] = stack[u]
        /\ stack[t] = <<>>
    BY <1>0, <1>1, <1>2 DEF StackTypes, IdleInv
  <1>4. ~Holds(stack[t]) /\ \A y : ~Has(stack[t], y)
    BY <1>3, NoCall
  <1>5. ASSUME NEW y, Calls(y) PROVE Calls(y)'
    <2>1. PICK u \in S!Threads : Has(stack[u], y)
      BY <1>5 DEF Calls
    <2>2. stack'[u] = stack[u]
      BY <1>3, <1>4, <2>1
    <2> QED
      BY <2>1, <2>2 DEF Calls, Has
  <1>6. StackTypes'
    BY <1>0, <1>1, <1>3 DEF StackTypes
  <1>7. RightInv'
    <2>1. \A u \in S!Threads : (Holds(stack'[u]) <=> Holds(stack[u])) /\ Unique(stack'[u])
      BY <1>0, <1>2, <1>3, <1>4 DEF RightInv
    <2>2. \A u \in S!Threads : Unique(stack'[u]) /\ (Holds(stack'[u]) => ~bound' /\ told' = 0)
      BY <1>0, <1>1, <2>1 DEF RightInv
    <2>3. \A u, v \in S!Threads : Holds(stack'[u]) /\ Holds(stack'[v]) => u = v
      BY <1>0, <2>1 DEF RightInv
    <2>4. bound' \/ told' = 1 \/ dropped' \/ \E u \in S!Threads : Holds(stack'[u])
      BY <1>0, <1>1, <2>1 DEF RightInv
    <2>5. bound' => told' = 0
      BY <1>0, <1>1 DEF RightInv
    <2> QED
      BY <2>2, <2>3, <2>4, <2>5 DEF RightInv, Holds, Unique
  <1>8. \A u \in S!Threads : ~Has(stack'[u], "add")
    <2>1. \A u \in S!Threads : ~Has(stack[u], "add")
      <3>1. SUFFICES ASSUME NEW u \in S!Threads, Has(stack[u], "add") PROVE FALSE
        OBVIOUS
      <3>2. u = Owner
        BY <1>0, <3>1 DEF AloneInv
      <3> QED
        BY <1>1, <3>1, <3>2, NoCall
    <2> QED
      BY <1>2, <1>3, <2>1
  <1>9. AloneInv'
    BY <1>8 DEF AloneInv, Has
  <1>10. RemovalInv' /\ SocketInv'
    BY <1>0, <1>1, <1>5 DEF RemovalInv, SocketInv
  <1>11. GuardInv'
    <2>1. ASSUME NEW u \in S!Threads, ~m_close,
                 Has(stack'[u], "remove:fire") \/ (bound /\ Has(stack'[u], "closeMap"))
          PROVE  Head(stack'[u]) \in {"close", "close:set"}
      <3>1. u # t
        BY <1>2, <1>3, <2>1
      <3> QED
        BY <1>0, <1>3, <2>1, <3>1 DEF GuardInv
    <2> QED
      BY <1>0, <1>1, <2>1 DEF GuardInv, Has
  <1>12. IdleInv'
    BY <1>1, <1>3 DEF IdleInv
  <1> QED
    BY <1>6, <1>7, <1>9, <1>10, <1>11, <1>12 DEF CloseInv

\* The owner is alone with the channel at first.
LEMMA CloseInitially == S!Init => CloseInv /\ IdleInv
  <1> SUFFICES ASSUME S!Init PROVE CloseInv /\ IdleInv
    OBVIOUS
  <1>1. /\ stack \in [S!Threads -> {<<>>, <<"add">>, <<"close", "add">>}]
        /\ \A t \in S!Threads : (t = Owner) <=> (stack[t] # <<>>)
        /\ m_close = FALSE /\ m_closeListener = FALSE /\ bound = FALSE /\ socket = TRUE
        /\ told = 0 /\ dropped = FALSE /\ Owner \in S!Threads
    BY DEF S!Init, S!Threads
  <1>2. "add" \in S!Places /\ "close" \in S!Places
    BY DEF S!Places
  <1> DEFINE one == <<"add">>
             two == <<"close", "add">>
  <1>3. /\ one \in Seq(S!Places) /\ one # <<>> /\ Holds(one) /\ Unique(one)
        /\ ~Has(one, "remove:fire") /\ ~Has(one, "closeMap")
    BY <1>2, OneCall DEF Rights
  <1>4. /\ two \in Seq(S!Places) /\ two # <<>> /\ Holds(two) /\ Unique(two)
        /\ ~Has(two, "remove:fire") /\ ~Has(two, "closeMap")
    BY <1>2, TwoCalls DEF Rights
  <1>5. Opening(one) /\ Opening(two)
    BY DEF Opening, Closing
  <1>6. stack \in [S!Threads -> {<<>>, one, two}]
    BY <1>1
  <1> HIDE DEF one, two
  <1>7. /\ stack[Owner] \in {one, two}
        /\ \A t \in S!Threads : t # Owner => stack[t] = <<>>
    BY <1>1, <1>6
  <1>8. StackTypes
    <2>1. stack \in [S!Threads -> Seq(S!Places)]
      BY <1>3, <1>4, <1>6, NoCall
    <2> QED
      BY <1>1, <2>1 DEF StackTypes
  <1>9. RightInv
    <2>1. /\ Holds(stack[Owner]) /\ Unique(stack[Owner])
          /\ \A t \in S!Threads : t # Owner => ~Holds(stack[t]) /\ Unique(stack[t])
      BY <1>3, <1>4, <1>7, NoCall
    <2> QED
      BY <1>1, <2>1 DEF RightInv
  <1>10. AloneInv
    BY <1>1, <1>5, <1>7, NoCall DEF AloneInv
  <1>11. RemovalInv /\ SocketInv
    BY <1>1 DEF RemovalInv, SocketInv
  <1>12. GuardInv
    <2>1. \A t \in S!Threads : ~Has(stack[t], "remove:fire") /\ ~Has(stack[t], "closeMap")
      BY <1>3, <1>4, <1>7, NoCall
    <2> QED
      BY <1>1, <2>1 DEF GuardInv
  <1>13. IdleInv
    BY <1>7 DEF IdleInv
  <1> QED
    BY <1>8, <1>9, <1>10, <1>11, <1>12, <1>13 DEF CloseInv

\* Every step of a call keeps who may tell.
LEMMA CloseInductive == CloseInv /\ IdleInv /\ [S!Next]_S!vars => CloseInv' /\ IdleInv'
  <1> SUFFICES ASSUME CloseInv, IdleInv, [S!Next]_S!vars PROVE CloseInv' /\ IdleInv'
    OBVIOUS
  <1>1. CASE UNCHANGED S!vars
    BY <1>1 DEF S!vars, CloseInv, StackTypes, RightInv, AloneInv, RemovalInv, SocketInv, GuardInv,
                IdleInv, Calls, Has, Holds, Unique, Opening
  <1>2. ASSUME NEW t \in S!Threads, S!Step(t) PROVE CloseInv' /\ IdleInv'
    <2>1. CloseInv'
      BY <1>2, CloseTestKeeps, CloseSetKeeps, ClosePeerKeeps, CloseCallKeeps, SendKeeps,
         SendSyncKeeps, LeaveKeeps, AddKeeps, RemoveKeeps, RemoveChannelKeeps, RemoveFireKeeps,
         CloseAllKeeps, CloseMapKeeps DEF S!Step
    <2>2. /\ stack[t] # <<>> /\ todo' = todo
          /\ \E p : stack' = [stack EXCEPT ![t] = p]
      BY <1>2 DEF S!Step, S!CloseTest, S!CloseSet, S!ClosePeer, S!CloseCall, S!Send, S!SendSync,
         S!Unlock, S!Add, S!Remove, S!RemoveChannel, S!RemoveFire, S!Release, S!CloseAll,
         S!CloseMap, S!At, S!GoTo, S!Return
    <2>3. stack \in [S!Threads -> Seq(S!Places)]
      BY DEF CloseInv, StackTypes
    <2> QED
      BY <2>1, <2>2, <2>3 DEF IdleInv
  <1>3. ASSUME NEW t \in S!Threads, S!Call(t) PROVE CloseInv' /\ IdleInv'
    BY <1>3, CallKeeps
  <1> QED
    BY <1>1, <1>2, <1>3 DEF S!Next

\* A channel on which nobody calls stays as it is.
LEMMA NobodyStays == Nobody /\ [S!Next]_S!vars => Nobody'
  <1> SUFFICES ASSUME Nobody, [S!Next]_S!vars PROVE Nobody'
    OBVIOUS
  <1>1. todo = {} /\ \A t \in S!Threads : stack[t] = <<>>
    BY DEF Nobody
  <1>2. ~S!Next
    BY <1>1 DEF S!Next, S!Call, S!Step, S!CloseTest, S!CloseSet, S!ClosePeer, S!CloseCall, S!Send,
       S!SendSync, S!Unlock, S!Add, S!Remove, S!RemoveChannel, S!RemoveFire, S!Release, S!CloseAll,
       S!CloseMap, S!At
  <1>3. UNCHANGED S!vars
    BY <1>2
  <1> QED
    BY <1>3 DEF Nobody, S!vars

\* Nobody has a lock at first.
LEMMA LockInitially == S!Init => LockInv
  <1> SUFFICES ASSUME S!Init PROVE LockInv
    OBVIOUS
  <1>1. /\ stack \in [S!Threads -> {<<>>, <<"add">>, <<"close", "add">>}]
        /\ todo = S!Others /\ Owner \in S!Threads
        /\ lock = [l \in S!Locks |-> [owner |-> Owner, depth |-> 0]]
    BY DEF S!Init, S!Threads
  <1>2. "add" \in S!Places /\ "close" \in S!Places
    BY DEF S!Places
  <1>3. \A l \in S!Locks : Weight("add", l) = 0 /\ Weight("close", l) = 0
    BY Weights
  <1>4. \A l : /\ Depth(<<>>, l) = 0 /\ Depth(<<"add">>, l) = Weight("add", l)
               /\ Depth(<<"close", "add">>, l) = Weight("close", l) + Weight("add", l)
    BY <1>2, DepthOfCalls
  <1>5. \A l \in S!Locks : \A t \in S!Threads : Depth(stack[t], l) = 0
    BY <1>1, <1>3, <1>4
  <1> QED
    BY <1>1, <1>5 DEF LockInv

\* What every step of the closing keeps.
ClosingInv == (CloseInv /\ IdleInv /\ LockInv) \/ Nobody

\* Every step of a call keeps the invariant of the closing.
LEMMA ClosingInductive == ClosingInv /\ [S!Next]_S!vars => ClosingInv'
  <1> SUFFICES ASSUME ClosingInv, [S!Next]_S!vars PROVE ClosingInv'
    OBVIOUS
  <1>1. CASE Nobody
    BY <1>1, NobodyStays DEF ClosingInv
  <1>2. CASE CloseInv /\ IdleInv /\ LockInv
    <2>1. CloseInv' /\ IdleInv'
      BY <1>2, CloseInductive
    <2>2. LockInv'
      <3>0. StackTypes
        BY <1>2 DEF CloseInv
      <3>1. CASE UNCHANGED S!vars
        BY <1>2, <3>1 DEF S!vars, LockInv, Depth
      <3>2. CASE S!Next
        BY <1>2, <3>0, <3>2, StepLocks, CallLocks DEF S!Next
      <3> QED
        BY <3>1, <3>2
    <2> QED
      BY <2>1, <2>2 DEF ClosingInv
  <1> QED
    BY <1>1, <1>2 DEF ClosingInv

\* When the calls are over, the right to tell is used up or the channel is open.
LEMMA ClosingSafe == ClosingInv => S!TypeOK /\ S!ToldOnce /\ S!ClosedIsForgotten
  <1>1. ASSUME Nobody PROVE S!TypeOK /\ S!ToldOnce /\ S!ClosedIsForgotten
    <2>1. S!TypeOK
      <3>1. stack \in [S!Threads -> Seq(S!Places)]
        BY <1>1, NoCall DEF Nobody
      <3>2. lock \in [S!Locks -> [owner : S!Threads, depth : Nat]]
        BY <1>1 DEF Nobody, S!Threads
      <3> QED
        BY <1>1, <3>1, <3>2 DEF Nobody, S!TypeOK
    <2> QED
      BY <1>1, <2>1 DEF Nobody, S!ToldOnce, S!ClosedIsForgotten
  <1>2. ASSUME CloseInv, LockInv PROVE S!TypeOK /\ S!ToldOnce /\ S!ClosedIsForgotten
    <2>2. StackTypes /\ RightInv /\ RemovalInv /\ SocketInv /\ GuardInv
      BY <1>2 DEF CloseInv
    <2>3. S!TypeOK /\ S!ToldOnce
      BY <1>2, <2>2 DEF StackTypes, LockInv, S!TypeOK, S!ToldOnce
    <2>4. ASSUME S!Quiet
          PROVE  /\ m_close => ~bound /\ (told = 1 \/ dropped)
                 /\ told > 0 \/ dropped => m_close /\ ~socket
      <3>1. \A t \in S!Threads : ~Holds(stack[t]) /\ \A y : ~Has(stack[t], y)
        BY <2>4, NoCall DEF S!Quiet
      <3>2. \A y : ~Calls(y)
        BY <3>1 DEF Calls
      <3>3. m_close => ~bound /\ ~socket
        BY <2>2, <3>2 DEF RemovalInv, SocketInv
      <3>4. bound \/ told = 1 \/ dropped
        BY <2>2, <3>1 DEF RightInv
      <3>5. told = 1 \/ dropped => m_close
        BY <2>2 DEF GuardInv
      <3> QED
        BY <2>2, <3>3, <3>4, <3>5 DEF StackTypes
    <2> QED
      BY <2>3, <2>4 DEF S!ClosedIsForgotten
  <1> QED
    BY <1>1, <1>2 DEF ClosingInv

\* However the stream is cut and whatever threads close, send, remove and close the
\* manager, their calls nested and interleaved: the receiver never waits with a full buffer
\* nor with a whole packet in it, every lock is dropped as often as it was taken, the
\* manager's owner hears of a channel once, and when the calls are over a closed channel is
\* out of the map and a forgotten one is closed, its socket too (AbstractStreamChannel::close
\* and handle_input, ChannelManager::remove and close).
THEOREM ChannelsConsistent == ChannelsSpec => []Consistent
  <1>1. ChannelsInit => IInv /\ ClosingInv
    BY InitIInv, CloseInitially, LockInitially DEF ChannelsInit, ClosingInv
  <1>2. IInv /\ ClosingInv /\ [ChannelsNext]_<<vars, closeVars>> => IInv' /\ ClosingInv'
    <2> SUFFICES ASSUME IInv, ClosingInv, [ChannelsNext]_<<vars, closeVars>>
                 PROVE  IInv' /\ ClosingInv'
      OBVIOUS
    <2>1. [Next]_vars /\ [S!Next]_S!vars
      BY DEF ChannelsNext, closeVars, S!vars
    <2> QED
      BY <2>1, NextIInv, ClosingInductive
  <1>3. IInv /\ ClosingInv => Consistent
    BY IInvSafe, ClosingSafe DEF Consistent
  <1> QED
    BY <1>1, <1>2, <1>3, PTL DEF ChannelsSpec
=============================================================================
