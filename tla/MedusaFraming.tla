--------------------------- MODULE MedusaFraming ---------------------------
(***************************************************************************)
(* How MedusaClientHandler and MedusaServiceHandler cut the bytes of the   *)
(* connection into packets: handle_input is the same code in both.  It     *)
(* reads a header, then as many bytes as the header says, and keeps what   *)
(* it has got (m_partialMessage) when a read brings less.                  *)
(***************************************************************************)
EXTENDS Integers, Sequences, SequencesExt

CONSTANTS
    HeaderSize,   \* MedusaHeader::getSize()
    MaxBody,      \* bound: size of a body
    MaxPackets,   \* bound: packets sent
    WholeHeaders  \* no header arrives in two pieces

VARIABLES
    bodies,    \* the sizes of the bodies of the packets that are sent
    arrived,   \* bytes that have reached the socket
    taken,     \* bytes read from it
    header,    \* m_header: its body's size, or -1
    partial,   \* length of m_partialMessage
    handled,   \* packets handled
    closed     \* handle_input has returned -1

vars == <<bodies, arrived, taken, header, partial, handled, closed>>

\* Where packet n + 1 starts.
StartOf(n) ==
    FoldLeft(LAMBDA acc, b : acc + HeaderSize + b, 0, SubSeq(bodies, 1, n))

Count == Len(bodies)
Total == StartOf(Count)

Init ==
    /\ bodies \in UNION {[1..n -> 0..MaxBody] : n \in 1..MaxPackets}
    /\ arrived = 0
    /\ taken = 0
    /\ header = -1
    /\ partial = 0
    /\ handled = 0
    /\ closed = FALSE

\* Some more of the bytes reach the socket.
Arrive ==
    /\ arrived < Total
    /\ \E n \in arrived + 1 .. Total :
          /\ WholeHeaders =>
                ~ \E k \in 0..Len(bodies) - 1 : StartOf(k) < n /\ n < StartOf(k) + HeaderSize
          /\ arrived' = n
    /\ UNCHANGED <<bodies, taken, header, partial, handled, closed>>

\* The bytes already read of a header are taken off twice.
ReadSize ==
    IF header = -1 THEN HeaderSize - partial - partial ELSE header - partial

\* recv: nothing for a size of zero, and whatever there is for a negative one,
\* which is converted to a very large size.
Received ==
    LET there == arrived - taken
    IN  IF ReadSize < 0 \/ there < ReadSize THEN there ELSE ReadSize

Close ==
    /\ closed' = TRUE
    /\ UNCHANGED <<header, partial, handled>>

\* A header is made of the bytes in the buffer; with too few of them the stream
\* is not good.
HandleHeader(count) ==
    IF partial + count < HeaderSize THEN Close
    ELSE /\ header' = IF bodies[handled + 1] = 0 THEN -1 ELSE bodies[handled + 1]
         /\ handled' = handled + (IF bodies[handled + 1] = 0 THEN 1 ELSE 0)
         /\ partial' = 0
         /\ UNCHANGED closed

HandleBody ==
    /\ header' = -1
    /\ handled' = handled + 1
    /\ partial' = 0
    /\ UNCHANGED closed

HandleInput ==
    /\ ~closed /\ arrived > taken
    /\ taken' = taken + Received
    /\ IF Received = 0 THEN Close
       ELSE IF Received < ReadSize
       THEN partial' = partial + Received /\ UNCHANGED <<header, handled, closed>>
       ELSE IF header = -1 THEN HandleHeader(Received) ELSE HandleBody
    /\ UNCHANGED <<bodies, arrived>>

Next == Arrive \/ HandleInput

Fairness == WF_vars(Next)

Spec == Init /\ [][Next]_vars /\ Fairness

-----------------------------------------------------------------------------
(***************************************************************************)
(* The types, with the read buffer never over its size: a header's or a    *)
(* body's bytes.                                                           *)
(***************************************************************************)
TypeOK ==
    /\ taken \in 0..arrived /\ arrived \in 0..Total
    /\ header \in {-1} \cup 1..MaxBody
    /\ handled \in 0..Len(bodies)
    /\ partial \in 0..(IF header = -1 THEN HeaderSize - 1 ELSE header - 1)
    /\ closed \in BOOLEAN

(***************************************************************************)
(* The reader is in step with the sender: what it has read is the packets  *)
(* it has handled, the header of the next one if it has it, and the        *)
(* partial message, and a live peer's connection is not given up.          *)
(***************************************************************************)
InStep ==
    /\ ~closed
    /\ taken = StartOf(handled) + (IF header = -1 THEN 0 ELSE HeaderSize) + partial
    /\ header # -1 => header = bodies[handled + 1]
=============================================================================
