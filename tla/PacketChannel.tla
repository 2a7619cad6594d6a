--------------------------- MODULE PacketChannel ---------------------------
(***************************************************************************)
(* One direction of a PacketChannel: a sender writes packets (a header of  *)
(* fixed size that announces the size of the body, then the body) on a     *)
(* stream socket, which delivers the bytes in order but in any fragments;  *)
(* the receiver collects them in m_partialMessage and cuts them into       *)
(* packets again.                                                          *)
(*                                                                         *)
(* A channel starts synchronous: its owner calls receivePacket for the     *)
(* handshake and then asynchronous, which hands over what the buffer holds *)
(* already and registers the channel with the reactor; from then on        *)
(* handleInput_i is called when there is something to read.                *)
(*                                                                         *)
(* A packet is its body size.  The bytes are counted: consumed is the      *)
(* offset, in the stream, of the first byte of the buffer, so what a       *)
(* header parsed there says follows from where the packets start.          *)
(***************************************************************************)
EXTENDS Naturals, Sequences

CONSTANTS
    HeaderSize,      \* HEADER::getSize(): 16, 18 or 98 bytes
    MAX_BUFFER_SIZE, \* initial size of m_partialMessage: 1024 bytes
    Bodies,          \* the body sizes of the packets
    MaxPackets       \* bound: packets sent

ASSUME SizeAssumption ==
    /\ HeaderSize \in Nat \ {0}
    /\ MAX_BUFFER_SIZE \in Nat
    /\ HeaderSize <= MAX_BUFFER_SIZE
    /\ Bodies \subseteq Nat
    /\ MaxPackets \in Nat

VARIABLES
    sent,       \* the packets written, in order
    starts,     \* starts[i]: offset in the stream of the header of sent[i]
    written,    \* bytes written on the socket
    peerOpen,   \* FALSE once the sender has closed its end
    received,   \* bytes read from the socket
    consumed,   \* bytes parsed
    size,       \* size of m_partialMessage
    header,     \* <<body size>> of m_header, or <<>> when it is null
    delivered,  \* the packets handed over, in order
    pc          \* where the receiver is

sendVars == <<sent, starts, written>>
bufVars  == <<consumed, size, header, delivered>>
vars     == <<sendVars, peerOpen, received, bufVars, pc>>

-----------------------------------------------------------------------------
Places == {"app",      \* the owner of the synchronous channel runs
           "receive",  \* in receivePacket, before handleInputParsePacket
           "recv",     \* in receivePacket, blocked in readInputBuffer
           "flush",    \* in asynchronous, before handleInputParsePacket
           "reactor",  \* registered, no input event being handled
           "input",    \* in handleInput_i, before handleInputParsePacket
           "closed"}

Length == received - consumed       \* m_partialMessage->length()
Space  == size - Length             \* m_partialMessage->space()

\* What the header at an offset announces; bytes that are not the start of
\* a packet may announce anything.
HeaderAt(offset) ==
    IF \E i \in DOMAIN starts : starts[i] = offset
    THEN {sent[i] : i \in {j \in DOMAIN starts : starts[j] = offset}}
    ELSE Bodies

Init ==
    /\ sent = <<>>
    /\ starts = <<>>
    /\ written = 0
    /\ peerOpen = TRUE
    /\ received = 0
    /\ consumed = 0
    /\ size = MAX_BUFFER_SIZE
    /\ header = <<>>
    /\ delivered = <<>>
    /\ pc = "app"

-----------------------------------------------------------------------------
\* The sender.

SendPacket(b) ==
    /\ peerOpen
    /\ Len(sent) < MaxPackets
    /\ sent' = Append(sent, b)
    /\ starts' = Append(starts, written)
    /\ written' = written + HeaderSize + b
    /\ UNCHANGED <<peerOpen, received, bufVars, pc>>

PeerClose ==
    /\ peerOpen
    /\ peerOpen' = FALSE
    /\ UNCHANGED <<sendVars, received, bufVars, pc>>

-----------------------------------------------------------------------------
\* The receiver's owner.

ReceivePacket ==
    /\ pc = "app"
    /\ pc' = "receive"
    /\ UNCHANGED <<sendVars, peerOpen, received, bufVars>>

Asynchronous ==
    /\ pc = "app"
    /\ pc' = "flush"
    /\ UNCHANGED <<sendVars, peerOpen, received, bufVars>>

\* receivePacket gives up at the top of its loop: the channel stays open.
ReceiveTimeout ==
    /\ pc = "receive"
    /\ pc' = "app"
    /\ UNCHANGED <<sendVars, peerOpen, received, bufVars>>

Close ==
    /\ pc \in {"app", "reactor"}
    /\ pc' = "closed"
    /\ UNCHANGED <<sendVars, peerOpen, received, bufVars>>

-----------------------------------------------------------------------------
\* The socket.

ReadInputBuffer ==
    /\ pc \in {"recv", "reactor"}
    /\ \E n \in 1..Space :
        /\ received + n <= written
        /\ received' = received + n
    /\ pc' = IF pc = "recv" THEN "receive" ELSE "input"
    /\ UNCHANGED <<sendVars, peerOpen, bufVars>>

\* recv returns 0 (end of file, or no room in the buffer) or -1 (the
\* timeout of a synchronous read): the channel is closed.
ReadInputBufferFails ==
    /\ pc \in {"recv", "reactor"}
    /\ \/ pc = "recv"
       \/ ~peerOpen /\ received = written
       \/ Space = 0
    /\ pc' = "closed"
    /\ UNCHANGED <<sendVars, peerOpen, received, bufVars>>

-----------------------------------------------------------------------------
\* handleInputParsePacket.

\* The size of the buffer after a header that announces a body of b bytes,
\* of which n are there.
RoomFor(b, n) ==
    IF b > n /\ b - n > Space THEN HeaderSize + b + MAX_BUFFER_SIZE ELSE size

\* The bytes that createPacket takes from the buffer.
\* Mutant: the factory leaves the last byte of a body unread.
CreatePacketReadsLess(b) == IF b > 1 THEN b - 1 ELSE b
CreatePacket(b) == b

\* Where the receiver goes without a packet, and with one.
Incomplete == CASE pc = "receive" -> "recv" [] OTHER -> "reactor"
\* Mutant: handleInput_i and the flush take one packet and wait for more input.
AfterPacketOnlyOne == CASE pc = "receive" -> {"app"}
                        [] pc = "flush" -> {"reactor", "app"}
                        [] OTHER -> {"reactor", "closed"}
AfterPacket == CASE pc = "receive" -> {"app"}           \* returned to the owner
                 [] pc = "flush" -> {"flush", "app"}    \* handlePacket fails: return -1
                 [] OTHER -> {"input", "closed"}        \* handlePacket fails: close

\* Not even a header: wait.
ParseNothing ==
    /\ header = <<>>
    /\ Length < HeaderSize
    /\ pc' = Incomplete
    /\ UNCHANGED bufVars

\* A header, but not all of its body.
ParseHeader ==
    /\ header = <<>>
    /\ Length >= HeaderSize
    /\ \E b \in HeaderAt(consumed) :
        /\ b > Length - HeaderSize
        /\ size' = RoomFor(b, Length - HeaderSize)
        /\ header' = <<b>>
    /\ consumed' = consumed + HeaderSize
    /\ pc' = Incomplete
    /\ UNCHANGED delivered

\* The body of a header parsed before is still incomplete.
ParseBodyIncomplete ==
    /\ header # <<>>
    /\ Length < header[1]
    /\ pc' = Incomplete
    /\ UNCHANGED bufVars

\* A header and its body.
ParseWhole ==
    /\ header = <<>>
    /\ Length >= HeaderSize
    /\ \E b \in HeaderAt(consumed) :
        /\ b <= Length - HeaderSize
        /\ consumed' = consumed + HeaderSize + CreatePacket(b)
        /\ delivered' = Append(delivered, b)
    /\ pc' \in AfterPacket
    /\ UNCHANGED <<size, header>>

\* The body of a header parsed before.
ParseBody ==
    /\ header # <<>>
    /\ Length >= header[1]
    /\ consumed' = consumed + CreatePacket(header[1])
    /\ delivered' = Append(delivered, header[1])
    /\ header' = <<>>
    /\ pc' \in AfterPacket
    /\ UNCHANGED size

HandleInputParsePacket ==
    /\ pc \in {"receive", "flush", "input"}
    /\ ParseNothing \/ ParseHeader \/ ParseBodyIncomplete \/ ParseWhole \/ ParseBody
    /\ UNCHANGED <<sendVars, peerOpen, received>>

-----------------------------------------------------------------------------
Next ==
    \/ \E b \in Bodies : SendPacket(b)
    \/ PeerClose
    \/ ReceivePacket
    \/ Asynchronous
    \/ ReceiveTimeout
    \/ Close
    \/ ReadInputBuffer
    \/ ReadInputBufferFails
    \/ HandleInputParsePacket

Spec == Init /\ [][Next]_vars

\* The reactor dispatches a readable channel, and a handler that has been
\* entered runs on.
Fairness == WF_vars(ReadInputBuffer \/ HandleInputParsePacket)

-----------------------------------------------------------------------------
(***************************************************************************)
(* TypeOK: the type invariant; no byte is parsed before it is read, none   *)
(* is read before it is written.                                           *)
(***************************************************************************)
TypeOK ==
    /\ sent \in Seq(Bodies)
    /\ starts \in Seq(Nat)
    /\ Len(starts) = Len(sent)
    /\ written \in Nat
    /\ peerOpen \in BOOLEAN
    /\ received \in Nat
    /\ consumed \in Nat
    /\ consumed <= received /\ received <= written
    /\ size \in Nat
    /\ header = <<>> \/ \E b \in Bodies : header = <<b>>
    /\ delivered \in Seq(Bodies)
    /\ pc \in Places

(***************************************************************************)
(* RoomToRead: the receiver never waits for input with a full buffer.  If  *)
(* it did, readInputBuffer would ask recv for 0 bytes, take the 0 it       *)
(* returns for the end of the stream and close a healthy channel.          *)
(***************************************************************************)
RoomToRead == pc \in {"recv", "reactor"} => Space > 0

(***************************************************************************)
(* NothingLeftBehind: while the channel waits in the reactor its buffer    *)
(* holds no complete packet.  Such a packet would be handled only when     *)
(* the peer happens to send something else: this is what the flush in      *)
(* asynchronous and the loop in handleInput_i are for.                     *)
(***************************************************************************)
NothingLeftBehind ==
    pc = "reactor" =>
        IF header # <<>> THEN Length < header[1]
        ELSE \/ Length < HeaderSize
             \/ \A b \in HeaderAt(consumed) : b > Length - HeaderSize

(***************************************************************************)
(* Queue: the channel implements PacketQueue: however the stream is        *)
(* fragmented, the handler gets the packets sent, whole and in order.      *)
(***************************************************************************)
Abstract == INSTANCE PacketQueue
    WITH Packets <- Bodies,
         queue <- SubSeq(sent, Len(delivered) + 1, Len(sent)),
         handed <- delivered,
         open <- pc # "closed"
Queue == Abstract!Spec

(***************************************************************************)
(* Delivery: a channel that the reactor serves hands over all that was     *)
(* sent, unless it closes or its owner takes it back.                      *)
(***************************************************************************)
Delivery ==
    (pc \in {"reactor", "input"} /\ delivered # sent) ~>
        (delivered = sent \/ pc \in {"app", "closed"})
=============================================================================
