------------------------------- MODULE Codec -------------------------------
(***************************************************************************)
(* One packet on its way: a sender sizes and writes it, the receiver reads *)
(* the header, asks its channel's factory for the class of the message     *)
(* type and lets that class read the body.  Payloads (specializations of   *)
(* queries, updates, trees) are written and read in the same way, without  *)
(* a header, inside the blob of a packet; their type travels with it.      *)
(***************************************************************************)
EXTENDS Packets

CONSTANT MaxParts  \* bound: see WriteFields

VARIABLES
    channel,    \* the kind of channel
    packet,     \* the name of the class sent
    announced,  \* m_messageSize of the header: what StreamSize counted
    header,     \* the tokens of the header
    body,       \* the tokens of the body
    made,       \* the name of the class that the factory made
    result,     \* what reading the header and the body gave
    pc

vars == <<channel, packet, announced, header, body, made, result, pc>>

-----------------------------------------------------------------------------
(***************************************************************************)
(* WriteFields(fs, p, n): the results of writing the fields fs of the      *)
(* object at path p, with at most n parts in all: an optional part that is *)
(* present, an element of a list, a string or blob that is not empty, a    *)
(* choice other than the first.  A result has its tokens and what is left  *)
(* of n.                                                                   *)
(***************************************************************************)
RECURSIVE WriteFields(_, _, _), WriteField(_, _, _), WriteItems(_, _, _, _)

After(toks, rs) == {[toks |-> toks \o r.toks, left |-> r.left] : r \in rs}

WriteItems(c, p, i, n) ==
    IF i = 0 THEN {[toks |-> <<>>, left |-> n]}
    ELSE UNION {After(r.toks, WriteItems(c, p, i - 1, r.left)) : r \in WriteFields(Classes[c].out, p, n)}

WriteField(f, p, n) ==
    LET at == Append(p, f.m)
    IN CASE f.k = "prim"   -> {[toks |-> <<Token(f.t, at, 0)>>, left |-> n]}
         [] f.k = "octets" -> {[toks |-> WriteArray(f.n, at), left |-> n]}
         [] f.k = "str"    -> {[toks |-> WriteString(l, at), left |-> n - l] : l \in Small(n)}
         [] f.k = "blob"   -> {[toks |-> <<Token("ulong", at, l)>> \o WriteArray(l, at),
                                left |-> n - l] : l \in Small(n)}
         [] f.k = "obj"    -> WriteFields(Classes[f.of].out, at, n)
         [] f.k = "list"   -> UNION {After(<<Token(f.t, at, i)>>, WriteItems(f.of, at, i, n - i)) :
                                     i \in 0..n}
         [] f.k = "sel"    -> UNION {After(<<Token(f.t, at, i - 1)>>,
                                           WriteFields(f.cases[i], p, IF i = 1 THEN n ELSE n - 1)) :
                                     i \in {j \in DOMAIN f.cases : j = 1 \/ n > 0}}

WriteFields(fs, p, n) ==
    IF fs = <<>> THEN {[toks |-> <<>>, left |-> n]}
    ELSE UNION {After(r.toks, WriteFields(Tail(fs), p, r.left)) : r \in WriteField(Head(fs), p, n)}

-----------------------------------------------------------------------------
(***************************************************************************)
(* ReadFields(fs, p, r): reading the fields fs into the object at path p,  *)
(* from where the reader is (see Start).                                   *)
(***************************************************************************)
RECURSIVE ReadFields(_, _, _), ReadField(_, _, _), ReadItems(_, _, _, _)

ReadItems(c, p, i, r) ==
    IF i = 0 \/ ~r.ok THEN r ELSE ReadItems(c, p, i - 1, ReadFields(Classes[c].in, p, r))

ReadField(f, p, r) ==
    LET at == Append(p, f.m)
        v  == Peek(r)
    IN CASE f.k = "prim"   -> Take(ReadSize[f.t], at, r)
         [] f.k = "octets" -> Take(f.n, at, r)
         [] f.k \in {"str", "blob"} -> Take(v, at, Take(ReadSize["ulong"], at, r))
         [] f.k = "obj"    -> ReadFields(Classes[f.of].in, at, r)
         [] f.k = "list"   -> ReadItems(f.of, at, v, Take(ReadSize[f.t], at, r))
         [] f.k = "sel"    -> IF v + 1 \in DOMAIN f.cases
                              THEN ReadFields(f.cases[v + 1], p, Take(ReadSize[f.t], at, r))
                              ELSE [r EXCEPT !.ok = FALSE]

ReadFields(fs, p, r) ==
    IF fs = <<>> \/ ~r.ok THEN r ELSE ReadFields(Tail(fs), p, ReadField(Head(fs), p, r))

-----------------------------------------------------------------------------
\* The header of a packet and what HEADER::getSize() says of it.
NoHeader == Class(<<>>, <<>>)
Stream == [class |-> SthenoStreamHeader, size |-> 16]
Stheno == [class |-> SthenoHeader, size |-> 98]
Medusa == [class |-> MedusaHeader, size |-> 18]
InBlob == [class |-> NoHeader, size |-> 0]

Kind(h, f) == [header |-> h, factory |-> f]
Channels ==
    [FTControl |-> Kind(Stream, FTControlPacketFactory),
     FTData |-> Kind(Stream, FTDataPacketFactory),
     Mesh |-> Kind(Stream, P3MeshPacketFactory),
     Discovery |-> Kind(Stream, P3DiscoveryPacketFactory),
     Cell |-> Kind(Stheno, CellPacketFactory),
     CellDiscovery |-> Kind(Stheno, DiscoveryPacketFactory),
     Actuator |-> Kind(Stream, ActuatorPacketFactory),
     LeafStream |-> Kind(Stream, StreamPacketFactory),
     RPCService |-> Kind(Stream, RPCServicePacketFactory),
     ActuatorService |-> Kind(Stream, ActuatorServicePacketFactory),
     StreamService |-> Kind(Stream, StreamServicePacketFactory),
     MedusaDaemon |-> Kind(Medusa, MedusaPacketFactory),
     Blob |-> Kind(InBlob, Payloads)]

\* The class of channel ch with a name.
ClassOf(ch, name) == CHOOSE c \in Channels[ch].factory : c.name = name

Init ==
    /\ channel = "none" /\ packet = "none"
    /\ announced = 0 /\ header = <<>> /\ body = <<>>
    /\ made = "none" /\ result = Start(<<>>)
    /\ pc = "idle"

-----------------------------------------------------------------------------
\* serialize: getBodySerializationSize, setMessageSize, header, body.
Serialize(ch) ==
    /\ pc = "idle"
    /\ \E c \in Channels[ch].factory :
        \E b \in WriteFields(c.out, <<>>, MaxParts) :
            \E h \in WriteFields(Channels[ch].header.class.out, <<>>, 0) :
                /\ packet' = c.name
                /\ announced' = Counted(b.toks)
                /\ header' = h.toks
                /\ body' = b.toks
    /\ channel' = ch
    /\ pc' = "sent"
    /\ UNCHANGED <<made, result>>

\* The receiver reads a header of getSize() bytes.
ReadHeader ==
    /\ pc = "sent"
    /\ LET h == Channels[channel].header
           r == ReadFields(h.class.in, <<>>, Start(header))
       IN  result' = [r EXCEPT !.ok = @ /\ Written(header) = h.size]
    /\ pc' = "header"
    /\ UNCHANGED <<channel, packet, announced, header, body, made>>

\* The class a factory makes for a message type.
Made(ch, op) == {c \in Channels[ch].factory : c.op = op}

CreatePacket ==
    /\ pc = "header"
    /\ \E c \in Made(channel, ClassOf(channel, packet).op) :
        /\ made' = c.name
        /\ result' = LET r == ReadFields(c.in, <<>>, Start(body))
                     IN [r EXCEPT !.ok = result.ok /\ @, !.wrong = result.wrong \cup @]
    /\ pc' = "made"
    /\ UNCHANGED <<channel, packet, announced, header, body>>

\* The packet is handled and deleted.
HandlePacket ==
    /\ pc = "made"
    /\ channel' = "none" /\ packet' = "none"
    /\ announced' = 0 /\ header' = <<>> /\ body' = <<>>
    /\ made' = "none" /\ result' = Start(<<>>)
    /\ pc' = "idle"

Next ==
    \/ \E ch \in DOMAIN Channels : Serialize(ch)
    \/ ReadHeader
    \/ CreatePacket
    \/ HandlePacket

Spec == Init /\ [][Next]_vars

-----------------------------------------------------------------------------
(***************************************************************************)
(* Framed: the header has the size that the receiver waits for, and        *)
(* announces exactly the bytes of the body.  StreamSize counts them in     *)
(* code of its own; one byte more or less and every packet that follows on *)
(* the channel is cut in the wrong place (see PacketChannel).              *)
(***************************************************************************)
Framed ==
    /\ pc = "header" => result.ok /\ result.rest = <<>>
    /\ pc = "sent" => Written(body) = announced

(***************************************************************************)
(* Understood: the factory of the receiver makes an object of the class    *)
(* that was sent: no message type stands for two classes of a channel.     *)
(***************************************************************************)
Understood == pc = "made" => made = packet

(***************************************************************************)
(* InStep: the reader takes each value with the width it was written with, *)
(* through every optional part, list and string, and a packet is read to   *)
(* its end.  (A reply about a peer may leave the cell endpoint of a        *)
(* P3PeerInfo unread at the end of its blob.)                              *)
(***************************************************************************)
InStep ==
    pc = "made" => /\ result.ok
                   /\ channel # "Blob" => result.rest = <<>>

(***************************************************************************)
(* Faithful: every member gets the value of that same member.  The one     *)
(* exception is FindServiceInstanceQueryReply, whose deserialize stores    *)
(* the FID where the SID belongs and leaves the FID null.                  *)
(***************************************************************************)
Faithful ==
    pc = "made" /\ packet # "FindServiceInstanceQueryReply" => result.wrong = {}

(***************************************************************************)
(* TypeOK: the state of the model has its types.                           *)
(***************************************************************************)
TypeOK ==
    /\ announced \in Nat
    /\ pc \in {"idle", "sent", "header", "made"}
    /\ pc = "idle" <=> channel = "none" /\ packet = "none"
    /\ result.ok \in BOOLEAN
=============================================================================
