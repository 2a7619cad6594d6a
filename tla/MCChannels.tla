----------------------------- MODULE MCChannels -----------------------------
(***************************************************************************)
(* The channels, for TLC: the framing of packets and the closing of a      *)
(* channel (Channels) and what the packets say (Codec).  The three have no *)
(* state in common; a behaviour is one of them, the others stand still.    *)
(***************************************************************************)
EXTENDS Channels

CONSTANT MaxParts

VARIABLES
    part,                                                    \* the one that runs
    channel, packet, announced, head, body, made, result, at \* of Codec

C == INSTANCE Codec WITH header <- head, pc <- at

codecVars == <<channel, packet, announced, head, body, made, result, at>>

MCInit ==
    /\ part \in {"framing", "codec", "closing"}
    /\ Init
    /\ C!Init
    /\ IF part = "closing" THEN S!Init ELSE Nobody

MCNext ==
    /\ \/ part = "framing" /\ Next /\ UNCHANGED <<codecVars, closeVars>>
       \/ part = "codec" /\ C!Next /\ UNCHANGED <<vars, closeVars>>
       \/ part = "closing" /\ S!Next /\ UNCHANGED <<vars, codecVars>>
    /\ UNCHANGED part

MCSpec == MCInit /\ [][MCNext]_<<part, vars, codecVars, closeVars>> /\ Fairness /\ S!Fairness

-----------------------------------------------------------------------------
(***************************************************************************)
(* Every packet arrives as it was sent: the size announced, the class made, *)
(* the widths read and the members filled (StreamSize, the packet factories, *)
(* serialize and deserialize of every class).                              *)
(***************************************************************************)
Faithful == C!TypeOK /\ C!Framed /\ C!Understood /\ C!InStep /\ C!Faithful

(***************************************************************************)
(* The calls on a channel return (AbstractStreamChannel, ChannelManager).  *)
(***************************************************************************)
EveryCallReturns == S!EveryCallReturns
=============================================================================
