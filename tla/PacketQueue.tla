---------------------------- MODULE PacketQueue ----------------------------
(***************************************************************************)
(* What a channel promises to the handler above it: the packets that one   *)
(* end sends are handed to the other end whole, once, in the order they    *)
(* were sent, until one of the ends gives up.                              *)
(***************************************************************************)
EXTENDS Sequences

CONSTANT Packets   \* what may be sent

VARIABLES
    queue,    \* the packets sent and not handed over yet
    handed,   \* the packets handed over, in order
    open      \* FALSE once the receiving end has closed

vars == <<queue, handed, open>>

Init ==
    /\ queue = <<>>
    /\ handed = <<>>
    /\ open = TRUE

Send ==
    /\ \E p \in Packets : queue' = Append(queue, p)
    /\ UNCHANGED <<handed, open>>

\* The handler of the packet may refuse it and close the channel.
HandOver ==
    /\ open
    /\ queue # <<>>
    /\ handed' = Append(handed, Head(queue))
    /\ queue' = Tail(queue)
    /\ open' \in BOOLEAN

Close ==
    /\ open
    /\ open' = FALSE
    /\ UNCHANGED <<queue, handed>>

Next == Send \/ HandOver \/ Close

Spec == Init /\ [][Next]_vars
=============================================================================
