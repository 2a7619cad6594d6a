------------------------------ MODULE Channels ------------------------------
(***************************************************************************)
(* A channel between two runtimes: the packets that it carries             *)
(* (PacketChannel) and its closing (StreamChannel).  The two have no state *)
(* in common: the end of the reading, Close, is a step of PacketChannel's  *)
(* own.                                                                    *)
(***************************************************************************)
EXTENDS PacketChannel

CONSTANTS Owner, Closers, Senders, Removers, Enders

VARIABLES stack, todo, lock, m_close, m_closeListener, bound, socket, told, dropped

S == INSTANCE StreamChannel WITH peerOpen <- socket

closeVars ==
    <<stack, todo, lock, m_close, m_closeListener, bound, socket, told, dropped>>

\* Nobody has a call to make: how StreamChannel stands still.
Nobody ==
    /\ stack = [t \in S!Threads |-> <<>>]
    /\ todo = {}
    /\ lock = [l \in S!Locks |-> [owner |-> Owner, depth |-> 0]]
    /\ m_close = FALSE /\ m_closeListener = FALSE /\ bound = FALSE
    /\ socket = TRUE /\ told = 0 /\ dropped = FALSE

ChannelsInit == Init /\ (S!Init \/ Nobody)

ChannelsNext ==
    \/ Next /\ UNCHANGED closeVars
    \/ S!Next /\ UNCHANGED vars

ChannelsSpec == ChannelsInit /\ [][ChannelsNext]_<<vars, closeVars>>

-----------------------------------------------------------------------------
(***************************************************************************)
(* Framing: the receiver never waits with a full buffer, nor in the reactor *)
(* with a whole packet in it (PacketChannel).  Closing: every lock is      *)
(* dropped as often as it was taken, the owner is told once, and what is   *)
(* closed is forgotten (StreamChannel).                                    *)
(***************************************************************************)
Consistent ==
    /\ TypeOK /\ RoomToRead /\ NothingLeftBehind
    /\ S!TypeOK /\ S!ToldOnce /\ S!ClosedIsForgotten
=============================================================================
