---------------------------- MODULE RootElection ----------------------------
(***************************************************************************)
(* Who becomes the root of the mesh (CellDiscovery::requestCell).  Peers   *)
(* that need a place ask on a multicast address the root listens on.  The  *)
(* root answers, also by multicast; a peer that hears nothing within the   *)
(* timeout becomes the root; one that hears a request from a smaller UUID  *)
(* sleeps and starts again, so that it finds the other as the root.        *)
(*                                                                         *)
(* Time goes in ticks.  A datagram that is not lost is put into the        *)
(* receivers' sockets at once, and a peer that is awake reads it in the    *)
(* same tick; what arrives for a sleeper waits in its socket.  The random  *)
(* sleep between two tries is less than a tick.                            *)
(***************************************************************************)
EXTENDS Integers, Sequences

CONSTANTS
    Peers,        \* UUIDs, compared as numbers
    ReplyTimeout, \* REQUEST_CELL_TIMEOUT_MS, in ticks
    MaxWait,      \* MAX_WAIT_TIME, in ticks
    MaxFaults     \* bound: datagrams lost and roots that crash

VARIABLES
    mode,     \* "off", "open", "asking", "sleeping", "root", "bound" or "down"
    left,     \* ticks to the end of the receive, or of the sleep
    over,     \* ticks to the end of all tries
    inbox,    \* datagrams in p's socket
    lost, crashes,
    raced     \* history: somebody started to listen while another asked

vars == <<mode, left, over, inbox, lost, crashes, raced>>

Datagram == [type : {"request", "reply"}, src : Peers, dst : Peers \cup {-1}]

Init ==
    /\ mode = [p \in Peers |-> "off"]
    /\ left = [p \in Peers |-> 0]
    /\ over = [p \in Peers |-> 0]
    /\ inbox = [p \in Peers |-> <<>>]
    /\ lost = 0
    /\ crashes = 0
    /\ raced = FALSE

Roots == {p \in Peers : mode[p] = "root"}

Listening == {"open", "asking", "sleeping", "root"}

\* To the sockets joined to the group; the sender ignores its own datagrams.
Multicast(box, m) ==
    [q \in Peers |-> IF q # m.src /\ mode[q] \in Listening
                     THEN Append(box[q], m) ELSE box[q]]

-----------------------------------------------------------------------------
Request(p, box) ==
    /\ mode' = [mode EXCEPT ![p] = "asking"]
    /\ left' = [left EXCEPT ![p] = ReplyTimeout]
    /\ inbox' = Multicast(box, [type |-> "request", src |-> p, dst |-> -1])

\* A new channel is opened: by a peer that starts (P3Mesh::open), or by the
\* child of a root that is gone (fireRebind).  What came before is lost on it.
Open(p) ==
    /\ \/ mode[p] = "off"
       \/ mode[p] = "bound" /\ Roots = {}
    /\ raced' = (raced \/ \E q \in Peers : mode[q] = "asking")
    /\ mode' = [mode EXCEPT ![p] = "open"]
    /\ inbox' = [inbox EXCEPT ![p] = <<>>]
    /\ UNCHANGED <<left, over, lost, crashes>>

\* requestCell is called.
Start(p) ==
    /\ mode[p] = "open"
    /\ Request(p, inbox)
    /\ over' = [over EXCEPT ![p] = MaxWait]
    /\ UNCHANGED <<lost, crashes, raced>>

\* The sleep is over: all starts again, with what has come meanwhile.
Wake(p) ==
    /\ mode[p] = "sleeping" /\ left[p] = 0
    /\ Request(p, inbox)
    /\ over' = [over EXCEPT ![p] = MaxWait]
    /\ UNCHANGED <<lost, crashes, raced>>

\* The return without an answer: the caller is the root.
BecomeRoot(p, box) ==
    /\ mode' = [mode EXCEPT ![p] = "root"]
    /\ left' = [left EXCEPT ![p] = 0]
    /\ over' = [over EXCEPT ![p] = 0]
    /\ inbox' = box

\* receivePacket times out and returns no packet
GiveUp(p) ==
    /\ mode[p] = "asking" /\ left[p] = 0
    /\ inbox[p] = <<>>
    /\ BecomeRoot(p, inbox)
    /\ UNCHANGED <<lost, crashes, raced>>

\* What follows a packet that decides nothing: the next receive, or the next
\* try when the time of this one has run out.
NextReceive(p, box) ==
    IF left[p] > 0 THEN inbox' = box /\ UNCHANGED <<mode, left, over>>
    ELSE IF over[p] > 0 THEN Request(p, box) /\ UNCHANGED over
    ELSE BecomeRoot(p, box)

Sleep(p, box) ==
    /\ mode' = [mode EXCEPT ![p] = "sleeping"]
    /\ left' = [left EXCEPT ![p] = MaxWait]
    /\ inbox' = box
    /\ UNCHANGED over

\* Mutant: nobody yields.
TakeRequestNever(p, src, box) == NextReceive(p, box)

\* Another peer is binding: the one with the greater UUID sleeps.
TakeRequest(p, src, box) ==
    IF src < p THEN Sleep(p, box) ELSE NextReceive(p, box)

\* Any answer ends the wait: whom it is for is not looked at.
TakeReply(p) ==
    /\ mode' = [mode EXCEPT ![p] = "bound"]
    /\ left' = [left EXCEPT ![p] = 0]
    /\ over' = [over EXCEPT ![p] = 0]
    /\ inbox' = [inbox EXCEPT ![p] = <<>>]

Receive(p) ==
    LET m == Head(inbox[p])
    IN  /\ mode[p] = "asking" /\ inbox[p] # <<>>
        /\ \/ m.type = "reply" /\ TakeReply(p)
           \/ /\ m.type = "request"
              /\ TakeRequest(p, m.src, [inbox EXCEPT ![p] = Tail(@)])
        /\ UNCHANGED <<lost, crashes, raced>>

\* The root: handleDiscoveryPacket, handleCellRequest
Serve(p) ==
    LET m == Head(inbox[p])
        box == [inbox EXCEPT ![p] = Tail(@)]
    IN  /\ mode[p] = "root" /\ inbox[p] # <<>>
        /\ inbox' = IF m.type = "request"
                    THEN Multicast(box, [type |-> "reply", src |-> p, dst |-> m.src])
                    ELSE box
        /\ UNCHANGED <<mode, left, over, lost, crashes, raced>>

-----------------------------------------------------------------------------
\* A datagram that p would have read next never came.
Lose(p) ==
    /\ inbox[p] # <<>>
    /\ lost + crashes < MaxFaults
    /\ lost' = lost + 1
    /\ inbox' = [inbox EXCEPT ![p] = Tail(@)]
    /\ UNCHANGED <<mode, left, over, crashes, raced>>

Crash(p) ==
    /\ mode[p] = "root"
    /\ lost + crashes < MaxFaults
    /\ crashes' = crashes + 1
    /\ mode' = [mode EXCEPT ![p] = "down"]
    /\ inbox' = [inbox EXCEPT ![p] = <<>>]
    /\ UNCHANGED <<left, over, lost, raced>>

Waiting == {p \in Peers : mode[p] \in {"asking", "sleeping"}}

Tick ==
    /\ Waiting # {}
    /\ \A p \in Waiting : left[p] > 0
    /\ \A p \in Peers : mode[p] \in {"asking", "root"} => inbox[p] = <<>>
    /\ left' = [p \in Peers |-> IF p \in Waiting THEN left[p] - 1 ELSE left[p]]
    /\ over' = [p \in Peers |-> IF mode[p] = "asking" /\ over[p] > 0
                                THEN over[p] - 1 ELSE over[p]]
    /\ UNCHANGED <<mode, inbox, lost, crashes, raced>>

Next ==
    \/ \E p \in Peers :
        Open(p) \/ Start(p) \/ Wake(p) \/ GiveUp(p) \/ Receive(p) \/ Serve(p)
        \/ Lose(p) \/ Crash(p)
    \/ Tick

Spec == Init /\ [][Next]_vars

\* Peers run and time goes on; nobody has to start.
Fairness ==
    /\ WF_vars(\E p \in Peers : Start(p) \/ Wake(p) \/ GiveUp(p) \/ Receive(p) \/ Serve(p))
    /\ WF_vars(Tick)

-----------------------------------------------------------------------------
(***************************************************************************)
(* The states of the peers, their timers and what is in their sockets:     *)
(* no wait is longer than the code asks for.                               *)
(***************************************************************************)
TypeOK ==
    /\ mode \in [Peers -> {"off", "open", "asking", "sleeping", "root", "bound", "down"}]
    /\ left \in [Peers -> 0 .. MaxWait]
    /\ over \in [Peers -> 0 .. MaxWait]
    /\ \A p \in Peers : \A i \in DOMAIN inbox[p] : inbox[p][i] \in Datagram
    /\ raced \in BOOLEAN

(***************************************************************************)
(* The mesh has one root: of the peers that ask, in any order and also     *)
(* after the root has crashed, one becomes the root and the others find it *)
(* (requestCell, its tie break by UUID and its sleep).  Only two things    *)
(* defeat it: a datagram that is lost, and a peer that joins the multicast *)
(* group while another asks, and so misses the request.                    *)
(***************************************************************************)
OneRoot == lost = 0 /\ ~raced => \A r, s \in Roots : r = s

=============================================================================
