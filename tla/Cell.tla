-------------------------------- MODULE Cell --------------------------------
(***************************************************************************)
(* One root cell of super-peers (superpeer/cell): the peers keep replicas  *)
(* of one list, the super-peers of the cell in the order they joined, and  *)
(* the first of the list is the coordinator.  A joiner connects to the     *)
(* coordinator, which adds it, tells the other members, answers with its   *)
(* tree and connects back to the joiner's follower endpoint.  A member     *)
(* whose coordinator dies takes it off its own list and either is next     *)
(* (it becomes the coordinator without telling anybody) or joins the       *)
(* next peer as if it were new.                                            *)
(*                                                                         *)
(* Threads: the acceptor of a peer serves one joiner at a time; every      *)
(* channel has a thread that handles its packets and its end.  They meet   *)
(* at the lock of the Cell, which a joiner and a rebinding member hold     *)
(* until they are answered, and a coordinator while it tells a departure.  *)
(* A process dies when it is killed, when its join or rebind fails (the    *)
(* exception is caught by nobody), and when its acceptor cannot connect to *)
(* a joiner's follower endpoint.                                           *)
(***************************************************************************)
EXTENDS Naturals, FiniteSets, Sequences, SequencesExt

CONSTANTS
    Peer,        \* the super-peers
    Founder,     \* the peer that created the cell
    NoPeer,      \* a null pointer to a peer
    MaxSP,       \* the slots of a cell, m_maxSPs
    MaxCrash     \* bound: processes killed from outside

ASSUME PeerAssumption ==
    /\ IsFiniteSet(Peer)
    /\ Founder \in Peer
    /\ NoPeer \notin Peer
    /\ MaxSP \in Nat \ {0}
    /\ MaxCrash \in Nat

VARIABLES
    alive,       \* the processes that run
    crashes,     \* how many were killed
    role,        \* role[p]: where p is in joinNonCoordinator or handleCoordinatorFailure
    coordinator, \* the peers with m_coordinator set
    sps,         \* sps[p]: m_sps of the root node in the tree of p
    client,      \* client[p]: the peer that m_client is connected to
    asking,      \* <<p, c>>: p has connected to c, whose acceptor has not served it
    answer,      \* answer[p]: the reply of the join of p, <<>> while there is none
    acceptor,    \* acceptor[c]: where the acceptor of c is
    serving,     \* serving[c]: the joiner it serves
    reply,       \* reply[c]: the reply it has serialised
    group,       \* group[c]: m_cellGroup, the joiners whose channel c watches
    followers,   \* followers[c]: m_cellFollowerGroup, whom c tells
    leaving,     \* leaving[c]: whose departure c tells, under its lock
    inbox,       \* inbox[c][f]: what c has sent to f and f has not acknowledged
    dropped      \* history: the peers whose full list has dropped a newcomer

peerVars == <<role, coordinator, sps, client>>
joinVars == <<asking, answer, acceptor, serving, reply>>
tellVars == <<group, followers, leaving, inbox, dropped>>
vars     == <<alive, crashes, peerVars, joinVars, tellVars>>

-----------------------------------------------------------------------------
\* The reply of a refused join carries no tree.
Refused == <<NoPeer>>

Full(s) == Len(s) >= MaxSP

\* The reply to a joiner: the tree after it was added, if there was a slot.
\* Mutants: the slots are not asked for; the tree is serialised too early.
Always(before, after) == after
Early(before, after) == IF Full(before) THEN Refused ELSE before
ReplyOf(before, after) == IF Full(before) THEN Refused ELSE after

\* joinMesh returned true and a tree.
HasTree(p) == answer[p] \notin {<<>>, Refused}

\* CellTreeNode::add ignores a peer that is there and a peer with no slot.
Add(s, p) == IF p \in ToSet(s) \/ Full(s) THEN s ELSE Append(s, p)

\* CellTreeNode::remove erases the first match.
Erase(s, p) == RemoveFirst(s, p)

\* Who holds the lock of the Cell of p across a wait.
Locked(p) == role[p] \in {"joining", "rebinding"} \/ leaving[p] # NoPeer

\* CellGroup::joinPeer and leftPeer send to every follower but p.
Tell(c, p, kind) ==
    inbox' = [inbox EXCEPT ![c] = [f \in Peer |->
                 IF f \in (followers[c] \cap alive) \ {p}
                 THEN Append(@[f], <<kind, p>>) ELSE @[f]]]

\* They wait for every answer; the request to a dead follower is cancelled.
\* Mutants: nobody waits; the dead are waited for.
NoWait(c, p, kind) == TRUE
WaitForTheDead(c, p, kind) == \A f \in Peer : <<kind, p>> \notin ToSet(inbox[c][f])
Told(c, p, kind) == \A f \in alive : <<kind, p>> \notin ToSet(inbox[c][f])

-----------------------------------------------------------------------------
Init ==
    /\ alive = Peer
    /\ crashes = 0
    /\ role = [p \in Peer |-> IF p = Founder THEN "member" ELSE "new"]
    /\ coordinator = {Founder}
    /\ sps = [p \in Peer |-> IF p = Founder THEN <<Founder>> ELSE <<>>]
    /\ client = [p \in Peer |-> NoPeer]
    /\ asking = {}
    /\ answer = [p \in Peer |-> <<>>]
    /\ acceptor = [p \in Peer |-> "idle"]
    /\ serving = [p \in Peer |-> NoPeer]
    /\ reply = [p \in Peer |-> <<>>]
    /\ group = [p \in Peer |-> {}]
    /\ followers = [p \in Peer |-> {}]
    /\ leaving = [p \in Peer |-> NoPeer]
    /\ inbox = [c \in Peer |-> [f \in Peer |-> <<>>]]
    /\ dropped = {}

-----------------------------------------------------------------------------
(* Joining.                                                                *)

\* A new peer asks for a cell; a coordinator answers (handleCellRequest) with
\* the first of its list, to which the peer connects and sends JoinCell.  A
\* full cell sends the peer to a child cell.
Dial(p, c) ==
    /\ {p, c} \subseteq alive
    /\ role[p] = "new"
    /\ c \in coordinator /\ ~Locked(c) /\ ~Full(sps[c])
    /\ role' = [role EXCEPT ![p] = "joining"]
    /\ client' = [client EXCEPT ![p] = Head(sps[c])]
    /\ asking' = asking \cup {<<p, Head(sps[c])>>}
    /\ UNCHANGED <<alive, crashes, coordinator, sps, answer, acceptor, serving,
                   reply, tellVars>>

\* The acceptor of c reads the JoinCell of p, adds p under the lock, keeps the
\* reply and sends the notices.  It does not ask whether c is the coordinator,
\* and p may have died after it sent the packet.
HandleJoinCell(c, p) ==
    /\ c \in alive
    /\ <<p, c>> \in asking
    /\ acceptor[c] = "idle" /\ ~Locked(c)
    /\ sps' = [sps EXCEPT ![c] = Add(@, p)]
    /\ reply' = [reply EXCEPT ![c] = ReplyOf(sps[c], sps'[c])]
    /\ serving' = [serving EXCEPT ![c] = p]
    /\ acceptor' = [acceptor EXCEPT ![c] = "tell"]
    /\ asking' = asking \ {<<p, c>>}
    /\ Tell(c, p, "join")
    /\ UNCHANGED <<alive, crashes, role, coordinator, client, answer, group,
                   followers, leaving, dropped>>

\* The joiner died before its packet was sent: receivePacket has none.
NoInitPacket(c, p) ==
    /\ c \in alive
    /\ <<p, c>> \in asking /\ p \notin alive
    /\ acceptor[c] = "idle"
    /\ asking' = asking \ {<<p, c>>}
    /\ UNCHANGED <<alive, crashes, peerVars, answer, acceptor, serving, reply,
                   tellVars>>

\* Every follower has acknowledged: the reply is sent.
SendReply(c) ==
    /\ c \in alive
    /\ acceptor[c] = "tell" /\ Told(c, serving[c], "join")
    /\ answer' = [answer EXCEPT ![serving[c]] = reply[c]]
    /\ acceptor' = [acceptor EXCEPT ![c] = "connect"]
    /\ UNCHANGED <<alive, crashes, peerVars, asking, serving, reply, tellVars>>

\* The joiner is dead and the send fails: open returns -1, p stays on the list
\* and its channel is watched by nobody.
ReplyFails(c) ==
    /\ c \in alive
    /\ acceptor[c] = "tell" /\ Told(c, serving[c], "join")
    /\ serving[c] \notin alive
    /\ acceptor' = [acceptor EXCEPT ![c] = "idle"]
    /\ serving' = [serving EXCEPT ![c] = NoPeer]
    /\ reply' = [reply EXCEPT ![c] = <<>>]
    /\ UNCHANGED <<alive, crashes, peerVars, asking, answer, tellVars>>

\* The acceptor watches the joiner's channel, refused or not, and connects to
\* its follower endpoint.
ConnectFollower(c) ==
    /\ c \in alive
    /\ acceptor[c] = "connect" /\ serving[c] \in alive
    /\ group' = [group EXCEPT ![c] = @ \cup {serving[c]}]
    /\ followers' = [followers EXCEPT ![c] = @ \cup {serving[c]}]
    /\ acceptor' = [acceptor EXCEPT ![c] = "idle"]
    /\ serving' = [serving EXCEPT ![c] = NoPeer]
    /\ reply' = [reply EXCEPT ![c] = <<>>]
    /\ UNCHANGED <<alive, crashes, peerVars, asking, answer, leaving, inbox,
                   dropped>>

\* The joiner is dead: the ServiceException of handle_input ends c.
ConnectFollowerFails(c) ==
    /\ c \in alive
    /\ acceptor[c] = "connect" /\ serving[c] \notin alive
    /\ alive' = alive \ {c}
    /\ UNCHANGED <<crashes, peerVars, joinVars, tellVars>>

\* The joiner (or rebinding member) replaces its tree by the one in the reply
\* and lets its lock go.
Joined(p) ==
    /\ p \in alive
    /\ role[p] \in {"joining", "rebinding"}
    /\ HasTree(p)
    /\ sps' = [sps EXCEPT ![p] = answer[p]]
    /\ role' = [role EXCEPT ![p] = "member"]
    /\ answer' = [answer EXCEPT ![p] = <<>>]
    /\ UNCHANGED <<alive, crashes, coordinator, client, asking, acceptor,
                   serving, reply, tellVars>>

\* Refused, or the peer it asked is gone (before the reply, or after it and
\* before setCloseListener): joinMesh or the caller throws, the process ends.
JoinFails(p) ==
    /\ p \in alive
    /\ role[p] \in {"joining", "rebinding"}
    /\ answer[p] = Refused \/ client[p] \notin alive
    /\ alive' = alive \ {p}
    /\ UNCHANGED <<crashes, peerVars, joinVars, tellVars>>

-----------------------------------------------------------------------------
(* What a follower is told.  The notices of a coordinator that died since   *)
(* may still be read, also after the follower has joined the next one.      *)

\* A peer handles the notices of one channel in order, under its lock.
Notice(c, f, kind) ==
    /\ f \in alive /\ ~Locked(f)
    /\ inbox[c][f] # <<>> /\ Head(inbox[c][f])[1] = kind
    /\ inbox' = [inbox EXCEPT ![c][f] = Tail(@)]
    /\ UNCHANGED <<alive, crashes, role, coordinator, client, joinVars, group,
                   followers, leaving>>

HandleCoordinatorJoinMesh(c, f) ==
    /\ Notice(c, f, "join")
    /\ LET p == Head(inbox[c][f])[2] IN
       /\ sps' = [sps EXCEPT ![f] = Add(@, p)]
       /\ dropped' = IF p \in ToSet(sps'[f]) THEN dropped ELSE dropped \cup {f}

HandleCoordinatorLeaveMesh(c, f) ==
    /\ Notice(c, f, "leave")
    /\ sps' = [sps EXCEPT ![f] = Erase(@, Head(inbox[c][f])[2])]
    /\ UNCHANGED dropped

-----------------------------------------------------------------------------
(* Departures.                                                             *)

\* The channel of a member of m_cellGroup ends: onClose and leaveMesh take it
\* off the list and tell the followers.  leaveMesh releases one of the two
\* levels at which it holds the recursive lock.
LeaveMesh(c, p) ==
    /\ c \in alive /\ ~Locked(c)
    /\ p \in group[c] \ alive
    /\ group' = [group EXCEPT ![c] = @ \ {p}]
    /\ followers' = [followers EXCEPT ![c] = @ \ {p}]
    /\ sps' = [sps EXCEPT ![c] = Erase(@, p)]
    /\ leaving' = [leaving EXCEPT ![c] = p]
    /\ Tell(c, p, "leave")
    /\ UNCHANGED <<alive, crashes, role, coordinator, client, joinVars, dropped>>

LeaveTold(c) ==
    /\ c \in alive
    /\ leaving[c] # NoPeer /\ Told(c, leaving[c], "leave")
    /\ leaving' = [leaving EXCEPT ![c] = NoPeer]
    /\ UNCHANGED <<alive, crashes, peerVars, joinVars, group, followers, inbox,
                   dropped>>

\* onClose of m_client: the guard of the three actions below.
CoordinatorGone(p) ==
    /\ p \in alive /\ ~Locked(p)
    /\ client[p] # NoPeer /\ client[p] \notin alive

\* handleCoordinatorFailure, when the dead peer is the first of the list of p.
Survivors(p) == Erase(sps[p], client[p])

\* Mutant: every follower takes over.
Anybody(p) == TRUE
IsNext(p) == Head(Survivors(p)) = p

\* p is next: it becomes the coordinator.
BecomeCoordinator(p) ==
    /\ CoordinatorGone(p) /\ Head(sps[p]) = client[p]
    /\ IsNext(p)
    /\ sps' = [sps EXCEPT ![p] = Survivors(p)]
    /\ coordinator' = coordinator \cup {p}
    /\ client' = [client EXCEPT ![p] = NoPeer]
    /\ UNCHANGED <<alive, crashes, role, joinVars, tellVars>>

\* Another peer is next: p joins it, holding its own lock.  A connection that
\* is refused throws, and p ends.
RebindToNewCoordinator(p) ==
    /\ CoordinatorGone(p) /\ Head(sps[p]) = client[p]
    /\ LET next == Head(Survivors(p)) IN
       /\ ~IsNext(p)
       /\ sps' = [sps EXCEPT ![p] = Survivors(p)]
       /\ client' = [client EXCEPT ![p] = next]
       /\ IF next \in alive
          THEN /\ role' = [role EXCEPT ![p] = "rebinding"]
               /\ asking' = asking \cup {<<p, next>>}
               /\ UNCHANGED alive
          ELSE /\ alive' = alive \ {p}
               /\ UNCHANGED <<role, asking>>
    /\ UNCHANGED <<crashes, coordinator, answer, acceptor, serving, reply,
                   tellVars>>

\* The dead peer is not the first of the list: "wrong coordinator" is logged
\* and p does nothing more.
WrongCoordinator(p) ==
    /\ CoordinatorGone(p) /\ Head(sps[p]) # client[p]
    /\ role' = [role EXCEPT ![p] = "orphan"]
    /\ client' = [client EXCEPT ![p] = NoPeer]
    /\ UNCHANGED <<alive, crashes, coordinator, sps, joinVars, tellVars>>

\* The environment kills a process.
Crash(p) ==
    /\ p \in alive /\ crashes < MaxCrash
    /\ alive' = alive \ {p}
    /\ crashes' = crashes + 1
    /\ UNCHANGED <<peerVars, joinVars, tellVars>>

-----------------------------------------------------------------------------
Next ==
    \/ \E p \in Peer :
          \/ Joined(p) \/ JoinFails(p) \/ Crash(p)
          \/ BecomeCoordinator(p) \/ RebindToNewCoordinator(p) \/ WrongCoordinator(p)
          \/ SendReply(p) \/ ReplyFails(p)
          \/ ConnectFollower(p) \/ ConnectFollowerFails(p)
          \/ LeaveTold(p)
    \/ \E c, p \in Peer :
          \/ Dial(p, c) \/ HandleJoinCell(c, p) \/ NoInitPacket(c, p)
          \/ HandleCoordinatorJoinMesh(c, p) \/ HandleCoordinatorLeaveMesh(c, p)
          \/ LeaveMesh(c, p)

Spec == Init /\ [][Next]_vars

-----------------------------------------------------------------------------
Role == {"new", "joining", "member", "rebinding", "orphan"}

Notices == {"join", "leave"} \X Peer

\* The types of the variables.
TypeOK ==
    /\ alive \subseteq Peer
    /\ crashes \in 0..MaxCrash
    /\ role \in [Peer -> Role]
    /\ coordinator \subseteq Peer
    /\ sps \in [Peer -> Seq(Peer)]
    /\ client \in [Peer -> Peer \cup {NoPeer}]
    /\ asking \subseteq Peer \X Peer
    /\ answer \in [Peer -> Seq(Peer \cup {NoPeer})]
    /\ acceptor \in [Peer -> {"idle", "tell", "connect"}]
    /\ serving \in [Peer -> Peer \cup {NoPeer}]
    /\ reply \in [Peer -> Seq(Peer \cup {NoPeer})]
    /\ group \in [Peer -> SUBSET Peer]
    /\ followers \in [Peer -> SUBSET Peer]
    /\ leaving \in [Peer -> Peer \cup {NoPeer}]
    /\ inbox \in [Peer -> [Peer -> Seq(Notices)]]
    /\ dropped \subseteq Peer

Member(p) == p \in alive /\ role[p] = "member"

\* There is at most one coordinator alive: two members never both find themselves
\* next (handleCoordinatorFailure elects from each one's own list).  It is the
\* first of its own list, whatever joins, departures and late notices it has
\* handled: handleCellRequest sends joiners to the first, and followers recognise
\* the coordinator's death by it.
OneCoordinator ==
    /\ \A c, d \in coordinator \cap alive : c = d
    /\ \A c \in coordinator \cap alive : sps[c] # <<>> /\ Head(sps[c]) = c

\* A follower always has a successor for its coordinator on its list (itself, if
\* nobody else): handleCoordinatorFailure uses the next front unchecked.
SuccessorFound ==
    \A p \in alive : Member(p) /\ p \notin coordinator =>
        \E q \in ToSet(sps[p]) : q # client[p]

\* p is before q on the list of r.
Before(r, p, q) ==
    \E i, j \in 1..Len(sps[r]) : i < j /\ sps[r][i] = p /\ sps[r][j] = q

\* The cell of k, whether k lives or not: k itself, and the members that will elect
\* when they notice that k is dead (handleCoordinatorFailure).
CellOf(k) ==
    {m \in alive : role[m] = "member" /\ Head(sps[m]) = k /\ (m = k \/ client[m] = k)}

\* p waits for an answer that nobody will give, and ends.
Stranded(p) == role[p] \in {"joining", "rebinding"} /\ client[p] \notin alive

\* The members of one cell agree on the order of succession of any two peers that are
\* listed by its coordinator, and so on one successor: the list at the coordinator,
\* the notices and the trees that replace others when a member rebinds all build the
\* same order, unless a list that was full of dead peers has dropped a newcomer
\* (CellTreeNode::add).  A late notice of a coordinator that died before can reorder a
\* peer that is stranded with that one.
SuccessionAgreed ==
    dropped = {} =>
        \A k \in coordinator : \A r, s \in CellOf(k) :
            \A p, q \in {m \in alive \cap ToSet(sps[k]) : ~Stranded(m)} :
                Before(r, p, q) => ~Before(s, q, p)

\* The followers of one coordinator know one another or are about to be told:
\* joinPeer and the tree of the reply complete one another, and a tree that
\* replaces an older one loses no notice.  Only a list that is full because
\* of a peer that its coordinator no longer lists (a departure told before the
\* follower connection was there) drops a newcomer in CellTreeNode::add.
Acquainted ==
    \A c \in alive : \A p, q \in {m \in followers[c] : Member(m) /\ client[m] = c} :
        \/ p \in ToSet(sps[q])
        \/ <<"join", p>> \in ToSet(inbox[c][q])
        \/ q \in dropped

\* A member of the cell that has never been out of touch with its coordinator
\* is on that coordinator's list, so that its death is noticed (leaveMesh) and
\* it is a successor for the others, who are acquainted with it.
NotForgotten ==
    /\ \A p \in Peer : Member(p) /\ client[p] \in alive => p \in ToSet(sps[client[p]])
    /\ Acquainted

\* The processes that have ended, for whatever reason.
Deaths == Cardinality(Peer \ alive)

\* While at most one process has died, a process dies only when it is killed, when
\* its first join fails or when a joiner dies under the hands of its acceptor: the
\* rebind of a member after the death of its coordinator does not fail
\* (rebindToNewCoordinator would end the process).  In a full cell it may: the slots
\* are asked for before the duplicate.
RebindSucceeds ==
    [][Deaths <= 1 =>
         \A p \in alive \ alive' :
            \/ crashes' > crashes
            \/ role[p] = "joining"
            \/ acceptor[p] = "connect"
            \/ role[p] = "rebinding" /\ answer[p] = Refused]_vars

-----------------------------------------------------------------------------
(* Fairness: while some thread can take a step, other than to ask for a     *)
(* cell or to be killed, one does; a weak demand, enough because a cell      *)
(* comes to rest.  TCP reports the end of a process.                         *)
Progress ==
    \/ \E p \in Peer :
          \/ Joined(p) \/ JoinFails(p)
          \/ BecomeCoordinator(p) \/ RebindToNewCoordinator(p) \/ WrongCoordinator(p)
          \/ SendReply(p) \/ ReplyFails(p)
          \/ ConnectFollower(p) \/ ConnectFollowerFails(p)
          \/ LeaveTold(p)
    \/ \E c, p \in Peer :
          \/ HandleJoinCell(c, p) \/ NoInitPacket(c, p)
          \/ HandleCoordinatorJoinMesh(c, p) \/ HandleCoordinatorLeaveMesh(c, p)
          \/ LeaveMesh(c, p)

Fairness == WF_vars(Progress)

FairSpec == Spec /\ Fairness

\* All the peers of the cell follow one live coordinator.
Reunited ==
    \E c \in Peer : \A p \in alive :
        \/ role[p] = "new"
        \/ Member(p) /\ (IF p = c THEN p \in coordinator ELSE client[p] = c /\ c \in alive)

\* The cell comes to rest around one coordinator: nobody waits for ever on a
\* lock, an acknowledgement or a reply, every member that survives the death of
\* the coordinator finds the same successor, and its rebind does not end it.  A
\* second death may leave a member with a stale list (WrongCoordinator), which
\* nothing corrects.
EventuallyReunited ==
    /\ <>[]Reunited \/ <>(Deaths > 1)
    /\ RebindSucceeds
=============================================================================
