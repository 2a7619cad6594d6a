------------------------------ MODULE MeshInfo ------------------------------
(***************************************************************************)
(* What the super-peers know of each other's services (Cell::updateState,  *)
(* handleUpdateInfo, CellGroup, P3Mesh).  A peer that creates a service, or *)
(* whose instance gets another IID, enters it in its own tree and calls    *)
(* the peer above it: its coordinator, or a coordinator the one of the     *)
(* parent cell.  That one enters it, calls the next and then tells its     *)
(* followers; every call is waited for, so the application gets control    *)
(* back when all of them know.  Meanwhile followers join: the tree they    *)
(* are sent is taken under the lock, and the channel over which they are   *)
(* told what changes is opened later.                                      *)
(*                                                                         *)
(* A thread is named <<peer, source>>: the reader of the channel from a    *)
(* peer below or from a leaf, the publisher (the source is the peer        *)
(* itself; the mesh's lock lets one in at a time) or the acceptor.  Deaths *)
(* and rebinds are the subject of Cell and CellMesh; the only process that *)
(* ends here is one whose own code ends it.                                *)
(***************************************************************************)
EXTENDS Naturals, Sequences, FiniteSets

CONSTANTS
    None,
    Coordinators,
    Followers,
    Leaves,
    Above,        \* the peer that a peer or a leaf is connected to, or None
    Early,        \* the followers that have joined already
    Publishers,   \* the peers whose services change
    MaxUpdates,   \* bound: service updates of a publisher, 1 or 2
    MaxTimeouts   \* bound: calls that are given up

Peers == Coordinators \cup Followers

ASSUME TopologyAssumption ==
    /\ Above \in [Peers \cup Leaves -> Coordinators \cup {None}]
    /\ \A x \in Followers \cup Leaves : Above[x] # None
    /\ Early \subseteq Followers /\ Publishers \subseteq Peers
    /\ MaxUpdates \in 1..2

VARIABLES
    tree,        \* tree[p]: of each peer p knows, the IIDs of its service
    sensors,     \* m_audioSensors and the like: the leaves p knows
    up,          \* the process of p runs
    st,          \* of a follower: "out", "joining", "answered" or "in"
    snapshot,    \* the tree in the answer to a follower
    group,       \* m_cellFollowerGroup of a coordinator
    task,        \* what a thread is doing
    queue,       \* the packets on the channel that a thread reads
    notices,     \* the packets to a follower from its coordinator
    published,   \* service updates of a publisher so far
    told,        \* the leaves that have announced themselves
    timeouts,
    overlapped   \* history: the followers whose join met an update

treeVars == <<tree, sensors, up>>
joinVars == <<st, snapshot, group>>
boundVars == <<published, told, timeouts>>
vars == <<treeVars, joinVars, boundVars, task, queue, notices, overlapped>>

Acceptor == "acceptor"

Threads ==
    {<<p, p>> : p \in Peers} \cup {<<c, Acceptor>> : c \in Coordinators}
        \cup {<<Above[x], x>> : x \in {y \in Peers \cup Leaves : Above[y] # None}}

Of(t) == t[1]
Source(t) == t[2]

\* AddServiceUpdateInfo, ChangegIIDServiceUpdateInfo, SensorInfoUpdate and
\* JoinMeshPacket; "of" is the peer or leaf they are about.
Items == [kind : {"service", "iid", "sensor", "join"}, of : Peers \cup Leaves]

OldIID == 1
NewIID == 2

Idle == [pc |-> "idle", item |-> None, by |-> None, pend |-> {}]

Listing(known) == [q \in known |-> {}]

Init ==
    /\ tree = [p \in Peers |->
                  IF p \in Coordinators \cup Early
                  THEN Listing(Coordinators \cup Early) ELSE Listing({p})]
    /\ sensors = [p \in Peers |-> {}]
    /\ up = [p \in Peers |-> TRUE]
    /\ st = [f \in Followers |-> IF f \in Early THEN "in" ELSE "out"]
    /\ snapshot = [f \in Followers |-> None]
    /\ group = [c \in Coordinators |-> {f \in Early : Above[f] = c}]
    /\ task = [t \in Threads |-> Idle]
    /\ queue = [t \in Threads |-> <<>>]
    /\ notices = [f \in Followers |-> <<>>]
    /\ published = [p \in Peers |-> 0]
    /\ told = {}
    /\ timeouts = 0
    /\ overlapped = {}

-----------------------------------------------------------------------------
(* processUpdateInfo.  *)

\* addServiceInstance fails on an IID that is there; without the peer there
\* is nothing to add to.  A join of a peer that is there changes nothing.
Fails(p, item) ==
    \/ item.kind \in {"service", "iid"} /\ item.of \notin DOMAIN tree[p]
    \/ /\ item.kind = "service" /\ item.of \in DOMAIN tree[p]
       /\ OldIID \in tree[p][item.of]

\* changeServiceIID of an instance that is not there is not noticed.
Entered(known, item) ==
    CASE item.kind = "service" -> [known EXCEPT ![item.of] = @ \cup {OldIID}]
      [] item.kind = "iid" ->
            [known EXCEPT ![item.of] =
                IF OldIID \in @ THEN (@ \ {OldIID}) \cup {NewIID} ELSE @]
      [] item.kind = "join" ->
            [q \in DOMAIN known \cup {item.of} |->
                IF q \in DOMAIN known THEN known[q] ELSE {}]
      [] OTHER -> known

\* An update that fails breaks out of the inner switch only: the sensor case
\* follows, with no list, and the process ends there.
ProcessUpdateInfo(p, item) ==
    IF Fails(p, item)
    THEN /\ up' = [up EXCEPT ![p] = FALSE]
         /\ UNCHANGED <<tree, sensors>>
    ELSE /\ tree' = [tree EXCEPT ![p] = Entered(@, item)]
         /\ sensors' = IF item.kind = "sensor"
                       THEN [sensors EXCEPT ![p] = @ \cup {item.of}] ELSE sensors
         /\ UNCHANGED up

\* The follower that the acceptor of c is letting in, None without one.
Joiner(c) == IF task[<<c, Acceptor>>].pc = "idle" THEN None
             ELSE task[<<c, Acceptor>>].item.of

\* History: an update entered between the answer's tree and the channel.
MeetsJoin(p) ==
    overlapped' = IF p \in Coordinators /\ Joiner(p) # None
                  THEN overlapped \cup {Joiner(p)} ELSE overlapped

-----------------------------------------------------------------------------
(* The calls of a thread: the peer above, then the followers.  *)

\* With the tree changed, under the lock, the thread looks who is above.
Started(t, item, by) ==
    [Idle EXCEPT !.pc = IF Above[Of(t)] # None THEN "parent" ELSE "group",
                 !.item = item, !.by = by]

\* P3Mesh::onServiceCreation, then onServiceUpdateIID: updateState
Publish(p) ==
    LET t == <<p, p>>
        item == [kind |-> IF published[p] = 0 THEN "service" ELSE "iid", of |-> p]
    IN  /\ up[p] /\ p \in Publishers
        /\ p \in Followers => st[p] = "in"
        /\ published[p] < MaxUpdates
        /\ task[t].pc = "idle"
        /\ ProcessUpdateInfo(p, item)
        /\ task' = [task EXCEPT ![t] = Started(t, item, None)]
        /\ published' = [published EXCEPT ![p] = @ + 1]
        /\ MeetsJoin(p)
        /\ UNCHANGED <<joinVars, queue, notices, told, timeouts>>

\* A leaf tells its coordinator of itself (P3LeafMesh::updateInfo).
LeafUpdate(l) ==
    /\ l \notin told
    /\ told' = told \cup {l}
    /\ queue' = [queue EXCEPT ![<<Above[l], l>>] =
                     Append(@, [item |-> [kind |-> "sensor", of |-> l], by |-> None])]
    /\ UNCHANGED <<treeVars, joinVars, task, notices, published, timeouts, overlapped>>

\* The acceptor lets the channel of a follower be read when it is done.
Reads(t) ==
    Source(t) \notin Followers \/ Source(t) \in group[Of(t)]

\* handleUpdateInfo, handleJoinMesh
HandlePacket(t) ==
    LET pkt == Head(queue[t])
    IN  /\ up[Of(t)] /\ task[t].pc = "idle"
        /\ queue[t] # <<>>
        /\ Reads(t)
        /\ ProcessUpdateInfo(Of(t), pkt.item)
        /\ task' = [task EXCEPT ![t] = Started(t, pkt.item, pkt.by)]
        /\ queue' = [queue EXCEPT ![t] = Tail(@)]
        /\ MeetsJoin(Of(t))
        /\ UNCHANGED <<joinVars, boundVars, notices>>

\* ParentCellClientHandler::updateInfo, joinSiblingPeer and, of a follower,
\* CellClientHandler::updateInfo
CallAbove(t) ==
    LET p == Of(t)
    IN  /\ up[p] /\ task[t].pc = "parent"
        /\ task' = [task EXCEPT ![t].pc = "await"]
        /\ queue' = [queue EXCEPT ![<<Above[p], p>>] =
                         Append(@, [item |-> task[t].item, by |-> t])]
        /\ UNCHANGED <<treeVars, joinVars, boundVars, notices, overlapped>>

\* What follows the call: the result is only logged.
Returned(t, tk) ==
    IF Source(t) = Acceptor THEN [tk EXCEPT !.pc = "connect"]
    ELSE IF Of(t) \in Followers THEN Idle
    ELSE [tk EXCEPT !.pc = "group"]

\* waitFuture ends after JOIN_CELL_TIMEOUT_MS, or because the channel is lost
Timeout(t) ==
    /\ up[Of(t)] /\ task[t].pc = "await"
    /\ \/ timeouts < MaxTimeouts /\ timeouts' = timeouts + 1
       \/ ~ up[Above[Of(t)]] /\ UNCHANGED timeouts
    /\ task' = [task EXCEPT ![t] = Returned(t, @)]
    /\ UNCHANGED <<treeVars, joinVars, queue, notices, published, told, overlapped>>

\* Mutant: the source is the peer itself, as in updateState.
NotToldSelf(t) == IF task[t].item.kind = "join" THEN task[t].item.of ELSE Of(t)

\* joinPeer leaves out the one that joins, updateInfo the one that sent it.
NotTold(t) == IF task[t].item.kind = "join" THEN task[t].item.of ELSE Source(t)

\* Mutant: the group is not told of what came from below.
TellGroupOwn(t) ==
    LET to == IF Source(t) \in {Of(t), Acceptor}
              THEN {f \in group[Of(t)] : f # NotTold(t) /\ up[f]} ELSE {}
    IN  /\ up[Of(t)] /\ task[t].pc = "group"
        /\ task' = [task EXCEPT ![t].pc = "acks", ![t].pend = to]
        /\ notices' = [f \in Followers |->
                          IF f \in to
                          THEN Append(notices[f], [item |-> task[t].item, by |-> t])
                          ELSE notices[f]]
        /\ UNCHANGED <<treeVars, joinVars, boundVars, queue, overlapped>>

\* CellGroup::updateInfo, joinPeer: the members there are now.
TellGroup(t) ==
    LET to == {f \in group[Of(t)] : f # NotTold(t) /\ up[f]}
    IN  /\ up[Of(t)] /\ task[t].pc = "group"
        /\ task' = [task EXCEPT ![t].pc = "acks", ![t].pend = to]
        /\ notices' = [f \in Followers |->
                          IF f \in to
                          THEN Append(notices[f], [item |-> task[t].item, by |-> t])
                          ELSE notices[f]]
        /\ UNCHANGED <<treeVars, joinVars, boundVars, queue, overlapped>>

\* handleCoordinatorUpdateInfo, handleCoordinatorJoinMesh: open holds the
\* follower's lock until it has its tree
HandleNotice(f) ==
    LET n == Head(notices[f])
    IN  /\ up[f] /\ st[f] = "in"
        /\ notices[f] # <<>>
        /\ ProcessUpdateInfo(f, n.item)
        /\ notices' = [notices EXCEPT ![f] = Tail(@)]
        /\ task' = IF up'[f] THEN [task EXCEPT ![n.by].pend = @ \ {f}] ELSE task
        /\ UNCHANGED <<joinVars, boundVars, queue, overlapped>>

\* All have answered, or are gone and their requests cancelled.
Acknowledged(t) ==
    up[Of(t)] /\ task[t].pc = "acks" /\ \A f \in task[t].pend : ~ up[f]

\* The reply goes to the thread below that still waits for it.
Finish(t) ==
    LET by == task[t].by
        done == [task EXCEPT ![t] = Idle]
    IN  /\ Acknowledged(t) /\ Source(t) # Acceptor
        /\ task' = IF by # None /\ task[by].pc = "await" /\ task[by].item = task[t].item
                   THEN [done EXCEPT ![by] = Returned(by, @)] ELSE done
        /\ UNCHANGED <<treeVars, joinVars, boundVars, queue, notices, overlapped>>

-----------------------------------------------------------------------------
(* A follower joins.  *)

\* Entered and not told to the group yet.
Unsent(c) ==
    \E t \in Threads : Of(t) = c /\ Source(t) # Acceptor
                       /\ task[t].pc \in {"parent", "await", "group"}

\* handleJoinCell: the joiner is entered and the tree taken, under the lock
HandleJoinCell(f) ==
    LET c == Above[f]
        item == [kind |-> "join", of |-> f]
    IN  /\ up[c] /\ st[f] = "out"
        /\ task[<<c, Acceptor>>].pc = "idle"
        /\ tree' = [tree EXCEPT ![c] = Entered(@, item)]
        /\ snapshot' = [snapshot EXCEPT ![f] = tree'[c]]
        /\ st' = [st EXCEPT ![f] = "joining"]
        /\ task' = [task EXCEPT ![<<c, Acceptor>>] =
                        [Idle EXCEPT !.pc = "group", !.item = item]]
        /\ overlapped' = IF Unsent(c) THEN overlapped \cup {f} ELSE overlapped
        /\ UNCHANGED <<sensors, up, group, boundVars, queue, notices>>

\* The followers know: the reply goes out, and then the parent is told.
SendJoinReply(c) ==
    LET t == <<c, Acceptor>>
    IN  /\ Acknowledged(t)
        /\ st' = [st EXCEPT ![task[t].item.of] = "answered"]
        /\ task' = [task EXCEPT ![t].pc =
                        IF Above[c] # None THEN "parent" ELSE "connect"]
        /\ UNCHANGED <<treeVars, snapshot, group, boundVars, queue, notices, overlapped>>

\* joinNonCoordinator: the tree in the reply; what leaves have told is not
\* in it
Joined(f) ==
    /\ up[f] /\ st[f] = "answered"
    /\ st' = [st EXCEPT ![f] = "in"]
    /\ tree' = [tree EXCEPT ![f] = snapshot[f]]
    /\ snapshot' = [snapshot EXCEPT ![f] = None]
    /\ UNCHANGED <<sensors, up, group, boundVars, task, queue, notices, overlapped>>

\* CellAcceptor::handle_input: the channel to the follower's own endpoint
ConnectFollower(c) ==
    LET t == <<c, Acceptor>>
    IN  /\ up[c] /\ task[t].pc = "connect"
        /\ group' = [group EXCEPT ![c] = @ \cup {task[t].item.of}]
        /\ task' = [task EXCEPT ![t] = Idle]
        /\ UNCHANGED <<treeVars, st, snapshot, boundVars, queue, notices, overlapped>>

-----------------------------------------------------------------------------
ThreadStep(t) ==
    HandlePacket(t) \/ CallAbove(t) \/ TellGroup(t) \/ Finish(t)

FollowerStep(f) == HandleNotice(f) \/ Joined(f)

AcceptorStep(c) == SendJoinReply(c) \/ ConnectFollower(c)

Next ==
    \/ \E p \in Peers : Publish(p)
    \/ \E l \in Leaves : LeafUpdate(l)
    \/ \E t \in Threads : ThreadStep(t) \/ Timeout(t)
    \/ \E f \in Followers : HandleJoinCell(f) \/ FollowerStep(f)
    \/ \E c \in Coordinators : AcceptorStep(c)

Spec == Init /\ [][Next]_vars

\* A call over a lost channel ends.
LostCall(t) == ~ up[Above[Of(t)]] /\ Timeout(t)

\* Every thread goes on while it can; nobody has to publish, join or give up.
\* No behaviour goes on for ever, so what one thread can do it does in the end.
Progress ==
    \/ \E t \in Threads : ThreadStep(t) \/ (task[t].pc = "await" /\ LostCall(t))
    \/ \E f \in Followers : FollowerStep(f)
    \/ \E c \in Coordinators : AcceptorStep(c)

Fairness == WF_vars(Progress)

FairSpec == Spec /\ Fairness

-----------------------------------------------------------------------------
(***************************************************************************)
(* Every thread works on an item of its own peer's business, waits only    *)
(* for members of its group, and a follower is read only once it is in.    *)
(***************************************************************************)
TypeOK ==
    /\ \A p \in Peers : /\ \A q \in DOMAIN tree[p] : tree[p][q] \subseteq {OldIID, NewIID}
                        /\ p \in DOMAIN tree[p]
                        /\ sensors[p] \subseteq Leaves
    /\ \A t \in Threads :
          task[t] \in [pc : {"idle", "parent", "await", "group", "acks", "connect"},
                       item : Items \cup {None}, by : Threads \cup {None},
                       pend : SUBSET Followers]
    /\ \A c \in Coordinators : \A f \in group[c] : st[f] \in {"answered", "in"}

(***************************************************************************)
(* An update never ends the process that handles it: whoever is told of a  *)
(* service lists its peer and does not have the service yet.  Only a       *)
(* follower whose join met an update, between the tree it was sent and its *)
(* channel, may be told twice or of a peer it does not know                *)
(* (processUpdateInfo's fall-through, handleJoinCell, CellAcceptor).       *)
(***************************************************************************)
Survives == TypeOK /\ \A p \in Peers : up[p] \/ p \in overlapped

\* The coordinators above a peer or leaf, and their groups.
CellsAbove[c \in Coordinators] ==
    {c} \cup IF Above[c] = None THEN {} ELSE CellsAbove[Above[c]]

Audience(x) ==
    LET cs == CellsAbove[IF x \in Coordinators THEN x ELSE Above[x]]
    IN  {p \in cs \cup UNION {group[c] : c \in cs} :
            up[p] /\ (p \in Followers => st[p] = "in") /\ p \notin overlapped}

Quiet ==
    /\ \A t \in Threads : task[t].pc = "idle" /\ queue[t] = <<>>
    /\ \A f \in Followers : notices[f] = <<>>

(***************************************************************************)
(* When an update has returned to the application, every coordinator above *)
(* it and all their followers have its services under their present IID;   *)
(* where calls were given up, they have when everything has come to rest   *)
(* (updateState and handleUpdateInfo: process, parent, group, answer).     *)
(* Excepted are the followers whose join met an update.  The sensors that  *)
(* leaves have told reach those that were there.                           *)
(***************************************************************************)
Informed ==
    /\ \A q \in Publishers :
          (/\ up[q] /\ published[q] > 0
           /\ task[<<q, q>>].pc = "idle"
           /\ timeouts = 0 \/ Quiet)
          => \A p \in Audience(q) :
                q \in DOMAIN tree[p] /\ tree[p][q] = tree[q][q]
    /\ Quiet => \A l \in told : \A p \in Audience(l) :
                   p \in Coordinators \cup Early => l \in sensors[p]

(***************************************************************************)
(* The update of no peer is under way, and every follower that was entered *)
(* in the tree has its answer and its channel.  That it is so again and    *)
(* again: the waits of coordinators for their followers, of followers for  *)
(* their coordinators and of joiners for both never close a circle.        *)
(***************************************************************************)
UpdatesReturned ==
    /\ \A p \in Peers : task[<<p, p>>].pc = "idle" \/ ~ up[p]
    /\ \A f \in Followers :
          \/ st[f] = "out" \/ ~ up[f]
          \/ st[f] = "in" /\ f \in group[Above[f]]
=============================================================================
