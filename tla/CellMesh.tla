------------------------------ MODULE CellMesh ------------------------------
(***************************************************************************)
(* The mesh of cells: coordinators, one per cell, each with its tree of    *)
(* the cells below it and a channel to the coordinator of its parent cell  *)
(* (Cell.cpp, ParentCellClientHandler, CellSvcHandler, CellAcceptor).  A   *)
(* coordinator joins below a place the root's coordinator gives it; every  *)
(* join and leave is entered in the tree and passed on to the parent,      *)
(* which is waited for; a coordinator whose parent is gone asks the root   *)
(* for a place and rebinds there with its whole tree, or becomes the root. *)
(*                                                                         *)
(* A channel is named <<child, n>>: a coordinator that was refused may     *)
(* dial again before the other side has seen its old channel close.  The   *)
(* parent's end has one thread, which takes one packet at a time and may   *)
(* itself wait for the next parent.  The acceptor handles the first packet *)
(* of a channel, so first packets come one after the other.  fireRebind    *)
(* and open hold the cell's lock from end to end: only a coordinator that  *)
(* is "up" handles anything.                                               *)
(***************************************************************************)
EXTENDS CellTree

CONSTANTS
    Peers,       \* the coordinators; a cell made for x is named x
    First,       \* the one that is the root at the start
    MaxCrashes   \* bound: coordinators that crash

VARIABLES
    st,          \* st[x]: "out", "asked", "joining", "up", "seeking",
                 \* "rebinding" or "down"
    cellOf,      \* m_cellID
    tree,        \* m_cellTree
    link,        \* the number of x's channel to its parent, 0 for none
    aim,         \* the place x was given: <<coordinator, cell>>
    ans,         \* the answer to the call x itself is waiting for
    roots,       \* the coordinators on the root's discovery channel
    conn,        \* conn[<<x, n>>]: the parent's end of a channel, or None
    crashes

nodeVars == <<cellOf, aim, roots, crashes>>
vars == <<st, tree, link, ans, conn, nodeVars>>

Keys == Peers \X {1, 2}
Child(k) == k[1]

Idle == [op |-> "none", state |-> "none", status |-> FALSE, by |-> None]

NewConn(to, pkt) ==
    [to |-> to, q |-> <<pkt>>, eof |-> FALSE, opened |-> FALSE, task |-> Idle]

Own(x, cell) == [NewTree(cell) EXCEPT ![<<>>] = add(@, "sps", x)]

Init ==
    /\ st = [x \in Peers |-> IF x = First THEN "up" ELSE "out"]
    /\ cellOf = [x \in Peers |-> IF x = First THEN x ELSE None]
    /\ tree = [x \in Peers |-> IF x = First THEN Own(x, x) ELSE None]
    /\ link = [x \in Peers |-> 0]
    /\ aim = [x \in Peers |-> None]
    /\ ans = [x \in Peers |-> None]
    /\ roots = {First}
    /\ conn = [k \in Keys |-> None]
    /\ crashes = 0

-----------------------------------------------------------------------------
Live(k) == conn[k] # None /\ st[conn[k].to] = "up"

\* The channel of x to its parent, None without one.
Link(x) == IF link[x] = 0 THEN None ELSE <<x, link[x]>>

\* leave in a tree: the peer goes from its cell, a cell without super-peers
\* goes with all below it; the status is that the peer was there
Listed(t, pid, cell) ==
    LET at == getCellTreeNode(t, cell)
    IN  at # None /\ \E k \in Kinds : HasPid(t[at].peers[k], pid)

Left(t, pid, cell) ==
    IF ~ Listed(t, pid, cell) THEN t
    ELSE LET at == getCellTreeNode(t, cell)
             less == [t EXCEPT ![at] = remove(@, pid)]
         IN  IF less[at].peers["sps"] = <<>> THEN removeSubtree(less, cell)
             ELSE less

\* What a thread at p does once its tree is changed: c is the state of the
\* channels, task the thread's work.  With a parent it passes pkt on and
\* waits (joinSiblingPeer, rebindSiblingPeer, leftSiblingPeer).
PassOn(c, p, k, pkt, task) ==
    [c EXCEPT ![Link(p)].q = Append(@, [pkt EXCEPT !.by = k]),
              ![k].task = [task EXCEPT !.state = "wait"]]

\* The answer to the packet a thread has handled: to the thread at the
\* child that waits for it, or to the child's own call.
AnswerTask(c, by, status) ==
    IF by = None \/ c[by] = None \/ c[by].task.state # "wait" THEN c
    ELSE [c EXCEPT ![by].task.state = IF status THEN "ok" ELSE "no"]

Answered(k, by, status) ==
    ans' = IF by = None /\ ~ conn[k].eof /\ Link(Child(k)) = k
           THEN [ans EXCEPT ![Child(k)] = IF status THEN "ok" ELSE "no"] ELSE ans

-----------------------------------------------------------------------------
(* Joining.  *)

\* handleCellRequest from a peer without a cell: a cell with room, else a
\* new one.  Of the cells a coordinator is missing from, the peer becomes
\* the coordinator; the place is below the coordinator of the parent cell.
RequestCell(x, r) ==
    LET at == getAvailableNode(tree[r], "sps")
        place == createCell_i(tree[r], <<>>)
        t == IF at # None THEN tree[r] ELSE createSibling(tree[r], place, x)
        new == IF at # None THEN at ELSE getCellTreeNode(t, x)
        above == t[t[new].parent]
    IN  /\ st[x] = "out"
        /\ r \in roots /\ st[r] = "up"
        /\ tree' = [tree EXCEPT ![r] = t, ![x] = Own(x, t[new].cell)]
        /\ cellOf' = [cellOf EXCEPT ![x] = t[new].cell]
        /\ aim' = [aim EXCEPT ![x] = <<Coordinator(above), above.cell>>]
        /\ st' = [st EXCEPT ![x] = "asked"]
        /\ UNCHANGED <<link, ans, conn, roots, crashes>>

FreeConn(x) == CHOOSE n \in {1, 2} : conn[<<x, n>>] = None

Packet(op, x, at) ==
    [op |-> op, pid |-> x, cell |-> cellOf[x], parent |-> at[2], by |-> None,
     tree |-> IF op = "rebind" THEN Serialize(tree[x]) ELSE None]

\* A channel to a coordinator, the join or rebind the first packet on it.
Dial(x, op, at) ==
    /\ \E n \in {1, 2} : conn[<<x, n>>] = None
    /\ conn' = [conn EXCEPT ![<<x, FreeConn(x)>>] = NewConn(at[1], Packet(op, x, at))]
    /\ link' = [link EXCEPT ![x] = FreeConn(x)]
    /\ ans' = [ans EXCEPT ![x] = None]

\* joinCoordinator, connecToParentCoordinator: a peer that cannot connect
\* does not start
Join(x) ==
    /\ st[x] = "asked"
    /\ IF st[aim[x][1]] = "down"
       THEN st' = [st EXCEPT ![x] = "down"] /\ UNCHANGED <<conn, link, ans>>
       ELSE st' = [st EXCEPT ![x] = "joining"] /\ Dial(x, "join", aim[x])
    /\ UNCHANGED <<tree, nodeVars>>

\* The result of joinMesh is not looked at: refused, the cell runs without
\* a parent.
JoinDone(x) ==
    /\ st[x] = "joining" /\ ans[x] # None
    /\ st' = [st EXCEPT ![x] = "up"]
    /\ IF ans[x] = "ok" THEN UNCHANGED <<conn, link>>
       ELSE /\ conn' = [conn EXCEPT ![Link(x)].eof = TRUE]
            /\ link' = [link EXCEPT ![x] = 0]
    /\ UNCHANGED <<tree, ans, nodeVars>>

-----------------------------------------------------------------------------
(* The parent's end of a channel.  *)

\* The acceptor opens one channel at a time.
MayServe(k) ==
    /\ Live(k)
    /\ conn[k].task.op = "none"
    /\ conn[k].q # <<>>
    /\ conn[k].opened \/ \A j \in Keys :
          (conn[j] # None /\ conn[j].to = conn[k].to /\ ~ conn[j].opened)
              => conn[j].task.op = "none"

Taken(k) == [conn EXCEPT ![k].q = Tail(@), ![k].opened = TRUE]

\* Mutant: the parent is not told.
EnteredHere(k, t, ok) ==
    /\ tree' = [tree EXCEPT ![conn[k].to] = t]
    /\ conn' = AnswerTask(Taken(k), Head(conn[k].q).by, ok)
    /\ Answered(k, Head(conn[k].q).by, ok)

\* A join or rebind that the tree took is passed on, and refused below when
\* it is refused above; one that the tree did not take is refused.
Entered(k, t, ok) ==
    LET p == conn[k].to
        pkt == Head(conn[k].q)
        c == [Taken(k) EXCEPT ![k].opened = conn[k].opened]
        task == [op |-> pkt.op, state |-> "wait", status |-> ok, by |-> pkt.by]
    IN  /\ tree' = [tree EXCEPT ![p] = t]
        /\ IF ok /\ link[p] # 0
           THEN conn' = PassOn(c, p, k, pkt, task) /\ UNCHANGED ans
           ELSE /\ conn' = AnswerTask(Taken(k), pkt.by, ok)
                /\ Answered(k, pkt.by, ok)

HandleJoinMesh(k) ==
    LET pkt == Head(conn[k].q)
        t == tree[conn[k].to]
        new == addPeerBelow(t, "sps", pkt.pid, pkt.cell, pkt.parent)
    IN  /\ MayServe(k)
        /\ pkt.op = "join"
        /\ Entered(k, new, new # t)
        /\ UNCHANGED <<st, link, nodeVars>>

\* handleRebindMesh is reached from open alone
HandleRebindMesh(k) ==
    LET pkt == Head(conn[k].q)
        t == tree[conn[k].to]
        sub == Deserialize(pkt.tree)
    IN  /\ MayServe(k)
        /\ pkt.op = "rebind" /\ ~ conn[k].opened
        /\ Entered(k, addSubtree(t, sub, pkt.parent), addSubtreeOk(t, sub, pkt.parent))
        /\ UNCHANGED <<st, link, nodeVars>>

\* handlePacket does not know REBIND_MESH_PACKET: no answer will come
DropRebind(k) ==
    LET pkt == Head(conn[k].q)
    IN  /\ MayServe(k)
        /\ pkt.op = "rebind" /\ conn[k].opened
        /\ conn' = IF pkt.by # None /\ conn[pkt.by] # None
                   THEN [Taken(k) EXCEPT ![pkt.by].task.state = "lost"]
                   ELSE Taken(k)
        /\ UNCHANGED <<st, tree, link, ans, nodeVars>>

\* handleLeaveMesh passes on who sent the packet, and its own cell; the
\* status it answers is its own tree's
HandleLeaveMesh(k) ==
    LET p == conn[k].to
        pkt == Head(conn[k].q)
        status == Listed(tree[p], pkt.pid, pkt.cell)
        task == [op |-> "leave", state |-> "wait", status |-> status, by |-> pkt.by]
        up == [pkt EXCEPT !.pid = Child(k), !.cell = cellOf[p]]
    IN  /\ MayServe(k)
        /\ pkt.op = "leave"
        /\ tree' = [tree EXCEPT ![p] = Left(@, pkt.pid, pkt.cell)]
        /\ conn' = IF link[p] # 0 THEN PassOn(Taken(k), p, k, up, task)
                   ELSE AnswerTask(Taken(k), pkt.by, status)
        /\ UNCHANGED <<st, link, ans, nodeVars>>

\* The parent has answered.
Resume(k) ==
    LET task == conn[k].task
        ok == task.status /\ (task.op = "leave" \/ task.state = "ok")
        done == [conn EXCEPT ![k].task = Idle, ![k].opened = TRUE]
    IN  /\ conn[k] # None
        /\ task.state \in {"ok", "no"}
        /\ conn' = IF task.op = "left" THEN [conn EXCEPT ![k] = None]
                   ELSE AnswerTask(done, task.by, ok)
        /\ IF task.op \in {"join", "rebind"} THEN Answered(k, task.by, ok)
           ELSE UNCHANGED ans
        /\ UNCHANGED <<st, tree, link, nodeVars>>

\* waitFuture ends after JOIN_CELL_TIMEOUT_MS.  The child's own call, made
\* a moment earlier with the same time, ends the same way.
Timeout(k) ==
    /\ conn[k] # None
    /\ conn[k].task.state = "lost"
    /\ conn' = [conn EXCEPT ![k].task.state = "no"]
    /\ UNCHANGED <<st, tree, link, ans, nodeVars>>

\* onClose of a child's channel, leaveMesh
OnClose(k) ==
    LET p == conn[k].to
        x == Child(k)
        pkt == [op |-> "leave", pid |-> x, cell |-> cellOf[x], parent |-> None,
                by |-> None, tree |-> None]
        task == [op |-> "left", state |-> "wait", status |-> TRUE, by |-> None]
    IN  /\ Live(k)
        /\ conn[k].eof /\ conn[k].opened /\ conn[k].q = <<>> /\ conn[k].task.op = "none"
        /\ tree' = [tree EXCEPT ![p] = Left(@, x, cellOf[x])]
        /\ conn' = IF link[p] # 0 THEN PassOn(conn, p, k, pkt, task)
                   ELSE [conn EXCEPT ![k] = None]
        /\ UNCHANGED <<st, link, ans, nodeVars>>

-----------------------------------------------------------------------------
(* Rebinding.  *)

ParentDown(x) == link[x] # 0 /\ st[conn[Link(x)].to] = "down"

\* The calls made over a channel that is lost are cancelled (clearAll).
Cancelled(x) ==
    [k \in Keys |->
        IF k = Link(x) THEN None
        ELSE IF conn[k] # None /\ conn[k].to = x /\ conn[k].task.state \in {"wait", "lost"}
        THEN [conn[k] EXCEPT !.task.state = "no"]
        ELSE conn[k]]

\* onClose of the parent's channel: fireRebind
ParentLost(x) ==
    /\ st[x] = "up" /\ ParentDown(x)
    /\ st' = [st EXCEPT ![x] = "seeking"]
    /\ conn' = Cancelled(x)
    /\ link' = [link EXCEPT ![x] = 0]
    /\ UNCHANGED <<tree, ans, nodeVars>>

\* The parent died while x waited for its answer: the call fails.
CallLost(x) ==
    /\ st[x] \in {"joining", "rebinding"} /\ ParentDown(x)
    /\ st' = [st EXCEPT ![x] = IF st[x] = "joining" THEN "up" ELSE "seeking"]
    /\ conn' = Cancelled(x)
    /\ link' = [link EXCEPT ![x] = 0]
    /\ UNCHANGED <<tree, ans, nodeVars>>

\* A process ends: its channels close, what it was doing is gone.
Fallen(p) ==
    [k \in Keys |->
        IF conn[k] = None \/ (Child(k) = p /\ st[conn[k].to] = "down")
              \/ (conn[k].to = p /\ st[Child(k)] = "down")
        THEN None
        ELSE IF Child(k) = p THEN [conn[k] EXCEPT !.eof = TRUE]
        ELSE conn[k]]

\* handleCellRequest from a peer with a cell: the parent of the cell's node
\* when the tree has the cell, else a node with room.
PlaceFor(t, cell) ==
    LET known == getCellTreeNode(t, cell)
    IN  IF known = None THEN createCell_i(t, <<>>) ELSE t[known].parent

\* One round of fireRebind: the root names a coordinator, x connects and
\* sends its tree.  Where it cannot connect it asks again.
Rebind(x, r) ==
    LET node == tree[r][PlaceFor(tree[r], cellOf[x])]
        at == <<Coordinator(node), node.cell>>
    IN  /\ st[x] = "seeking"
        /\ r \in roots /\ st[r] = "up"
        /\ at[1] # None /\ st[at[1]] # "down"
        /\ aim' = [aim EXCEPT ![x] = at]
        /\ Dial(x, "rebind", at)
        /\ st' = [st EXCEPT ![x] = "rebinding"]
        /\ UNCHANGED <<tree, cellOf, roots, crashes>>

\* The node with room is a cell nobody has joined yet: the root reads a null
\* coordinator.
NullCoordinator(x, r) ==
    /\ st[x] = "seeking"
    /\ r \in roots /\ st[r] = "up"
    /\ Coordinator(tree[r][PlaceFor(tree[r], cellOf[x])]) = None
    /\ st' = [st EXCEPT ![r] = "down"]
    /\ conn' = Fallen(r)
    /\ UNCHANGED <<tree, link, ans, nodeVars>>

RebindDone(x) ==
    /\ st[x] = "rebinding" /\ ans[x] # None
    /\ IF ans[x] = "ok" THEN st' = [st EXCEPT ![x] = "up"] /\ UNCHANGED <<conn, link>>
       ELSE /\ st' = [st EXCEPT ![x] = "seeking"]
            /\ conn' = [conn EXCEPT ![Link(x)].eof = TRUE]
            /\ link' = [link EXCEPT ![x] = 0]
    /\ UNCHANGED <<tree, ans, nodeVars>>

\* Mutant: one that had a parent keeps asking.
NewRootOnlyNew(x) ==
    /\ st[x] = "out"
    /\ \A r \in roots : st[r] = "down"
    /\ st' = [st EXCEPT ![x] = "up"]
    /\ roots' = roots \cup {x}
    /\ tree' = [tree EXCEPT ![x] = Own(x, x)]
    /\ cellOf' = [cellOf EXCEPT ![x] = x]
    /\ UNCHANGED <<link, aim, ans, conn, crashes>>

\* No root answers: the one that asks is the root, with the tree it has, or
\* in a cell of its own when it is new.
NewRoot(x) ==
    /\ st[x] \in {"out", "seeking"}
    /\ \A r \in roots : st[r] = "down"
    /\ st' = [st EXCEPT ![x] = "up"]
    /\ roots' = roots \cup {x}
    /\ IF st[x] = "seeking" THEN UNCHANGED <<tree, cellOf>>
       ELSE /\ tree' = [tree EXCEPT ![x] = Own(x, x)]
            /\ cellOf' = [cellOf EXCEPT ![x] = x]
    /\ UNCHANGED <<link, aim, ans, conn, crashes>>

Crash(p) ==
    /\ st[p] \notin {"out", "down"}
    /\ crashes < MaxCrashes
    /\ crashes' = crashes + 1
    /\ st' = [st EXCEPT ![p] = "down"]
    /\ conn' = Fallen(p)
    /\ UNCHANGED <<tree, link, ans, cellOf, aim, roots>>

-----------------------------------------------------------------------------
PeerStep(x) ==
    \/ Join(x) \/ JoinDone(x) \/ ParentLost(x) \/ CallLost(x) \/ RebindDone(x)
    \/ \E r \in Peers : Rebind(x, r) \/ NullCoordinator(x, r)
    \/ st[x] = "seeking" /\ NewRoot(x)

ServeStep(k) ==
    \/ HandleJoinMesh(k) \/ HandleRebindMesh(k) \/ DropRebind(k)
    \/ HandleLeaveMesh(k) \/ Resume(k) \/ Timeout(k) \/ OnClose(k)

Next ==
    \/ \E x \in Peers : PeerStep(x) \/ NewRoot(x) \/ Crash(x)
    \/ \E x, r \in Peers : RequestCell(x, r)
    \/ \E k \in Keys : ServeStep(k)

Spec == Init /\ [][Next]_vars

\* Threads run, packets arrive and a lost call times out; nobody has to
\* start or to crash.
Fairness ==
    /\ \A x \in Peers : WF_vars(PeerStep(x))
    /\ \A k \in Keys : WF_vars(ServeStep(k))

-----------------------------------------------------------------------------
Parent(x) == conn[Link(x)].to

(***************************************************************************)
(* TypeOK: the type invariant; a coordinator that waits for an answer has  *)
(* a channel to wait on, and a channel of a live one exists.               *)
(***************************************************************************)
TypeOK ==
    /\ st \in [Peers -> {"out", "asked", "joining", "up", "seeking", "rebinding", "down"}]
    /\ link \in [Peers -> 0 .. 2]
    /\ roots \subseteq Peers
    /\ \A k \in Keys : conn[k] # None =>
          /\ conn[k].to \in Peers \ {Child(k)}
          /\ conn[k].task.state \in {"none", "wait", "lost", "ok", "no"}
    /\ \A x \in Peers : st[x] \in {"joining", "rebinding"} => link[x] # 0
    /\ \A x \in Peers : st[x] # "down" /\ link[x] # 0 => conn[Link(x)] # None

(***************************************************************************)
(* Nobody is bound below itself: a set of live coordinators always has one *)
(* whose parent is outside it.  A coordinator that rebinds into its own    *)
(* subtree would wait for itself with its cell locked.                     *)
(***************************************************************************)
Acyclic ==
    \A S \in (SUBSET {x \in Peers : st[x] # "down"}) \ {{}} :
        \E x \in S : link[x] = 0 \/ Parent(x) \notin S

\* Nothing is under way: what the trees say should be what is.
Quiet ==
    /\ \A x \in Peers : st[x] \in {"out", "up", "down"}
    /\ \A x \in Peers : st[x] = "up" => ~ ParentDown(x)
    /\ \A k \in Keys : conn[k] # None =>
          conn[k].q = <<>> /\ conn[k].task.op = "none" /\ ~ conn[k].eof

Bound(x, p) == st[x] = "up" /\ link[x] # 0 /\ Parent(x) = p

(***************************************************************************)
(* When nothing is under way a coordinator that is bound is in its cell in *)
(* the trees of its parent and of its parent's parent: joins and rebinds   *)
(* reach them, and no close of an older channel has taken it out again.    *)
(* (A second crash defeats it: the channel of a refused orphan may close   *)
(* after its next rebind was accepted, and addSubtree leaves a cell that   *)
(* it knows as it is.)                                                     *)
(***************************************************************************)
BoundIsListed ==
    Quiet /\ crashes <= 1 => \A x, p \in Peers : Bound(x, p) =>
        /\ Listed(tree[p], x, cellOf[x])
        /\ \A g \in Peers : Bound(p, g) => Listed(tree[g], x, cellOf[x])

(***************************************************************************)
(* When nothing is under way the first two levels of a live coordinator's  *)
(* tree hold no one who is gone: a refused join or rebind, and the crash   *)
(* of a child or of a child's child, are taken back.  (A level deeper they *)
(* need not be: handleLeaveMesh passes on its own sender and cell.)        *)
(***************************************************************************)
NoGhosts ==
    Quiet => \A p \in Peers : st[p] = "up" =>
        \A q \in DOMAIN tree[p] :
            LET x == Coordinator(tree[p][q])
            IN  /\ Len(q) = 1 /\ x # None => Bound(x, p)
                /\ Len(q) = 2 /\ x # None => \E y \in Peers : Bound(x, y) /\ Bound(y, p)

(***************************************************************************)
(* A coordinator that has lost its parent finds another, or becomes the    *)
(* root.                                                                   *)
(***************************************************************************)
OrphansBind ==
    \A x \in Peers : st[x] = "seeking" ~> st[x] \in {"up", "down"}
=============================================================================
