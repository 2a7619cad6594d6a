------------------------------ MODULE CellTree ------------------------------
(***************************************************************************)
(* The tree of cells a coordinator keeps (CellTree, CellTreeNode).  A tree *)
(* is a function from the places of its nodes to the nodes: the place of a *)
(* node is the sequence of the slots that lead to it from the root, and a  *)
(* pointer to a node is its place.  A node keeps what the code keeps: its  *)
(* cell, its depth, the slot it is in, the pointer to its parent and the   *)
(* peers of the cell in three lists, each with its limit.                  *)
(*                                                                         *)
(* The searches are translated as the code writes them; CellDirectory      *)
(* compares what they return with what they are for.                       *)
(***************************************************************************)
EXTENDS Integers, Sequences, FiniteSets, SequencesExt

CONSTANTS
    None,        \* a null pointer
    TreeSpan,    \* TREE_SPAN_d, taken equal at every depth (its default is 2)
    MaxPeers     \* MaxPeers[k]: CELL_SPS_d, CELL_SENSORS_d, CELL_MONITORS_d

Slots == 0 .. TreeSpan - 1
Kinds == {"sps", "sensors", "monitors"}

\* A sequence of slots, first to last.
SlotSeq == [i \in 1 .. TreeSpan |-> i - 1]

NoPeers == [k \in Kinds |-> <<>>]

\* CellTreeNode's constructor
Node(cell, depth, spanNo, parent) ==
    [cell |-> cell, depth |-> depth, spanNo |-> spanNo, parent |-> parent,
     peers |-> NoPeers]

\* CellTree's constructor: the root alone
NewTree(cell) == (<<>> :> Node(cell, 0, 0, None))

-----------------------------------------------------------------------------
getSibling(t, at, i) == IF at \o <<i>> \in DOMAIN t THEN at \o <<i>> ELSE None

hasAllSiblings(t, at) == \A i \in Slots : getSibling(t, at, i) # None

countSiblings(t, at) == Cardinality({i \in Slots : getSibling(t, at, i) # None})

FreeSlot(t, at) == CHOOSE i \in Slots :
    /\ getSibling(t, at, i) = None
    /\ \A j \in 0 .. i - 1 : getSibling(t, at, j) # None

Below(t, at) == {q \in DOMAIN t : IsPrefix(at, q)}

Without(t, places) == [q \in DOMAIN t \ places |-> t[q]]

\* The children of a node that are there, in the order of their slots.
Children(t, at) == SelectSeq(SlotSeq, LAMBDA i : getSibling(t, at, i) # None)

\* createSibling: the first free slot gets a new node, None when there is none
createSibling(t, at, cell) ==
    IF hasAllSiblings(t, at) THEN t
    ELSE LET i == FreeSlot(t, at)
         IN  (at \o <<i>> :> Node(cell, t[at].depth + 1, i, at)) @@ t

-----------------------------------------------------------------------------
(* The lists of a node.  *)

HasPid(list, pid) == \E i \in DOMAIN list : list[i] = pid

hasAvailableSlotsForPeer(node, kind) == Len(node.peers[kind]) < MaxPeers[kind]

\* CellTreeNode::add; the node is left alone where the code returns -1
add(node, kind, pid) ==
    IF HasPid(node.peers[kind], pid) \/ Len(node.peers[kind]) >= MaxPeers[kind]
    THEN node
    ELSE [node EXCEPT !.peers[kind] = Append(@, pid)]

\* CellTreeNode::remove: the first list that has the peer loses it
remove(node, pid) ==
    LET k == IF HasPid(node.peers["sps"], pid) THEN "sps"
             ELSE IF HasPid(node.peers["sensors"], pid) THEN "sensors"
             ELSE "monitors"
    IN  [node EXCEPT !.peers[k] = SelectSeq(@, LAMBDA p : p # pid)]

\* CellTreeNode::getCoordinator
Coordinator(node) ==
    IF node.peers["sps"] = <<>> THEN None ELSE Head(node.peers["sps"])

-----------------------------------------------------------------------------
(* The searches.  *)

\* getCellTreeNode, getTreeNode: the node itself, then its children in order
RECURSIVE getCellTreeNode_i(_, _, _)
getCellTreeNode_i(t, cell, at) ==
    IF t[at].cell = cell THEN at
    ELSE LET tried == SelectSeq(Children(t, at), LAMBDA i :
                          getCellTreeNode_i(t, cell, at \o <<i>>) # None)
         IN  IF tried = <<>> THEN None
             ELSE getCellTreeNode_i(t, cell, at \o <<Head(tried)>>)

getCellTreeNode(t, cell) == getCellTreeNode_i(t, cell, <<>>)

\* getParentTreeNode: the node whose child it is
RECURSIVE getParentTreeNode_i(_, _, _)
getParentTreeNode_i(t, cell, at) ==
    LET Has(i) == \/ t[at \o <<i>>].cell = cell
                  \/ getParentTreeNode_i(t, cell, at \o <<i>>) # None
        tried == SelectSeq(Children(t, at), Has)
    IN  IF tried = <<>> THEN None
        ELSE IF t[at \o <<Head(tried)>>].cell = cell THEN at
        ELSE getParentTreeNode_i(t, cell, at \o <<Head(tried)>>)

getParentTreeNode(t, cell) ==
    IF t[<<>>].cell = cell THEN None ELSE getParentTreeNode_i(t, cell, <<>>)

\* createCell_i: a node with a free slot, else the least deep of what the
\* children answer, the first of them on a tie
RECURSIVE createCell_i(_, _)
createCell_i(t, at) ==
    IF at = None THEN None
    ELSE IF ~ hasAllSiblings(t, at) THEN at
    ELSE LET Better(min, i) ==
                 LET temp == createCell_i(t, getSibling(t, at, i))
                 IN  IF \/ min = None
                        \/ temp # None /\ t[min].depth > t[temp].depth
                     THEN temp ELSE min
         IN  FoldLeft(Better, None, SlotSeq)

\* getAvailableNodeForSP_i: the node, then its children in order
RECURSIVE getAvailableNodeForSP_i(_, _)
getAvailableNodeForSP_i(t, at) ==
    IF hasAvailableSlotsForPeer(t[at], "sps") THEN at
    ELSE LET Tried(ret, i) ==
                 IF ret # None \/ getSibling(t, at, i) = None THEN ret
                 ELSE getAvailableNodeForSP_i(t, at \o <<i>>)
         IN  FoldLeft(Tried, None, SlotSeq)

\* getAvailableNodeForSensor_i: the deepest of the children's answers, the
\* node itself only when they have none
RECURSIVE getAvailableNodeForSensor_i(_, _)
getAvailableNodeForSensor_i(t, at) ==
    LET Deeper(cur, i) ==
            LET ret == IF getSibling(t, at, i) = None THEN None
                       ELSE getAvailableNodeForSensor_i(t, at \o <<i>>)
            IN  IF ret # None /\ (cur = None \/ t[ret].depth > t[cur].depth)
                THEN ret ELSE cur
        cur == FoldLeft(Deeper, None, SlotSeq)
    IN  IF cur = None /\ hasAvailableSlotsForPeer(t[at], "sensors")
        THEN at ELSE cur

getAvailableNode(t, kind) ==
    CASE kind = "sps" -> getAvailableNodeForSP_i(t, <<>>)
      [] kind = "sensors" -> getAvailableNodeForSensor_i(t, <<>>)
      [] OTHER -> <<>>

-----------------------------------------------------------------------------
(* Walks.  *)

\* getNodesPerDepth_i goes by the depth the nodes record, and no deeper
RECURSIVE getNodesPerDepth_i(_, _, _)
getNodesPerDepth_i(t, at, depth) ==
    IF t[at].depth = depth THEN <<at>>
    ELSE LET Sub(i) == getNodesPerDepth_i(t, at \o <<i>>, depth)
         IN  FlattenSeq([j \in DOMAIN Children(t, at) |-> Sub(Children(t, at)[j])])

\* The nodes in the order getCoordinators_i, getSensors_i, getRandomPeer_i
\* and getPeer_i visit them.
RECURSIVE Preorder(_, _)
Preorder(t, at) ==
    LET Sub(i) == Preorder(t, at \o <<i>>)
    IN  <<at>> \o
        FlattenSeq([j \in DOMAIN Children(t, at) |-> Sub(Children(t, at)[j])])

\* getPeer: where the first entry for the peer is
getPeer(t, pid) ==
    LET found == SelectSeq(Preorder(t, <<>>), LAMBDA at :
                     \E k \in Kinds : HasPid(t[at].peers[k], pid))
    IN  IF found = <<>> THEN None ELSE Head(found)

getSensors(t) ==
    LET order == Preorder(t, <<>>)
    IN  FlattenSeq([i \in DOMAIN order |-> t[order[i]].peers["sensors"]])

\* Mutant: a load that is not known, -1, is compared like the others.
getPoLUnknown(t, load, filter) ==
    LET order == Preorder(t, <<>>)
        all == FlattenSeq([i \in DOMAIN order |-> t[order[i]].peers["sps"]])
        Less(best, p) == IF p \in filter \/ (best # None /\ load[p] > load[best])
                         THEN best ELSE p
    IN  FoldLeft(Less, None, all)

\* getPoL walks with a stack of slots and comes back up by the parents'
\* pointers; a node is evaluated on the way down only.  The peer with the
\* least known load that is not filtered out, the last of them on a tie.
RECURSIVE PoLWalk(_, _, _, _, _, _, _)
PoLWalk(t, load, filter, at, index, stack, best) ==
    IF at = None THEN best
    ELSE LET Less(b, p) ==
                 IF /\ p \notin filter
                    /\ load[p] # -1
                    /\ (b = None \/ load[p] <= load[b])
                 THEN p ELSE b
             now == IF index = 0 THEN FoldLeft(Less, best, t[at].peers["sps"])
                    ELSE best
             next == SelectSeq(Children(t, at), LAMBDA i : i >= index)
         IN  IF next # <<>>
             THEN PoLWalk(t, load, filter, at \o <<Head(next)>>, 0,
                          Append(stack, Head(next)), now)
             ELSE IF t[at].parent = None THEN now
             ELSE PoLWalk(t, load, filter, t[at].parent,
                          Last(stack) + 1, Front(stack), now)

getPoL(t, load, filter) == PoLWalk(t, load, filter, <<>>, 0, <<>>, None)

-----------------------------------------------------------------------------
(* What goes on the wire: the node's fields and lists, then each child     *)
(* with the slot it is in (serialize); the reader makes the nodes and puts *)
(* them in their slots (deserialize).                                      *)

RECURSIVE SerializeNode(_, _)
SerializeNode(t, at) ==
    LET kids == Children(t, at)
    IN  [cell |-> t[at].cell, depth |-> t[at].depth, spanNo |-> t[at].spanNo,
         peers |-> t[at].peers,
         siblings |-> [j \in DOMAIN kids |->
             [order |-> kids[j], node |-> SerializeNode(t, at \o <<kids[j]>>)]]]

RECURSIVE DeserializeNode(_, _, _)
DeserializeNode(w, at, parent) ==
    LET child(s) == DeserializeNode(s.node, at \o <<s.order>>, at)
    IN  (at :> [cell |-> w.cell, depth |-> w.depth, spanNo |-> w.spanNo,
                parent |-> parent, peers |-> w.peers])
        @@ FoldLeft(LAMBDA f, s : child(s) @@ f, <<>>, w.siblings)

Serialize(t) == SerializeNode(t, <<>>)
Deserialize(w) == DeserializeNode(w, <<>>, None)

-----------------------------------------------------------------------------
(* Moving nodes.  The places of the nodes change, and with them the        *)
(* pointers, which follow the nodes; depth and slot are fields and change  *)
(* only where the code writes them.                                        *)

\* The nodes of a tree as they stand when its root is put in place at.
Moved(t, at, parent) ==
    [q \in {at \o p : p \in DOMAIN t} |->
        LET p == SubSeq(q, Len(at) + 1, Len(q))
        IN  [t[p] EXCEPT !.parent = IF p = <<>> THEN parent ELSE at \o @]]

\* Mutant: the depth of the root of the subtree alone is set.
setLocationRoot(t, depth, spanNo) ==
    [t EXCEPT ![<<>>].depth = depth, ![<<>>].spanNo = spanNo]

\* setLocation goes down the subtree
setLocation(t, depth, spanNo) ==
    [q \in DOMAIN t |->
        IF q = <<>> THEN [t[q] EXCEPT !.depth = depth, !.spanNo = spanNo]
        ELSE [t[q] EXCEPT !.depth = depth + Len(q), !.spanNo = Last(q)]]

\* addSubtree, where it has found the node and the slot
Attach(t, sub, at) ==
    LET i == FreeSlot(t, at)
    IN  Moved(setLocation(sub, t[at].depth + 1, i), at \o <<i>>, at) @@ t

\* addSubtree: a cell the tree has already is left as it is; no parent
\* means the root; a missing or full parent refuses
ParentPlace(t, parent) == IF parent = None THEN <<>> ELSE getCellTreeNode(t, parent)

addSubtreeOk(t, sub, parent) ==
    \/ getCellTreeNode(t, sub[<<>>].cell) # None
    \/ LET at == ParentPlace(t, parent)
       IN  at # None /\ ~ hasAllSiblings(t, at)

addSubtree(t, sub, parent) ==
    IF \/ getCellTreeNode(t, sub[<<>>].cell) # None
       \/ ~ addSubtreeOk(t, sub, parent)
    THEN t ELSE Attach(t, sub, ParentPlace(t, parent))

\* addPeer(peer): the node of the peer's cell, or nothing
addPeer(t, kind, pid, fid) ==
    LET at == getCellTreeNode(t, fid)
    IN  IF at = None THEN t ELSE [t EXCEPT ![at] = add(@, kind, pid)]

\* addPeer(peer, parentCellID): the cell is made below its parent when it
\* is not there
addPeerBelow(t, kind, pid, fid, parent) ==
    LET at == getCellTreeNode(t, parent)
    IN  IF getCellTreeNode(t, fid) # None THEN addPeer(t, kind, pid, fid)
        ELSE IF at = None THEN t
        ELSE addPeer(createSibling(t, at, fid), kind, pid, fid)

\* removeSubtree(fid)
removeSubtree(t, cell) ==
    IF getCellTreeNode(t, cell) = None THEN t
    ELSE Without(t, Below(t, getCellTreeNode(t, cell)))

\* findBottomNode: down the first children to a node that has none
RECURSIVE findBottomNode(_, _)
findBottomNode(t, at) ==
    IF countSiblings(t, at) = 0 THEN at
    ELSE findBottomNode(t, at \o <<Head(Children(t, at))>>)

\* replaceSibling: the bottom node, already out of its parent's slots, takes
\* the place, the depth, the slot and the children of the removed one
replaceSibling(t, at, bottom) ==
    [Without(t, {bottom}) EXCEPT ![at] =
        [t[bottom] EXCEPT !.depth = t[at].depth, !.spanNo = t[at].spanNo,
                          !.parent = t[at].parent]]
=============================================================================
