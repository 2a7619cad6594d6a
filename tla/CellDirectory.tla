--------------------------- MODULE CellDirectory ---------------------------
(***************************************************************************)
(* One coordinator's tree of cells under any sequence of the operations    *)
(* Cell.cpp makes on it: cells handed out to peers that ask, peers that    *)
(* join and leave, subtrees that rebind with everything below them,        *)
(* subtrees that leave, and the pruning a new coordinator does.  Every     *)
(* operation holds the tree's lock from end to end.                        *)
(***************************************************************************)
EXTENDS CellTree, Bags

CONSTANTS
    Root,        \* the cell of this coordinator
    Cells,       \* the other cells
    SPs, Sensors,   \* peers, by type
    Load,        \* Load[p]: getTotalServicesRunning, -1 when not known
    MaxCells     \* bound: nodes in the tree

VARIABLES
    tree,
    crashed      \* a null coordinator was dereferenced

vars == <<tree, crashed>>

Peers == SPs \cup Sensors
KindOf(p) == IF p \in SPs THEN "sps" ELSE "sensors"

\* The trees that arrive in a RebindMeshPacket: a cell with its coordinator,
\* alone or with a cell below it in either slot.
Arriving ==
    LET alone(c, p) == [NewTree(c) EXCEPT ![<<>>] = add(@, "sps", p)]
        with(t, i, d) == (<<i>> :> Node(d, 1, i, <<>>)) @@ t
    IN  {alone(c, p) : c \in Cells, p \in SPs} \cup
        {with(alone(x[1], p), i, x[2]) :
            x \in {y \in Cells \X Cells : y[1] # y[2]}, p \in SPs, i \in Slots}

Init ==
    /\ tree = NewTree(Root)
    /\ crashed = FALSE

-----------------------------------------------------------------------------
\* createCell, for a peer that asks for a cell and finds every cell full.
\* The identifier is fresh.
CreateCell(c) ==
    /\ \A q \in DOMAIN tree : tree[q].cell # c
    /\ getAvailableNode(tree, "sps") = None
    /\ tree' = createSibling(tree, createCell_i(tree, <<>>), c)

AddPeer(p, fid) == tree' = addPeer(tree, KindOf(p), p, fid)

AddPeerBelow(p, fid, parent) ==
    /\ getCellTreeNode(tree, fid) = None
    /\ tree' = addPeerBelow(tree, KindOf(p), p, fid, parent)

\* CellTreeNode::remove on the node of the peer's cell
RemovePeer(p, fid) ==
    LET at == getCellTreeNode(tree, fid)
    IN  /\ at # None
        /\ tree' = [tree EXCEPT ![at] = remove(@, p)]

AddSubtree(sub, parent) == tree' = addSubtree(tree, sub, parent)

\* Cell.cpp calls removeSubtree for the cell of a child
RemoveSubtree(c) ==
    /\ getCellTreeNode(tree, c) # <<>>
    /\ tree' = removeSubtree(tree, c)

\* pruneSubtrees: the children of the root whose coordinator is not in the
\* list go, with what is below them.  A child without peers has no
\* coordinator to compare.
PruneSubtrees(list) ==
    LET kids == {<<i>> : i \in {j \in Slots : getSibling(tree, <<>>, j) # None}}
        gone == {k \in kids : Coordinator(tree[k]) \notin list}
    IN  IF \E k \in kids : Coordinator(tree[k]) = None
        THEN crashed' = TRUE /\ UNCHANGED tree
        ELSE /\ tree' = Without(tree, UNION {Below(tree, k) : k \in gone})
             /\ UNCHANGED crashed

\* removeCell: a leaf is taken out, else the bottom node takes its place
Removable(c) ==
    getCellTreeNode(tree, c) # None /\ getParentTreeNode(tree, c) # None
Removed(c) ==
    LET at == getCellTreeNode(tree, c)
        bottom == findBottomNode(tree, at)
    IN  IF bottom = at THEN Without(tree, {at}) ELSE replaceSibling(tree, at, bottom)

RemoveCell(c) == Removable(c) /\ tree' = Removed(c)

Next ==
    \/ /\ ~ crashed
       /\ UNCHANGED crashed
       /\ \/ \E c \in Cells : CreateCell(c)
          \/ \E p \in Peers, c \in Cells \cup {Root} : AddPeer(p, c)
          \/ \E p \in SPs, c, d \in Cells \cup {Root} : AddPeerBelow(p, c, d)
          \/ \E p \in Peers, c \in Cells \cup {Root} : RemovePeer(p, c)
          \/ \E s \in Arriving, c \in Cells \cup {Root, None} :
                AddSubtree(Deserialize(Serialize(s)), c)
          \/ \E c \in Cells : RemoveSubtree(c)
          \/ \E c \in Cells : RemoveCell(c)
       /\ Cardinality(DOMAIN tree') <= MaxCells
    \/ ~ crashed /\ \E list \in SUBSET SPs : PruneSubtrees(list)

Spec == Init /\ [][Next]_vars

-----------------------------------------------------------------------------
\* What a tree lists: its cells, each with its peers, as a bag.
AsListed(t, q) == <<t[q].cell, t[q].peers>>
Listed(t) == [x \in {AsListed(t, q) : q \in DOMAIN t} |->
                 Cardinality({q \in DOMAIN t : AsListed(t, q) = x})]

(***************************************************************************)
(* Types of the variables: a tree is closed under parents and has no more  *)
(* nodes than the bound.                                                   *)
(***************************************************************************)
TypeOK ==
    /\ crashed \in BOOLEAN
    /\ <<>> \in DOMAIN tree
    /\ Cardinality(DOMAIN tree) <= MaxCells
    /\ \A q \in DOMAIN tree :
        /\ q = <<>> \/ Front(q) \in DOMAIN tree
        /\ tree[q].cell \in Cells \cup {Root}
        /\ tree[q].peers \in [Kinds -> Seq(Peers)]

(***************************************************************************)
(* What a node records of its place is where it is: its depth, its slot    *)
(* and the pointer to its parent, after cells are made, subtrees put in    *)
(* with everything below them (addSubtree, setLocation, setSibbling) and   *)
(* bottom nodes promoted (replaceSibling).  Every search below goes by     *)
(* these fields.                                                           *)
(***************************************************************************)
WellFormed ==
    \A q \in DOMAIN tree :
        /\ tree[q].depth = Len(q)
        /\ tree[q].spanNo = (IF q = <<>> THEN 0 ELSE Last(q))
        /\ tree[q].parent = (IF q = <<>> THEN None ELSE Front(q))

(***************************************************************************)
(* No list of a cell is longer than its limit or names a peer twice        *)
(* (CellTreeNode::add), whichever way the cell came into the tree.         *)
(***************************************************************************)
Limits ==
    \A q \in DOMAIN tree, k \in Kinds :
        /\ Len(tree[q].peers[k]) <= MaxPeers[k]
        /\ IsInjective(tree[q].peers[k])

(***************************************************************************)
(* createCell always finds a parent for a new cell, and one than which no  *)
(* node with a free slot is nearer to the root: the tree stays as shallow  *)
(* as the cells that left it allow (createCell_i).                         *)
(***************************************************************************)
Shallowest ==
    LET at == createCell_i(tree, <<>>)
        free == {q \in DOMAIN tree : ~ hasAllSiblings(tree, q)}
    IN  at \in free /\ \A q \in free : Len(at) <= Len(q)

(***************************************************************************)
(* A sensor is sent to a deepest cell that has room for it, and is refused *)
(* only when no cell of the tree has (getAvailableNodeForSensor_i); a      *)
(* super-peer is refused, and a cell made for it, only when every cell is  *)
(* full (getAvailableNodeForSP_i).                                         *)
(***************************************************************************)
RoomIsFound ==
    LET room(k) == {q \in DOMAIN tree : hasAvailableSlotsForPeer(tree[q], k)}
        leaf == getAvailableNodeForSensor_i(tree, <<>>)
        sp == getAvailableNodeForSP_i(tree, <<>>)
    IN  /\ IF room("sensors") = {} THEN leaf = None
           ELSE /\ leaf \in room("sensors")
                /\ \A q \in room("sensors") : Len(q) <= Len(leaf)
        /\ IF room("sps") = {} THEN sp = None ELSE sp \in room("sps")

(***************************************************************************)
(* getPoL, which walks without recursion and comes back up by the parents' *)
(* pointers, ends, and returns a peer of the tree whose load is known and  *)
(* least among those that are not filtered out, or none if there is none.  *)
(***************************************************************************)
LeastLoaded ==
    \A filter \in SUBSET SPs :
        LET best == getPoL(tree, Load, filter)
            all == {p \in SPs \ filter :
                      /\ Load[p] # -1
                      /\ \E q \in DOMAIN tree : HasPid(tree[q].peers["sps"], p)}
        IN  IF all = {} THEN best = None
            ELSE best \in all /\ \A p \in all : Load[best] <= Load[p]

(***************************************************************************)
(* A peer is found, by getPeer, exactly when some cell of the tree lists   *)
(* it; a cell by getCellTreeNode exactly when a node has it; and the nodes *)
(* of a level are all of that level and each only once (getNodesPerDepth). *)
(* The sensors of the whole tree are those of its cells (getSensors).      *)
(***************************************************************************)
Found ==
    /\ \A p \in Peers :
        (getPeer(tree, p) # None) =
            \E q \in DOMAIN tree, k \in Kinds : HasPid(tree[q].peers[k], p)
    /\ \A c \in Cells \cup {Root} :
        (getCellTreeNode(tree, c) # None) = \E q \in DOMAIN tree : tree[q].cell = c
    /\ \A d \in 0 .. MaxCells :
        LET level == getNodesPerDepth_i(tree, <<>>, d)
        IN  /\ IsInjective(level)
            /\ ToSet(level) = {q \in DOMAIN tree : Len(q) = d}
    /\ ToSet(getSensors(tree)) = UNION {ToSet(tree[q].peers["sensors"]) : q \in DOMAIN tree}

(***************************************************************************)
(* The tree a coordinator hands to a follower or to its parent is read     *)
(* back as it was written: every cell in its slot, with its peers in their *)
(* order (serialize, deserialize).                                         *)
(***************************************************************************)
RoundTrip == Deserialize(Serialize(tree)) = tree

(***************************************************************************)
(* removeCell takes one cell out of the tree and keeps every other with    *)
(* the peers it lists: the bottom node that takes the place has lost       *)
(* nothing on its way up.                                                  *)
(***************************************************************************)
OnlyTheCellGoes ==
    \A c \in Cells : Removable(c) =>
        Listed(Removed(c)) (+) SetToBag({AsListed(tree, getCellTreeNode(tree, c))})
            = Listed(tree)
=============================================================================
