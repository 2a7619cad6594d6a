------------------------------ MODULE MCCells ------------------------------
(***************************************************************************)
(* The trees of cells, for TLC.  A behaviour is one of four: the mesh of   *)
(* coordinators in a chain of four with one crash or of three with two     *)
(* (CellMesh); or one coordinator's tree in which each cell may have two   *)
(* below it (CellDirectory), with up to four cells and one super-peer or   *)
(* with three cells and every peer.                                        *)
(***************************************************************************)
EXTENDS Integers, Sequences, TLC

CONSTANTS None, p1, p2, p3, p4, s1, Root, c1, c2, c3

VARIABLES
    part,
    st, cellOf, trees, link, aim, ans, roots, conn, crashes,   \* of CellMesh
    tree, crashed                                              \* of CellDirectory

meshVars == <<st, cellOf, trees, link, aim, ans, roots, conn, crashes>>
dirVars == <<tree, crashed>>

MaxPeers == [k \in {"sps", "sensors", "monitors"} |-> 1]
Load == (p1 :> 1) @@ (p2 :> 0) @@ (p3 :> -1)

Four == INSTANCE CellMesh WITH
    tree <- trees, TreeSpan <- 1, First <- p1, Peers <- {p1, p2, p3, p4}, MaxCrashes <- 1
Three == INSTANCE CellMesh WITH
    tree <- trees, TreeSpan <- 1, First <- p1, Peers <- {p1, p2, p3}, MaxCrashes <- 2

Directory == INSTANCE CellDirectory WITH
    TreeSpan <- 2, Cells <- {c1, c2, c3}, SPs <- {p1, p2, p3}, Sensors <- {s1}, MaxCells <- 4
Wide == INSTANCE CellDirectory WITH
    TreeSpan <- 2, Cells <- {c1, c2, c3}, SPs <- {p1}, Sensors <- {}, MaxCells <- 4
Full == INSTANCE CellDirectory WITH
    TreeSpan <- 2, Cells <- {c1, c2}, SPs <- {p1, p2, p3}, Sensors <- {s1}, MaxCells <- 3

MCInit ==
    /\ part \in {"four", "three", "wide", "full"}
    /\ IF part = "four" THEN Four!Init ELSE Three!Init
    /\ Directory!Init

MCNext ==
    /\ \/ part = "four" /\ Four!Next /\ UNCHANGED dirVars
       \/ part = "three" /\ Three!Next /\ UNCHANGED dirVars
       \/ part = "wide" /\ Wide!Next /\ UNCHANGED meshVars
       \/ part = "full" /\ Full!Next /\ UNCHANGED meshVars
    /\ UNCHANGED part

MCSpec ==
    /\ MCInit /\ [][MCNext]_<<part, meshVars, dirVars>>
    /\ \A x \in {p1, p2, p3} : WF_meshVars(part = "three" /\ Three!PeerStep(x))
    /\ \A k \in {p1, p2, p3} \X {1, 2} : WF_meshVars(part = "three" /\ Three!ServeStep(k))

-----------------------------------------------------------------------------
(***************************************************************************)
(* The trees of the coordinators are right about the mesh: nobody is below *)
(* itself, who is bound is listed and who is gone is not (Cell, CellMesh). *)
(***************************************************************************)
MeshInv ==
    CASE part = "four" -> Four!TypeOK /\ Four!Acyclic /\ Four!BoundIsListed /\ Four!NoGhosts
      [] part = "three" -> Three!TypeOK /\ Three!Acyclic /\ Three!BoundIsListed /\ Three!NoGhosts
      [] OTHER -> TRUE

(***************************************************************************)
(* A tree keeps its shape and the limits of its lists, and is read as it   *)
(* was written (CellTree, CellTreeNode, CellDirectory).                    *)
(***************************************************************************)
WellFormed ==
    part \in {"wide", "full"} =>
        Directory!TypeOK /\ Directory!WellFormed /\ Directory!Limits /\ Directory!RoundTrip

(***************************************************************************)
(* The walks over a tree find what they look for: where a cell, a peer or a *)
(* new cell is to be put, the least loaded peer, what is in the tree, and  *)
(* the cell that is to go (CellTree, CellDirectory).                       *)
(***************************************************************************)
Searched ==
    part \in {"wide", "full"} =>
        /\ Directory!Shallowest /\ Directory!RoomIsFound /\ Directory!LeastLoaded
        /\ Directory!Found /\ Directory!OnlyTheCellGoes

(***************************************************************************)
(* Orphans find a parent (fireRebind).                                     *)
(***************************************************************************)
OrphansOfThreeBind == part = "three" => Three!OrphansBind
=============================================================================
