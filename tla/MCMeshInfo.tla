----------------------------- MODULE MCMeshInfo -----------------------------
(***************************************************************************)
(* The calls of a mesh, for TLC: service updates (MeshInfo) and            *)
(* deployments (Deployment).  Two cells: the root's, with coordinator R    *)
(* and follower r, and below it that of C with followers f and g.  The two *)
(* modules have no state in common but the shape of the mesh; a behaviour  *)
(* is one of them, the other stands still.                                 *)
(***************************************************************************)
EXTENDS MeshInfo

CONSTANTS R, C, r, f, g, l,
          MaxWithLeaf,   \* bound: the updates beside one of a leaf
          Absent, Targets, MaxDeployments, Replicas, MaxFaults

VARIABLES part, runs, holder, load, dep, faults

MCAbove == [x \in Peers \cup Leaves |->
               CASE x = R -> None [] x \in {C, r} -> R [] OTHER -> C]

\* Deployments do without g, which is like f.
Deploy == INSTANCE Deployment WITH Followers <- Followers \ {g}, up <- runs

deployVars == <<runs, holder, load, dep, faults>>

MCInit == part \in {"updates", "deploy"} /\ Init /\ Deploy!Init

MCNext ==
    /\ \/ /\ part = "updates" /\ Next /\ UNCHANGED deployVars
          /\ told' = {} \/ published'[f] + published'[g] <= MaxWithLeaf
       \/ part = "deploy" /\ Deploy!Next /\ UNCHANGED vars
    /\ UNCHANGED part

MCFairness ==
    WF_<<vars, deployVars>>(IF part = "updates" THEN Progress /\ UNCHANGED deployVars
                                                ELSE Deploy!Progress /\ UNCHANGED vars)

MCSpec == MCInit /\ [][MCNext]_<<part, vars, deployVars>> /\ MCFairness

-----------------------------------------------------------------------------
(***************************************************************************)
(* No update ends the process that handles it (Cell::processUpdateInfo),   *)
(* and in an intact mesh no deployment does (SthenoCore::startService);    *)
(* the replicas of a service are on different peers (findResources).       *)
(***************************************************************************)
Unharmed ==
    IF part = "updates" THEN Survives ELSE Deploy!Placed

(***************************************************************************)
(* Who has called the mesh returns: updates and joins always               *)
(* (Cell::updateState, handleJoinCell), deployments unless they are        *)
(* entangled (P3Mesh::createRemoteService).                                *)
(***************************************************************************)
CallersReturn ==
    []<>(IF part = "updates" THEN UpdatesReturned ELSE Deploy!DeploymentsReturned)
=============================================================================
