----------------------------- MODULE MCBinding -----------------------------
(***************************************************************************)
(* How peers find their place in the mesh, for TLC: a leaf, which binds to *)
(* a coordinator (LeafMesh), and the super-peers, which elect a root       *)
(* (RootElection).  The two have no state in common; a behaviour is one of *)
(* them, the other stands still.                                           *)
(***************************************************************************)
EXTENDS LeafMesh, Integers

CONSTANTS Peers, ReplyTimeout, MaxWait, MaxFaults

\* UUIDs are compared as numbers; MAX_WAIT_TIME is a multiple of more than the
\* timeout of one try (CellDiscovery.h).
ASSUME TimeAssumption ==
    /\ Peers \subseteq Int
    /\ ReplyTimeout \in Nat \ {0} /\ MaxWait \in Nat /\ ReplyTimeout < MaxWait

VARIABLES part, mode, left, over, inbox, lost, crashes, raced

rootVars == <<mode, left, over, inbox, lost, crashes, raced>>

Root == INSTANCE RootElection

MCNext ==
    /\ \/ part = "leaf" /\ Next /\ UNCHANGED rootVars
       \/ part = "root" /\ Root!Next /\ UNCHANGED vars
    /\ UNCHANGED part

MCInit == part \in {"leaf", "root"} /\ Init /\ Root!Init

\* No super-peer has started: none of the steps of Root!Fairness can be taken.
MCSpec ==
    /\ MCInit
    /\ [][MCNext]_<<part, vars, rootVars>>
    /\ WF_vars(part = "leaf" /\ Progress)
    /\ WF_vars(part = "leaf" /\ Notices)
    /\ Root!Fairness

-----------------------------------------------------------------------------
(***************************************************************************)
(* A leaf's coordinator has listed it or refused it, and a client that has *)
(* closed has a thread on its way to rebind the leaf, unless it closed     *)
(* between the test and the assignment of setCloseListener (Missed) or was *)
(* freed in use (broken): P3LeafMesh::bind, AbstractStreamChannel::close.  *)
(***************************************************************************)
Attached == part = "leaf" => TypeOK /\ Noticed /\ Listed

(***************************************************************************)
(* There is one root of the mesh (CellDiscovery::requestCell).             *)
(***************************************************************************)
OneRoot == part = "root" => Root!TypeOK /\ Root!OneRoot

=============================================================================
