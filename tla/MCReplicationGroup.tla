------------------------- MODULE MCReplicationGroup -------------------------
(* ReplicationGroup for TLC: one bootstrapping runtime and two or three     *)
(* recruits.                                                                *)
EXTENDS ReplicationGroup

CONSTANTS b, r1, r2, r3

ThreeRecruits == <<r1, r2, r3>>
=============================================================================
