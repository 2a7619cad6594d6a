------------------------------- MODULE MCCell -------------------------------
(***************************************************************************)
(* Cell for TLC, once with a slot for every peer and once with one slot    *)
(* less, so that a joiner or a rebinding member may be refused.            *)
(***************************************************************************)
EXTENDS Cell

VARIABLE roomy  \* MaxSP slots, or one less

Narrow == INSTANCE Cell WITH MaxSP <- MaxSP - 1

MCNext ==
    /\ IF roomy THEN Next ELSE Narrow!Next
    /\ UNCHANGED roomy

MCInit == Init /\ roomy \in BOOLEAN

MCSpec ==
    /\ MCInit
    /\ [][MCNext]_<<vars, roomy>>
    /\ WF_vars(IF roomy THEN Progress ELSE Narrow!Progress)
=============================================================================
