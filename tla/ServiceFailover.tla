-------------------------- MODULE ServiceFailover ---------------------------
(***************************************************************************)
(* What a replication group promises to the clients of a fault-tolerant    *)
(* service: the runtimes that serve under the group's IID take over from   *)
(* one another, each at most once, and only after every runtime that       *)
(* served before is dead.                                                  *)
(***************************************************************************)
CONSTANTS Peer, First

VARIABLES up,      \* the runtimes that have not died
          served   \* the runtimes that serve or have served under the IID

Init == up = Peer /\ served = {First}

Die(p) ==
    /\ p \in up
    /\ up' = up \ {p}
    /\ UNCHANGED served

TakeOver(p) ==
    /\ p \in up \ served
    /\ served \cap up = {}
    /\ served' = served \cup {p}
    /\ UNCHANGED up

Next == \E p \in Peer : Die(p) \/ TakeOver(p)

Spec == Init /\ [][Next]_<<up, served>>
=============================================================================
