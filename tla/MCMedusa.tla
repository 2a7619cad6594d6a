------------------------------ MODULE MCMedusa ------------------------------
(***************************************************************************)
(* The reservations, for TLC: Medusa with different sets of runtimes,      *)
(* threads and faults, and the bytes below it (MedusaFraming).  A          *)
(* behaviour is one of them, the others stand still.  M, the instance of   *)
(* Reservations, has two runtimes that may crash at any time and a daemon  *)
(* that may fail and restart.                                              *)
(***************************************************************************)
EXTENDS Reservations

CONSTANTS
    r1, r2,                                       \* the runtimes
    HeaderSize, MaxBody, MaxPackets, WholeHeaders \* of MedusaFraming

VARIABLES
    part,                                         \* the one that runs
    bodies, arrived, taken, header, partial, handled, closed

framingVars == <<bodies, arrived, taken, header, partial, handled, closed>>

\* Several threads of one runtime that call at the same time; r2 is not started.
Calling == INSTANCE Medusa WITH
    replies <- answers, Workers <- Workers \cup {"v"}, MaxCalls <- 4

\* The build with partitions: two runtimes that end when they are open.
Partitioned == INSTANCE Medusa WITH
    replies <- answers, Partitioning <- TRUE, Orderly <- TRUE,
    MaxFaults <- 0, MaxRestarts <- 0

\* The same without partitions.
Shared == INSTANCE Medusa WITH
    replies <- answers, Orderly <- TRUE, MaxFaults <- 0, MaxRestarts <- 0

Framing == INSTANCE MedusaFraming

\* Nothing is on its way: how MedusaFraming stands still.
Nothing ==
    /\ bodies = <<>> /\ arrived = 0 /\ taken = 0 /\ header = -1
    /\ partial = 0 /\ handled = 0 /\ closed = FALSE

MCInit ==
    \/ part = "crashing" /\ M!Init /\ Nothing
    \/ part = "calling" /\ Calling!Init /\ Nothing
    \/ part = "partitioned" /\ Partitioned!Init /\ Nothing
    \/ part = "shared" /\ Shared!Init /\ Nothing
    \/ part = "framing" /\ Shared!Init /\ Framing!Init

MCNext ==
    /\ \/ part = "crashing" /\ M!Next /\ UNCHANGED framingVars
       \/ part = "calling" /\ Calling!Next /\ UNCHANGED <<mode[r2], framingVars>>
       \/ part = "partitioned" /\ Partitioned!Next /\ UNCHANGED framingVars
       \/ part = "shared" /\ Shared!Next /\ UNCHANGED framingVars
       \/ part = "framing" /\ Framing!Next /\ UNCHANGED medusaVars
    /\ UNCHANGED part

MCSpec ==
    /\ MCInit /\ [][MCNext]_<<part, medusaVars, framingVars>>
    /\ WF_medusaVars(part = "partitioned" /\ Partitioned!Progress)
    /\ WF_medusaVars(part = "shared" /\ Shared!Progress)
    /\ WF_framingVars(part = "framing" /\ Framing!Next)

-----------------------------------------------------------------------------
(***************************************************************************)
(* A call to the daemon returns, when no reservation fails                 *)
(* (MedusaClientHandler waits without a timeout): every request is         *)
(* answered, and every packet handled however its body is split            *)
(* (handle_input), whose reader stays in step with the packets.  And it    *)
(* has been served: in the build with partitions, a thread that was told   *)
(* it is in its runtime's domain is there (setTaskInCPUPartition).         *)
(***************************************************************************)
CallsAreServed ==
    /\ [](/\ part = "partitioned" => Partitioned!TypeOK /\ Partitioned!Placed
          /\ part = "framing" => Framing!TypeOK /\ Framing!InStep)
    /\ []<>(/\ part = "partitioned" => Partitioned!AllReturned
            /\ part = "shared" => Shared!AllReturned)
    /\ <>(part = "framing" => handled = Framing!Count)
=============================================================================
